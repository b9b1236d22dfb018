-------------------------- MODULE TaxiiSync_proofs --------------------------
(***************************************************************************)
(* Proofs about the TAXII page loop, for every feed, every number of       *)
(* overlapping processes, every bound and every sequence of failures.      *)
(***************************************************************************)
EXTENDS TaxiiSync, TLAPS

(* What an answer owes to the request it answers: the page is a prefix of  *)
(* what the request left out, its timestamp and its token come from it.    *)
PageSound(r) ==
  /\ answer[r].objs \subseteq 1..published
  /\ \A j \in answer[r].objs : \A i \in 1..j :
       i \in answer[r].objs \union Behind(local[r].after, next[r])
  /\ answer[r].newest = 0
       \/ \E j \in answer[r].objs : Modified[j] = answer[r].newest
  /\ answer[r].next = 0 \/ answer[r].next \in answer[r].objs
  /\ answer[r].upTo <= published
  /\ ~answer[r].more \/ answer[r].objs = {} =>
       1..answer[r].upTo \subseteq
         answer[r].objs \union Behind(local[r].after, next[r])

(* The run's copy of the cursor claims nothing the store lacks, its token  *)
(* is the copy's, and a page it holds is sound, committed once ingested.   *)
RunSound(r) ==
  /\ Behind(local[r].after, local[r].next) \subseteq stored
  /\ next[r] = local[r].next
  /\ pc[r] = "answered" /\ answer[r].kind = "page" => PageSound(r)
  /\ pc[r] = "ingested" => /\ PageSound(r)
                           /\ answer[r].objs \subseteq stored

IInv ==
  /\ TypeOK
  /\ stored \subseteq 1..published
  /\ CursorNeverAheadOfStore
  /\ \A r \in Runners : RunSound(r)

-----------------------------------------------------------------------------
LEMMA StartingType == Starting \in Cursors
  BY ConstantsAssumption DEF Starting, Cursors, Stamps, Tags, Statuses

LEMMA NoAnswerType ==
  ASSUME NEW kind \in {"none", "not_modified", "error"},
         NEW upTo \in 0..NumObjects
  PROVE  Bodiless(kind, upTo) \in Answers
<1>1. 0 \in Stamps /\ 0 \in 0..NumObjects /\ NoTag \in Tags
  BY ConstantsAssumption DEF Stamps, Tags
<1>2. QED
  BY <1>1 DEF Bodiless, Answers

LEMMA NoReportType ==
  /\ NoReport \in Reports
  /\ ErrReport \in Reports
  BY ConstantsAssumption DEF NoReport, ErrReport, Reports, Statuses

(* Ending a run leaves every local of every run well typed.                *)
LEMMA ForgetType ==
  ASSUME TypeOK, NEW r \in Runners, Forget(r)
  PROVE  /\ pc' \in [Runners -> {"idle", "head", "answered", "ingested"}]
         /\ local' \in [Runners -> Cursors]
         /\ next' \in [Runners -> 0..NumObjects]
         /\ tag' \in [Runners -> Tags]
         /\ pages' \in [Runners -> Nat]
         /\ answer' \in [Runners -> Answers]
         /\ cancelled' \in [Runners -> BOOLEAN]
<1>1. NoAnswer \in Answers /\ NoTag \in Tags
  BY NoAnswerType, ConstantsAssumption DEF NoAnswer, Tags
<1>2. QED
  BY <1>1, StartingType, ConstantsAssumption DEF TypeOK, Forget

LEMMA FaultType ==
  ASSUME TypeOK, Fault
  PROVE  faults' \in 0..MaxFaults
  BY ConstantsAssumption DEF TypeOK, Fault

(* Returning Ok keeps the store well typed when the cursor written is.     *)
LEMMA ReturnOkType ==
  ASSUME TypeOK, NEW r \in Runners, NEW c \in Cursors,
         NEW upTo \in 0..NumObjects,
         ReturnOk(r, c, upTo), UNCHANGED <<published, stored>>
  PROVE  TypeOK'
<1>1. cursor' \in Cursors
  BY DEF TypeOK, ReturnOk
<1>2. report' \in [Runners -> Reports]
  <2>1. [result |-> c.status, upTo |-> upTo] \in Reports
    BY DEF Reports, Cursors
  <2>2. QED
    BY <2>1, NoReportType DEF TypeOK, ReturnOk
<1>3. faults' \in 0..MaxFaults
  BY FaultType DEF ReturnOk, TypeOK
<1>4. Forget(r)
  BY DEF ReturnOk
<1>5. QED
  BY <1>1, <1>2, <1>3, <1>4, ForgetType DEF TypeOK

LEMMA ReturnErrType ==
  ASSUME TypeOK, NEW r \in Runners, NEW c \in Cursors,
         ReturnErr(r, c), UNCHANGED <<published, stored>>
  PROVE  TypeOK'
<1>1. cursor' \in Cursors
  BY DEF TypeOK, ReturnErr
<1>2. report' \in [Runners -> Reports]
  BY NoReportType DEF TypeOK, ReturnErr
<1>3. faults' \in 0..MaxFaults
  BY FaultType DEF ReturnErr, TypeOK
<1>4. Forget(r)
  BY DEF ReturnErr
<1>5. QED
  BY <1>1, <1>2, <1>3, <1>4, ForgetType DEF TypeOK

LEMMA EndedType ==
  ASSUME NEW c \in Cursors, NEW s \in Statuses
  PROVE  Ended(c, s) \in Cursors
  BY DEF Ended, Cursors

LEMMA EtagType ==
  ASSUME TypeOK, NEW objs \in SUBSET Objects, NEW more \in BOOLEAN
  PROVE  EtagOf(objs, more) \in Tags
<1>1. 1..published \in SUBSET Objects
  BY ConstantsAssumption DEF TypeOK, Objects
<1>2. CASE TagScope = "none"
  BY <1>2 DEF EtagOf, Tags
<1>3. CASE TagScope = "page"
  BY <1>3 DEF EtagOf, Tags
<1>4. CASE TagScope = "collection"
  BY <1>4, <1>1 DEF EtagOf, Tags
<1>5. QED
  BY <1>2, <1>3, <1>4, ConstantsAssumption

LEMMA ResponseType ==
  ASSUME TypeOK, NEW r \in Runners, NEW objs \in SUBSET Objects,
         NEW newest \in Stamps, NEW token \in 0..NumObjects,
         NEW more \in BOOLEAN
  PROVE  Response(r, objs, newest, token, more) \in Answers
<1>1. published \in 0..NumObjects
  BY DEF TypeOK
<1>2. Bodiless("not_modified", published) \in Answers
  BY <1>1, NoAnswerType
<1>3. [kind |-> "page", objs |-> objs, newest |-> newest, next |-> token,
       more |-> more, tag |-> EtagOf(objs, more), upTo |-> published]
        \in Answers
  BY <1>1, EtagType DEF Answers
<1>4. QED
  BY <1>2, <1>3 DEF Response

(* What a response is: a 304, or the page the server picked.               *)
LEMMA EligibleType ==
  ASSUME TypeOK, NEW r \in Runners
  PROVE  Eligible(local[r].after, SentToken(r)) \in SUBSET Objects
  BY ConstantsAssumption DEF Eligible, TypeOK, Objects

LEMMA FetchType ==
  ASSUME TypeOK, NEW r \in Runners, Fetch(r)
  PROVE  TypeOK'
<1>1. answer' \in [Runners -> Answers]
  <2>1. CASE \E objs \in SUBSET Eligible(local[r].after, SentToken(r)),
                newest \in Stamps, token \in 0..NumObjects, more \in BOOLEAN :
               answer' = [answer EXCEPT ![r] =
                            Response(r, objs, newest, token, more)]
    <3>1. PICK objs \in SUBSET Eligible(local[r].after, SentToken(r)),
               newest \in Stamps, token \in 0..NumObjects, more \in BOOLEAN :
            answer' = [answer EXCEPT ![r] =
                         Response(r, objs, newest, token, more)]
      BY <2>1
    <3>2. Response(r, objs, newest, token, more) \in Answers
      BY ResponseType, EligibleType
    <3>3. QED
      BY <3>1, <3>2 DEF TypeOK
  <2>2. CASE answer' = [answer EXCEPT ![r] = Bodiless("error", 0)]
    <3>1. Bodiless("error", 0) \in Answers
      BY NoAnswerType, ConstantsAssumption
    <3>2. QED
      BY <2>2, <3>1 DEF TypeOK
  <2>3. QED
    BY <2>1, <2>2 DEF Fetch, AnswerTo
<1>2. faults' \in 0..MaxFaults
  BY FaultType DEF Fetch, AnswerTo, TypeOK
<1>3. QED
  BY <1>1, <1>2 DEF TypeOK, Fetch, serverVars, storeVars

LEMMA AdvancedType ==
  ASSUME TypeOK, NEW r \in Runners
  PROVE  /\ TagAfter(r) \in Tags
         /\ Advanced(r) \in Cursors
<1>1. answer[r] \in Answers /\ local[r] \in Cursors
  BY DEF TypeOK
<1>2. TagAfter(r) \in Tags
  BY <1>1 DEF TagAfter, Answers, Cursors
<1>3. QED
  BY <1>1, <1>2, ConstantsAssumption DEF Advanced, Answers, Cursors, Statuses

LEMMA TypeStep == TypeOK /\ [Next]_vars => TypeOK'
<1> SUFFICES ASSUME TypeOK, [Next]_vars
             PROVE  TypeOK'
  OBVIOUS
<1>1. CASE UNCHANGED vars
  BY <1>1 DEF TypeOK, vars, serverVars, storeVars, runVars
<1>2. CASE Publish
  BY <1>2, ConstantsAssumption
     DEF Publish, TypeOK, storeVars, runVars
<1>3. ASSUME NEW r \in Runners,
             Start(r) \/ RunStep(r) \/ Cancel(r) \/ Crash(r)
      PROVE  TypeOK'
  <2> DEFINE partial == [after |-> local[r].after, next |-> next[r],
                         tag |-> local[r].tag, status |-> "partial"]
             emptied == [after |-> local[r].after, next |-> 0,
                         tag |-> TagAfter(r), status |-> "complete"]
  <2>a. local[r] \in Cursors /\ next[r] \in 0..NumObjects
          /\ answer[r] \in Answers
    BY DEF TypeOK
  <2>b. answer[r].upTo \in 0..NumObjects /\ 0 \in 0..NumObjects
    BY <2>a, ConstantsAssumption DEF Answers
  <2>c. \A st \in Statuses : Ended(local[r], st) \in Cursors
    BY <2>a, EndedType
  <2>d. partial \in Cursors /\ emptied \in Cursors
    BY <2>a, <2>b, AdvancedType DEF Cursors, Statuses
  <2>1. CASE Start(r)
    <3>1. NoTag \in Tags /\ cursor.tag \in Tags /\ cursor.next \in 0..NumObjects
      BY DEF TypeOK, Tags, Cursors
    <3>2. QED
      BY <2>1, <3>1, NoReportType
         DEF Start, TypeOK, serverVars, storeVars
  <2>2. CASE StopCancelled(r)
    <3>1. Ended(local[r], "partial") \in Cursors
      BY <2>c DEF Statuses
    <3>2. QED
      BY <2>2, <2>b, <3>1, ReturnOkType DEF StopCancelled, serverVars
  <2>3. CASE StopAtBound(r)
    BY <2>3, <2>b, <2>d, ReturnOkType DEF StopAtBound, serverVars
  <2>4. CASE Fetch(r)
    BY <2>4, FetchType
  <2>5. CASE OnNotModified(r)
    <3>1. Ended(local[r], "not_modified") \in Cursors
      BY <2>c DEF Statuses
    <3>2. QED
      BY <2>5, <2>b, <3>1, ReturnOkType DEF OnNotModified, serverVars
  <2>6. CASE OnFetchError(r)
    <3>1. Ended(local[r], "failed") \in Cursors
      BY <2>c DEF Statuses
    <3>2. QED
      BY <2>6, <3>1, ReturnErrType DEF OnFetchError, serverVars
  <2>7. CASE OnEmptyPage(r)
    BY <2>7, <2>b, <2>d, ReturnOkType DEF OnEmptyPage, serverVars
  <2>8. CASE IngestPage(r)
    <3>1. pages' \in [Runners -> Nat]
      BY <2>8, ConstantsAssumption DEF IngestPage, TypeOK
    <3>2. stored' \in SUBSET Objects
      BY <2>8 DEF IngestPage, TypeOK, Answers
    <3>3. QED
      BY <2>8, <3>1, <3>2 DEF IngestPage, TypeOK, serverVars
  <2>9. CASE IngestFails(r)
    <3>1. Ended(local[r], "failed") \in Cursors
      BY <2>c DEF Statuses
    <3>2. CASE ReturnErr(r, Ended(local[r], "failed"))
      BY <2>9, <3>1, <3>2, ReturnErrType DEF IngestFails, serverVars
    <3>3. CASE /\ Forget(r)
               /\ report' = [report EXCEPT ![r] = ErrReport]
               /\ Fault
               /\ cursor' \in {cursor, Ended(local[r], "failed")}
      BY <2>9, <3>1, <3>3, ForgetType, FaultType, NoReportType
         DEF IngestFails, serverVars, TypeOK
    <3>4. QED
      BY <2>9, <3>2, <3>3 DEF IngestFails
  <2>10. CASE AdvanceAndContinue(r)
    <3>1. NoAnswer \in Answers /\ NoTag \in Tags
      BY NoAnswerType, ConstantsAssumption DEF NoAnswer, Tags
    <3>2. QED
      BY <2>10, <2>a, <3>1, AdvancedType
         DEF AdvanceAndContinue, TypeOK, Answers, serverVars
  <2>11. CASE AdvanceAndReturn(r)
    BY <2>11, <2>b, AdvancedType, ReturnOkType
       DEF AdvanceAndReturn, serverVars
  <2>12. CASE AdvanceFails(r)
    BY <2>12, ForgetType, FaultType, NoReportType
       DEF AdvanceFails, TypeOK, serverVars, storeVars
  <2>13. CASE Cancel(r)
    BY <2>13, FaultType DEF Cancel, TypeOK, serverVars, storeVars
  <2>14. CASE Crash(r)
    BY <2>14, ForgetType, FaultType
       DEF Crash, TypeOK, serverVars, storeVars
  <2>15. QED
    BY <1>3, <2>1, <2>2, <2>3, <2>4, <2>5, <2>6, <2>7, <2>8, <2>9, <2>10,
       <2>11, <2>12, <2>13, <2>14 DEF RunStep
<1>4. QED
  BY <1>1, <1>2, <1>3 DEF Next

LEMMA TypeInit == Init => TypeOK
<1>1. NoAnswer \in Answers /\ NoTag \in Tags
  BY NoAnswerType, ConstantsAssumption DEF NoAnswer, Tags
<1>2. QED
  BY <1>1, StartingType, NoReportType, ConstantsAssumption DEF Init, TypeOK

(* Every value the loop, the cursor row and the report can hold is of the  *)
(* type the code gives it, however many processes run.                     *)
THEOREM TypeCorrect == Spec => []TypeOK
  BY TypeInit, TypeStep, PTL DEF Spec

-----------------------------------------------------------------------------
(* Another process's step, or the server's, leaves a run as sound as it    *)
(* was: the collection and the store only grow.                            *)
LEMMA Frame ==
  ASSUME TypeOK, TypeOK', NEW q \in Runners, RunSound(q),
         pc'[q] = pc[q], local'[q] = local[q], next'[q] = next[q],
         answer'[q] = answer[q], published <= published',
         stored \subseteq stored'
  PROVE  RunSound(q)'
<1>1. published \in Nat /\ published' \in Nat /\ answer[q].upTo \in Nat
  BY ConstantsAssumption DEF TypeOK, Answers
<1>2. PageSound(q) => PageSound(q)'
  <2> SUFFICES ASSUME PageSound(q) PROVE PageSound(q)'
    OBVIOUS
  <2>1. answer'[q].objs \subseteq 1..published'
    BY <1>1 DEF PageSound
  <2>2. answer'[q].upTo <= published'
    BY <1>1 DEF PageSound
  <2>3. QED
    BY <2>1, <2>2 DEF PageSound, Behind
<1>3. QED
  BY <1>2 DEF RunSound, Behind

(* A run that is over claims nothing.                                      *)
LEMMA Forgotten ==
  ASSUME TypeOK, NEW r \in Runners, Forget(r)
  PROVE  RunSound(r)'
<1>1. Behind(0, 0) = {}
  BY ConstantsAssumption DEF Behind, Objects, Stamps
<1>2. /\ pc'[r] = "idle" /\ local'[r] = Starting /\ next'[r] = 0
  BY DEF Forget, TypeOK
<1>3. Behind(local'[r].after, local'[r].next) = {}
  BY <1>1, <1>2 DEF Starting
<1>4. QED
  BY <1>2, <1>3 DEF RunSound, Starting, Behind

(* The heart of the argument.  The new high-water mark is the timestamp of *)
(* an object of the page; whatever was added by then is listed no later    *)
(* than that object, so it is in the page or was behind the old position.  *)
LEMMA AdvancedIsBehindStore ==
  ASSUME TypeOK, NoLateArrival, NEW r \in Runners, RunSound(r),
         pc[r] = "ingested"
  PROVE  Behind(Advanced(r).after, Advanced(r).next) \subseteq stored
<1>1. PageSound(r) /\ answer[r].objs \subseteq stored
        /\ Behind(local[r].after, next[r]) \subseteq stored
  BY DEF RunSound
<1>2. answer[r] \in Answers /\ local[r] \in Cursors
  BY DEF TypeOK
<1>3. answer[r].objs \subseteq Objects /\ Objects \subseteq Nat \ {0}
  BY <1>2 DEF Answers, Objects
<1>4. ASSUME NEW i \in Objects, NEW j \in answer[r].objs, i <= j
      PROVE  i \in stored
  <2>1. i \in 1..j
    BY <1>3, <1>4 DEF Objects
  <2>2. QED
    BY <1>1, <2>1 DEF PageSound
<1>5. ASSUME NEW i \in Objects, i <= Advanced(r).next
      PROVE  i \in stored
  <2>1. Advanced(r).next = 0 \/ Advanced(r).next \in answer[r].objs
    BY <1>1 DEF Advanced, PageSound
  <2>2. Advanced(r).next # 0
    BY <1>5 DEF Objects
  <2>3. QED
    BY <1>4, <1>5, <2>1, <2>2
<1>6. ASSUME NEW i \in Objects, Added[i] <= Advanced(r).after
      PROVE  i \in stored
  <2>1. CASE answer[r].newest = 0
    <3>1. Added[i] <= local[r].after
      BY <1>6, <2>1 DEF Advanced
    <3>2. QED
      BY <1>1, <3>1 DEF Behind
  <2>2. CASE answer[r].newest # 0
    <3>1. PICK j \in answer[r].objs : Modified[j] = answer[r].newest
      BY <1>1, <2>2 DEF PageSound
    <3>2. Added[i] <= Modified[j]
      BY <1>6, <2>2, <3>1 DEF Advanced
    <3>3. i <= j
      BY <1>3, <3>2 DEF NoLateArrival
    <3>4. QED
      BY <1>4, <3>3
  <2>3. QED
    BY <2>1, <2>2
<1>7. QED
  BY <1>5, <1>6 DEF Behind

(* A page a server may answer with is sound, and a 304 or an error owes    *)
(* nothing.                                                                *)
LEMMA FetchSound ==
  ASSUME TypeOK, TypeOK', NEW r \in Runners, RunSound(r), Fetch(r)
  PROVE  RunSound(r)'
<1> DEFINE E == Eligible(local[r].after, SentToken(r))
<1>1. /\ local' = local /\ next' = next /\ published' = published
      /\ stored' = stored
      /\ pc'[r] = "answered"
  BY DEF Fetch, TypeOK, serverVars, storeVars
<1>2. published \in Nat /\ published <= NumObjects
        /\ next[r] \in Nat /\ local[r].after \in Nat
  BY ConstantsAssumption DEF TypeOK, Cursors, Stamps
<1>3. ASSUME NEW i \in 1..published, i \notin E
      PROVE  i \in Behind(local[r].after, next[r])
  <2>1. i \in Objects
    BY <1>2, ConstantsAssumption DEF Objects
  <2>2. Added[i] \in Nat
    BY <2>1, ConstantsAssumption DEF Stamps
  <2>3. SentToken(r) = next[r] \/ SentToken(r) = 0
    BY DEF SentToken
  <2>4. QED
    BY <1>2, <1>3, <2>1, <2>2, <2>3 DEF Eligible, Behind
<1>4. ASSUME NEW objs \in SUBSET E, NEW newest \in Stamps,
             NEW token \in 0..NumObjects, NEW more \in BOOLEAN,
             IsPage(objs, E, more), IsNewestOf(newest, objs),
             IsTokenOf(token, objs, more),
             answer' = [answer EXCEPT ![r] =
                          Response(r, objs, newest, token, more)],
             answer'[r].kind = "page"
      PROVE  PageSound(r)'
  <2>1. answer'[r] = [kind |-> "page", objs |-> objs, newest |-> newest,
                      next |-> token, more |-> more,
                      tag |-> EtagOf(objs, more), upTo |-> published]
    BY <1>4 DEF TypeOK, Response, Bodiless
  <2>2. objs \subseteq 1..published
    BY DEF Eligible
  <2>3. ASSUME NEW j \in objs, NEW i \in 1..j
        PROVE  i \in objs \union Behind(local[r].after, next[r])
    <3>1. i \in 1..published
      BY <1>2, <2>2
    <3>2. CASE i \in E
      BY <1>4, <3>2, <2>2 DEF IsPage
    <3>3. QED
      BY <1>3, <3>1, <3>2
  <2>4. newest = 0 \/ \E j \in objs : Modified[j] = newest
    BY <1>4 DEF IsNewestOf
  <2>5. token = 0 \/ token \in objs
    BY <1>4 DEF IsTokenOf
  <2>6. ~more \/ objs = {} =>
          1..published \subseteq
            objs \union Behind(local[r].after, next[r])
    BY <1>3, <1>4 DEF IsPage
  <2>7. QED
    BY <1>1, <1>2, <2>1, <2>2, <2>3, <2>4, <2>5, <2>6 DEF PageSound, Behind
<1>5. answer'[r].kind = "page" => PageSound(r)'
  <2>1. CASE answer' = [answer EXCEPT ![r] = Bodiless("error", 0)]
    BY <2>1 DEF TypeOK, Bodiless
  <2>2. CASE \E objs \in SUBSET E, newest \in Stamps,
                token \in 0..NumObjects, more \in BOOLEAN :
               /\ IsPage(objs, E, more)
               /\ IsNewestOf(newest, objs)
               /\ IsTokenOf(token, objs, more)
               /\ answer' = [answer EXCEPT ![r] =
                               Response(r, objs, newest, token, more)]
    BY <1>4, <2>2
  <2>3. QED
    BY <2>1, <2>2 DEF Fetch, AnswerTo
<1>6. QED
  BY <1>1, <1>5 DEF RunSound, Behind

(* What the end of a run writes, and what it leaves.                       *)
LEMMA Over ==
  ASSUME TypeOK, TypeOK', NEW r \in Runners, Forget(r),
         UNCHANGED <<published, stored>>,
         \A q \in Runners : RunSound(q)
  PROVE  \A q \in Runners : RunSound(q)'
<1> SUFFICES ASSUME NEW q \in Runners PROVE RunSound(q)'
  OBVIOUS
<1>1. CASE q = r
  BY <1>1, Forgotten
<1>2. CASE q # r
  <2>1. /\ pc'[q] = pc[q] /\ local'[q] = local[q] /\ next'[q] = next[q]
        /\ answer'[q] = answer[q]
    BY <1>2 DEF Forget, TypeOK
  <2>2. published <= published'
    BY ConstantsAssumption DEF TypeOK
  <2>3. QED
    BY <2>1, <2>2, Frame
<1>3. QED
  BY <1>1, <1>2

LEMMA SafeStep ==
  ASSUME NoLateArrival, IInv, [Next]_vars
  PROVE  IInv'
<1>0. TypeOK /\ TypeOK' /\ \A q \in Runners : RunSound(q)
  BY TypeStep DEF IInv
<1>1. CASE UNCHANGED vars
  BY <1>1, <1>0
     DEF IInv, vars, serverVars, storeVars, runVars, RunSound, PageSound,
         Behind, CursorNeverAheadOfStore
<1>2. CASE Publish
  <2>1. published <= published'
    BY <1>0, <1>2 DEF Publish, TypeOK
  <2>2. \A q \in Runners : RunSound(q)'
    BY <1>0, <1>2, <2>1, Frame DEF Publish, storeVars, runVars
  <2>3. stored' \subseteq 1..published'
    BY <1>0, <1>2 DEF IInv, Publish, storeVars, TypeOK
  <2>4. QED
    BY <1>0, <1>2, <2>2, <2>3
       DEF IInv, Publish, storeVars, CursorNeverAheadOfStore, Behind
<1>3. ASSUME NEW r \in Runners,
             Start(r) \/ RunStep(r) \/ Cancel(r) \/ Crash(r)
      PROVE  IInv'
  <2> DEFINE partial == [after |-> local[r].after, next |-> next[r],
                         tag |-> local[r].tag, status |-> "partial"]
             emptied == [after |-> local[r].after, next |-> 0,
                         tag |-> TagAfter(r), status |-> "complete"]
             Safe(c) == Behind(c.after, c.next) \subseteq stored
  <2>a. RunSound(r)
    BY <1>0
  <2>b. Safe(cursor)
    BY DEF IInv, CursorNeverAheadOfStore
  <2>c. \A st : Safe(Ended(local[r], st))
    BY <2>a DEF RunSound, Ended
  <2>d. Safe(partial)
    BY <2>a DEF RunSound
  <2>e. Safe(emptied)
    <3>1. local[r].next \in Nat
      BY <1>0 DEF TypeOK, Cursors
    <3>2. Behind(local[r].after, 0) \subseteq
            Behind(local[r].after, local[r].next)
      BY <3>1 DEF Behind, Objects
    <3>3. QED
      BY <2>a, <3>2 DEF RunSound
  <2>s. stored \subseteq 1..published
    BY DEF IInv
  <2>f. pc[r] = "ingested" => Safe(Advanced(r))
    BY <1>0, <2>a, AdvancedIsBehindStore
  <2>g. ASSUME Forget(r), UNCHANGED <<published, stored>>, Safe(cursor')
        PROVE  IInv'
    <3>1. \A q \in Runners : RunSound(q)'
      BY <1>0, <2>g, Over
    <3>2. QED
      BY <1>0, <2>g, <3>1 DEF IInv, CursorNeverAheadOfStore, Behind
  <2>h. ASSUME UNCHANGED <<published, cursor>>, stored \subseteq stored',
               stored' \subseteq 1..published,
               RunSound(r)',
               \A q \in Runners \ {r} :
                 /\ pc'[q] = pc[q] /\ local'[q] = local[q]
                 /\ next'[q] = next[q] /\ answer'[q] = answer[q]
        PROVE  IInv'
    <3>1. published <= published'
      BY <1>0, <2>h DEF TypeOK
    <3>2. \A q \in Runners \ {r} : RunSound(q)'
      BY <1>0, <2>h, <3>1, Frame
    <3>3. QED
      BY <1>0, <2>b, <2>h, <3>2 DEF IInv, CursorNeverAheadOfStore, Behind
  <2>1. CASE Start(r)
    <3>1. /\ pc'[r] = "head" /\ local'[r] = cursor
          /\ next'[r] = cursor.next
      BY <1>0, <2>1 DEF Start, TypeOK
    <3>2. RunSound(r)'
      BY <2>1, <2>b, <3>1 DEF RunSound, Start, storeVars, Behind
    <3>3. QED
      BY <1>0, <2>1, <2>h, <2>s, <3>2
         DEF Start, serverVars, storeVars, TypeOK
  <2>2. CASE StopCancelled(r)
    BY <2>2, <2>b, <2>c, <2>g DEF StopCancelled, ReturnOk, serverVars
  <2>3. CASE StopAtBound(r)
    BY <2>3, <2>b, <2>d, <2>g DEF StopAtBound, ReturnOk, serverVars
  <2>4. CASE Fetch(r)
    <3>1. RunSound(r)'
      BY <1>0, <2>4, <2>a, FetchSound
    <3>2. \A q \in Runners \ {r} : answer'[q] = answer[q]
      BY <1>0, <2>4 DEF Fetch, AnswerTo, TypeOK
    <3>3. QED
      BY <1>0, <2>4, <2>h, <2>s, <3>1, <3>2
         DEF Fetch, serverVars, storeVars, TypeOK
  <2>5. CASE OnNotModified(r)
    BY <2>5, <2>b, <2>c, <2>g DEF OnNotModified, ReturnOk, serverVars
  <2>6. CASE OnFetchError(r)
    BY <2>6, <2>b, <2>c, <2>g DEF OnFetchError, ReturnErr, serverVars
  <2>7. CASE OnEmptyPage(r)
    BY <2>7, <2>b, <2>e, <2>g DEF OnEmptyPage, ReturnOk, serverVars
  <2>8. CASE IngestPage(r)
    <3>1. PageSound(r)
      BY <2>8, <2>a DEF RunSound, IngestPage
    <3>2. pc'[r] = "ingested" /\ answer' = answer /\ local' = local
            /\ next' = next /\ published' = published
            /\ stored' = stored \union answer[r].objs
      BY <1>0, <2>8 DEF IngestPage, TypeOK, serverVars
    <3>3. PageSound(r)'
      BY <3>1, <3>2 DEF PageSound, Behind
    <3>4. RunSound(r)'
      BY <2>a, <3>2, <3>3 DEF RunSound, Behind
    <3>5. stored' \subseteq 1..published
      BY <2>s, <3>1, <3>2 DEF PageSound
    <3>6. QED
      BY <1>0, <2>8, <2>h, <3>2, <3>4, <3>5 DEF IngestPage, TypeOK
  <2>9. CASE IngestFails(r)
    BY <2>9, <2>b, <2>c, <2>g DEF IngestFails, ReturnErr, serverVars
  <2>10. CASE AdvanceAndContinue(r)
    <3>1. Safe(Advanced(r))
      BY <2>10, <2>f DEF AdvanceAndContinue
    <3>2. /\ pc'[r] = "head" /\ local'[r] = Advanced(r)
          /\ next'[r] = Advanced(r).next
          /\ UNCHANGED <<published, stored>> /\ cursor' = Advanced(r)
      BY <1>0, <2>10
         DEF AdvanceAndContinue, Advanced, TypeOK, serverVars
    <3>3. RunSound(r)'
      BY <3>1, <3>2 DEF RunSound, Behind
    <3>4. ASSUME NEW q \in Runners \ {r}
          PROVE  RunSound(q)'
      <4>1. /\ pc'[q] = pc[q] /\ local'[q] = local[q]
            /\ next'[q] = next[q] /\ answer'[q] = answer[q]
        BY <1>0, <2>10 DEF AdvanceAndContinue, TypeOK
      <4>2. published <= published'
        BY <1>0, <3>2 DEF TypeOK
      <4>3. QED
        BY <1>0, <3>2, <4>1, <4>2, Frame
    <3>5. QED
      BY <1>0, <3>1, <3>2, <3>3, <3>4
         DEF IInv, CursorNeverAheadOfStore, Behind
  <2>11. CASE AdvanceAndReturn(r)
    BY <2>11, <2>b, <2>f, <2>g DEF AdvanceAndReturn, ReturnOk, serverVars
  <2>12. CASE AdvanceFails(r)
    BY <2>12, <2>b, <2>g DEF AdvanceFails, serverVars, storeVars
  <2>13. CASE Cancel(r)
    <3>1. RunSound(r)'
      BY <2>13, <2>a
         DEF Cancel, RunSound, PageSound, Behind, serverVars, storeVars
    <3>2. QED
      BY <2>13, <2>h, <2>s, <3>1 DEF Cancel, serverVars, storeVars
  <2>14. CASE Crash(r)
    BY <2>14, <2>b, <2>g DEF Crash, serverVars, storeVars
  <2>15. QED
    BY <1>3, <2>1, <2>2, <2>3, <2>4, <2>5, <2>6, <2>7, <2>8, <2>9, <2>10,
       <2>11, <2>12, <2>13, <2>14 DEF RunStep
<1>4. QED
  BY <1>1, <1>2, <1>3 DEF Next

LEMMA SafeInit == Init => IInv
<1> SUFFICES ASSUME Init PROVE IInv
  OBVIOUS
<1>1. Behind(0, 0) = {}
  BY ConstantsAssumption DEF Behind, Objects, Stamps
<1>2. \A r \in Runners : RunSound(r)
  BY <1>1 DEF Init, RunSound, Starting
<1>3. QED
  BY <1>1, <1>2, TypeInit DEF Init, IInv, CursorNeverAheadOfStore, Starting

(* sync.rs: whatever processes overlap on one cursor row, fail or die, the *)
(* durable cursor never claims an object the store lacks, for every feed   *)
(* that lists nothing behind a timestamp it has already handed out.        *)
THEOREM CursorSafe == NoLateArrival => (Spec => []CursorNeverAheadOfStore)
<1> SUFFICES ASSUME NoLateArrival
             PROVE  Spec => []CursorNeverAheadOfStore
  OBVIOUS
<1>1. IInv /\ [Next]_vars => IInv'
  BY SafeStep
<1>2. IInv => CursorNeverAheadOfStore
  BY DEF IInv
<1>3. QED
  BY SafeInit, <1>1, <1>2, PTL DEF Spec

-----------------------------------------------------------------------------
(* A 304 is the truth: all the server held then is in the store.           *)
UnmodifiedIsStored ==
  \A r \in Runners :
    pc[r] = "answered" /\ answer[r].kind = "not_modified" =>
      1..answer[r].upTo \subseteq stored

(* Without conditional requests, or tags, no run ever sees a 304.          *)
Unconditional ==
  /\ \A r \in Runners : tag[r] = NoTag
  /\ \A r \in Runners :
       pc[r] = "answered" => answer[r].kind # "not_modified"
  /\ TagScope = "none" =>
       /\ cursor.tag = NoTag
       /\ \A r \in Runners : local[r].tag = NoTag /\ answer[r].tag = NoTag

LEMMA UnconditionalStep ==
  ASSUME ~UseEtag \/ TagScope = "none", TypeOK, Unconditional, [Next]_vars
  PROVE  Unconditional'
<1> USE DEF Unconditional
<1>1. CASE UNCHANGED vars
  BY <1>1 DEF vars, runVars, storeVars
<1>2. CASE Publish
  BY <1>2 DEF Publish, runVars, storeVars
<1>3. ASSUME NEW r \in Runners,
             Start(r) \/ RunStep(r) \/ Cancel(r) \/ Crash(r)
      PROVE  Unconditional'
  <2>a. TagScope = "none" => local[r].tag = NoTag /\ TagAfter(r) = NoTag
    BY DEF TagAfter
  <2>1. ASSUME Forget(r), TagScope = "none" => cursor'.tag = NoTag
        PROVE  Unconditional'
    BY <2>1 DEF Forget, TypeOK, Starting, NoAnswer, Bodiless
  <2>2. CASE Start(r)
    BY <2>2 DEF Start, TypeOK, storeVars
  <2>3. CASE Fetch(r)
    <3>1. /\ tag' = tag /\ pc' = [pc EXCEPT ![r] = "answered"]
          /\ local' = local /\ cursor' = cursor
      BY <2>3 DEF Fetch, storeVars
    <3>2. /\ answer'[r].kind # "not_modified"
          /\ TagScope = "none" => answer'[r].tag = NoTag
          /\ \A q \in Runners \ {r} : answer'[q] = answer[q]
      BY <2>3
         DEF Fetch, AnswerTo, Response, Bodiless, EtagOf, TypeOK
    <3>3. QED
      BY <3>1, <3>2 DEF TypeOK
  <2>4. CASE IngestPage(r)
    BY <2>4 DEF IngestPage, TypeOK
  <2>5. CASE AdvanceAndContinue(r)
    BY <2>5, <2>a
       DEF AdvanceAndContinue, Advanced, TypeOK, NoAnswer, Bodiless
  <2>6. CASE Cancel(r)
    BY <2>6 DEF Cancel, storeVars
  <2>7. CASE StopCancelled(r) \/ StopAtBound(r) \/ OnNotModified(r)
               \/ OnFetchError(r) \/ OnEmptyPage(r) \/ IngestFails(r)
               \/ AdvanceAndReturn(r) \/ AdvanceFails(r) \/ Crash(r)
    <3>1. Forget(r)
      BY <2>7 DEF StopCancelled, StopAtBound, OnNotModified, OnFetchError,
           OnEmptyPage, IngestFails, AdvanceAndReturn, AdvanceFails, Crash,
           ReturnOk, ReturnErr
    <3>2. TagScope = "none" => cursor'.tag = NoTag
      BY <2>7, <2>a DEF StopCancelled, StopAtBound, OnNotModified,
           OnFetchError, OnEmptyPage, IngestFails, AdvanceAndReturn,
           AdvanceFails, Crash, ReturnOk, ReturnErr, Ended, Advanced,
           storeVars
    <3>3. QED
      BY <2>1, <3>1, <3>2
  <2>8. QED
    BY <1>3, <2>2, <2>3, <2>4, <2>5, <2>6, <2>7 DEF RunStep
<1>4. QED
  BY <1>1, <1>2, <1>3 DEF Next

(* Where a tag is of a response, a cursor's tag is of a page whose objects *)
(* are in the store, and if that page promised more the cursor has passed  *)
(* one of its objects: the server cannot give the same answer again.       *)
TagTold(after, token, t) ==
  t # NoTag =>
    /\ t.objs \subseteq stored
    /\ t.more /\ t.objs # {} => t.objs \cap Behind(after, token) # {}

Tagged(r) ==
  /\ TagTold(local[r].after, local[r].next, local[r].tag)
  /\ tag[r] \in {NoTag, local[r].tag}
  /\ (pc[r] = "answered" /\ answer[r].kind = "page") \/ pc[r] = "ingested" =>
       /\ answer[r].tag = [objs |-> answer[r].objs, more |-> answer[r].more]
       /\ answer[r].more /\ answer[r].objs # {} =>
            answer[r].next \in answer[r].objs
  /\ pc[r] = "answered" /\ answer[r].kind = "not_modified" =>
       1..answer[r].upTo \subseteq stored

TagsHonest ==
  /\ TagTold(cursor.after, cursor.next, cursor.tag)
  /\ \A r \in Runners : Tagged(r)

LEMMA TagFetch ==
  ASSUME TagScope = "page", Version = "V21", TypeOK, NEW r \in Runners,
         RunSound(r), Tagged(r), Fetch(r)
  PROVE  Tagged(r)'
<1> DEFINE E == Eligible(local[r].after, SentToken(r))
<1>1. /\ local' = local /\ next' = next /\ published' = published
      /\ stored' = stored /\ tag' = tag /\ pc'[r] = "answered"
      /\ SentToken(r) = next[r] /\ next[r] = local[r].next
  BY DEF Fetch, TypeOK, serverVars, storeVars, SentToken, RunSound
<1>2. published \in Nat /\ published <= NumObjects
        /\ next[r] \in Nat /\ local[r].after \in Nat
  BY ConstantsAssumption DEF TypeOK, Cursors, Stamps
<1>3. /\ \A i \in 1..published : i \notin E => i \in stored
      /\ \A i \in E : i \notin Behind(local[r].after, local[r].next)
  <2>1. ASSUME NEW i \in 1..published
        PROVE  i \in Objects /\ Added[i] \in Nat
    BY <1>2, ConstantsAssumption DEF Objects, Stamps
  <2>2. Behind(local[r].after, next[r]) \subseteq stored
    BY DEF RunSound
  <2>3. QED
    BY <1>1, <1>2, <2>1, <2>2 DEF Eligible, Behind
<1>4. ASSUME NEW objs \in SUBSET E, NEW newest \in Stamps,
             NEW token \in 0..NumObjects, NEW more \in BOOLEAN,
             IsPage(objs, E, more), IsTokenOf(token, objs, more),
             answer' = [answer EXCEPT ![r] =
                          Response(r, objs, newest, token, more)]
      PROVE  Tagged(r)'
  <2> DEFINE etag == [objs |-> objs, more |-> more]
  <2>1. etag # NoTag /\ EtagOf(objs, more) = etag
    <3>1. objs \in SUBSET Objects
      BY <1>2, ConstantsAssumption DEF Eligible, Objects
    <3>2. QED
      BY <3>1, NoTagAssumption DEF EtagOf
  <2>2. CASE tag[r] # NoTag /\ tag[r] = etag
    <3>1. answer'[r] = Bodiless("not_modified", published)
      BY <1>4, <2>1, <2>2 DEF Response, TypeOK
    <3>2. local[r].tag = etag
      BY <2>2 DEF Tagged
    <3>3. objs \subseteq stored /\ (objs = {} \/ ~more)
      BY <1>3, <2>1, <3>2 DEF Tagged, TagTold
    <3>4. objs = E
      BY <1>4, <3>3 DEF IsPage
    <3>5. 1..published \subseteq stored
      BY <1>3, <3>3, <3>4
    <3>6. QED
      BY <1>1, <3>1, <3>5 DEF Tagged, TagTold, Bodiless
  <2>3. CASE ~(tag[r] # NoTag /\ tag[r] = etag)
    <3>1. answer'[r] = [kind |-> "page", objs |-> objs, newest |-> newest,
                        next |-> token, more |-> more, tag |-> etag,
                        upTo |-> published]
      BY <1>4, <2>1, <2>3 DEF Response, TypeOK
    <3>2. more /\ objs # {} => token \in objs
      BY <1>4 DEF IsTokenOf
    <3>3. QED
      BY <1>1, <3>1, <3>2 DEF Tagged, TagTold
  <2>4. QED
    BY <2>2, <2>3
<1>5. CASE answer' = [answer EXCEPT ![r] = Bodiless("error", 0)]
  BY <1>1, <1>5 DEF TypeOK, Bodiless, Tagged, TagTold
<1>6. QED
  BY <1>4, <1>5 DEF Fetch, AnswerTo

LEMMA TagStep ==
  ASSUME TagScope = "page", Version = "V21", IInv, TagsHonest, [Next]_vars
  PROVE  TagsHonest'
<1>0. TypeOK /\ \A q \in Runners : RunSound(q) /\ Tagged(q)
  BY DEF IInv, TagsHonest
<1>a. TagTold(cursor.after, cursor.next, cursor.tag)
  BY DEF TagsHonest
<1>1. CASE UNCHANGED vars
  BY <1>1 DEF TagsHonest, Tagged, TagTold, vars, runVars, storeVars
<1>2. CASE Publish
  BY <1>2 DEF TagsHonest, Tagged, TagTold, Publish, runVars, storeVars
<1>3. ASSUME NEW r \in Runners,
             Start(r) \/ RunStep(r) \/ Cancel(r) \/ Crash(r)
      PROVE  TagsHonest'
  <2> DEFINE Told(c) == TagTold(c.after, c.next, c.tag)
  <2>a. ASSUME stored \subseteq stored', Told(cursor'), Tagged(r)',
               \A q \in Runners \ {r} :
                 /\ pc'[q] = pc[q] /\ local'[q] = local[q]
                 /\ tag'[q] = tag[q] /\ answer'[q] = answer[q]
        PROVE  TagsHonest'
    <3>1. TagTold(cursor.after, cursor.next, cursor.tag)'
      BY <2>a DEF TagTold
    <3>2. ASSUME NEW q \in Runners \ {r}
          PROVE  Tagged(q)'
      BY <1>0, <2>a, <3>2 DEF Tagged, TagTold
    <3>3. QED
      BY <2>a, <3>1, <3>2 DEF TagsHonest
  <2>b. ASSUME Forget(r), stored' = stored, Told(cursor')
        PROVE  TagsHonest'
    <3>1. Tagged(r)'
      BY <1>0, <2>b DEF Forget, TypeOK, Tagged, TagTold, Starting
    <3>2. \A q \in Runners \ {r} :
            /\ pc'[q] = pc[q] /\ local'[q] = local[q]
            /\ tag'[q] = tag[q] /\ answer'[q] = answer[q]
      BY <1>0, <2>b DEF Forget, TypeOK
    <3>3. QED
      BY <2>a, <2>b, <3>1, <3>2
  <2>c. Tagged(r) /\ RunSound(r) /\ answer[r] \in Answers
    BY <1>0 DEF TypeOK
  <2>d. \A st : Told(Ended(local[r], st))
    BY <2>c DEF Ended, Tagged
  <2>e. \A st : Told([after |-> local[r].after, next |-> next[r],
                      tag |-> local[r].tag, status |-> st])
    BY <2>c DEF Tagged, RunSound
  <2>f. ASSUME \/ pc[r] = "answered" /\ answer[r].kind = "page"
               \/ pc[r] = "ingested"
        PROVE  TagAfter(r) = [objs |-> answer[r].objs, more |-> answer[r].more]
    <3>1. answer[r].tag = [objs |-> answer[r].objs, more |-> answer[r].more]
      BY <2>c, <2>f DEF Tagged
    <3>2. answer[r].tag # NoTag
      BY <2>c, <3>1, NoTagAssumption DEF Answers
    <3>3. QED
      BY <3>1, <3>2 DEF TagAfter
  <2>g. ASSUME pc[r] = "ingested"
        PROVE  Told(Advanced(r))
    <3>1. /\ TagAfter(r) = [objs |-> answer[r].objs, more |-> answer[r].more]
          /\ answer[r].objs \subseteq stored
      BY <2>c, <2>f, <2>g DEF RunSound
    <3>2. ASSUME answer[r].more, answer[r].objs # {}
          PROVE  answer[r].objs \cap
                   Behind(Advanced(r).after, Advanced(r).next) # {}
      <4>1. answer[r].next \in answer[r].objs
        BY <2>c, <2>g, <3>2 DEF Tagged
      <4>2. answer[r].next \in Objects /\ answer[r].next <= answer[r].next
        BY <2>c, <4>1 DEF Answers, Objects
      <4>3. QED
        BY <3>2, <4>1, <4>2 DEF Behind, Advanced
    <3>3. QED
      BY <3>1, <3>2 DEF TagTold, Advanced
  <2>1. CASE Start(r)
    <3>1. /\ pc'[r] = "head" /\ local'[r] = cursor /\ stored' = stored
          /\ cursor' = cursor /\ tag'[r] \in {NoTag, cursor.tag}
          /\ \A q \in Runners \ {r} :
               /\ pc'[q] = pc[q] /\ local'[q] = local[q]
               /\ tag'[q] = tag[q] /\ answer'[q] = answer[q]
      BY <1>0, <2>1 DEF Start, TypeOK, storeVars
    <3>2. Tagged(r)'
      BY <1>a, <3>1 DEF Tagged, TagTold
    <3>3. QED
      BY <1>a, <2>a, <3>1, <3>2
  <2>2. CASE Fetch(r)
    <3>1. Tagged(r)'
      BY <1>0, <2>2, TagFetch
    <3>2. /\ stored' = stored /\ cursor' = cursor
          /\ \A q \in Runners \ {r} :
               /\ pc'[q] = pc[q] /\ local'[q] = local[q]
               /\ tag'[q] = tag[q] /\ answer'[q] = answer[q]
      BY <1>0, <2>2 DEF Fetch, AnswerTo, TypeOK, storeVars
    <3>3. QED
      BY <1>a, <2>a, <3>1, <3>2
  <2>3. CASE IngestPage(r)
    <3>1. /\ pc' = [pc EXCEPT ![r] = "ingested"] /\ local' = local
          /\ tag' = tag /\ answer' = answer /\ cursor' = cursor
          /\ stored \subseteq stored'
          /\ pc[r] = "answered" /\ answer[r].kind = "page"
      BY <2>3 DEF IngestPage
    <3>2. pc'[r] = "ingested" /\ \A q \in Runners \ {r} : pc'[q] = pc[q]
      BY <1>0, <3>1 DEF TypeOK
    <3>3. Tagged(r)'
      BY <2>c, <3>1, <3>2 DEF Tagged, TagTold
    <3>4. QED
      BY <1>a, <2>a, <3>1, <3>2, <3>3
  <2>4. CASE AdvanceAndContinue(r)
    <3>1. /\ pc'[r] = "head" /\ local'[r] = Advanced(r) /\ tag'[r] = NoTag
          /\ stored' = stored /\ cursor' = Advanced(r)
          /\ \A q \in Runners \ {r} :
               /\ pc'[q] = pc[q] /\ local'[q] = local[q]
               /\ tag'[q] = tag[q] /\ answer'[q] = answer[q]
      BY <1>0, <2>4 DEF AdvanceAndContinue, TypeOK
    <3>2. Told(Advanced(r))
      BY <2>4, <2>g DEF AdvanceAndContinue
    <3>3. Tagged(r)'
      BY <3>1, <3>2 DEF Tagged, TagTold
    <3>4. QED
      BY <2>a, <3>1, <3>2, <3>3
  <2>5. CASE Cancel(r)
    BY <2>5 DEF Cancel, TagsHonest, Tagged, TagTold, storeVars
  <2>6. CASE StopCancelled(r)
    BY <2>6, <1>a, <2>b, <2>d DEF StopCancelled, ReturnOk
  <2>7. CASE StopAtBound(r)
    BY <2>7, <1>a, <2>b, <2>e DEF StopAtBound, ReturnOk
  <2>8. CASE OnNotModified(r)
    BY <2>8, <1>a, <2>b, <2>d DEF OnNotModified, ReturnOk
  <2>9. CASE OnFetchError(r) \/ IngestFails(r)
    BY <2>9, <1>a, <2>b, <2>d DEF OnFetchError, IngestFails, ReturnErr
  <2>10. CASE OnEmptyPage(r)
    <3>1. TagAfter(r).objs = {} /\ {} \subseteq stored
      BY <2>10, <2>f DEF OnEmptyPage
    <3>2. \A st : Told([after |-> local[r].after, next |-> 0,
                        tag |-> TagAfter(r), status |-> st])
      BY <3>1 DEF TagTold
    <3>3. QED
      BY <2>10, <1>a, <2>b, <3>2 DEF OnEmptyPage, ReturnOk
  <2>11. CASE AdvanceAndReturn(r)
    BY <2>11, <1>a, <2>b, <2>g DEF AdvanceAndReturn, ReturnOk
  <2>12. CASE AdvanceFails(r) \/ Crash(r)
    BY <2>12, <1>a, <2>b DEF AdvanceFails, Crash, storeVars
  <2>13. QED
    BY <1>3, <2>1, <2>2, <2>3, <2>4, <2>5, <2>6, <2>7, <2>8, <2>9, <2>10,
       <2>11, <2>12 DEF RunStep
<1>4. QED
  BY <1>1, <1>2, <1>3 DEF Next

(* A complete report covers what the server held at the last answer.       *)
LEMMA CoverStep ==
  ASSUME IInv, UnmodifiedIsStored, CompleteCoversFeed, [Next]_vars
  PROVE  CompleteCoversFeed'
<1>0. TypeOK /\ \A q \in Runners : RunSound(q)
  BY DEF IInv
<1>1. CASE UNCHANGED vars
  BY <1>1 DEF CompleteCoversFeed, vars, runVars, storeVars
<1>2. CASE Publish
  BY <1>2 DEF CompleteCoversFeed, Publish, runVars, storeVars
<1>3. ASSUME NEW r \in Runners,
             Start(r) \/ RunStep(r) \/ Cancel(r) \/ Crash(r)
      PROVE  CompleteCoversFeed'
  <2>a. ASSUME stored \subseteq stored',
               \A q \in Runners \ {r} : report'[q] = report[q],
               report'[r].result \in {"complete", "not_modified"} =>
                 1..report'[r].upTo \subseteq stored'
        PROVE  CompleteCoversFeed'
    BY <2>a DEF CompleteCoversFeed
  <2>b. ASSUME NEW c, NEW upTo, ReturnOk(r, c, upTo),
               stored' = stored,
               c.status \in {"complete", "not_modified"} =>
                 1..upTo \subseteq stored
        PROVE  CompleteCoversFeed'
    <3>1. \A q \in Runners \ {r} : report'[q] = report[q]
      BY <1>0, <2>b DEF ReturnOk, TypeOK
    <3>2. report'[r] \in {[result |-> c.status, upTo |-> upTo], ErrReport}
      BY <1>0, <2>b DEF ReturnOk, TypeOK
    <3>3. QED
      BY <2>a, <2>b, <3>1, <3>2 DEF ErrReport
  <2>c. ASSUME stored' = stored,
               report' = [report EXCEPT ![r] = ErrReport]
        PROVE  CompleteCoversFeed'
    BY <1>0, <2>a, <2>c DEF TypeOK, ErrReport
  <2>1. CASE Start(r)
    BY <1>0, <2>1, <2>a DEF Start, TypeOK, NoReport, storeVars
  <2>2. CASE StopCancelled(r)
    BY <2>2, <2>b DEF StopCancelled, Ended
  <2>3. CASE StopAtBound(r)
    BY <2>3, <2>b DEF StopAtBound
  <2>4. CASE OnEmptyPage(r)
    <3>1. 1..answer[r].upTo \subseteq stored
      BY <1>0, <2>4 DEF OnEmptyPage, RunSound, PageSound
    <3>2. QED
      BY <2>4, <2>b, <3>1 DEF OnEmptyPage
  <2>5. CASE AdvanceAndReturn(r)
    <3>1. 1..answer[r].upTo \subseteq stored
      BY <1>0, <2>5 DEF AdvanceAndReturn, RunSound, PageSound
    <3>2. QED
      BY <2>5, <2>b, <3>1 DEF AdvanceAndReturn
  <2>6. CASE OnNotModified(r)
    BY <2>6, <2>b DEF OnNotModified, UnmodifiedIsStored
  <2>7. CASE OnFetchError(r) \/ IngestFails(r) \/ AdvanceFails(r)
    BY <2>7, <2>c
       DEF OnFetchError, IngestFails, AdvanceFails, ReturnErr, storeVars
  <2>8. CASE Fetch(r) \/ IngestPage(r) \/ AdvanceAndContinue(r)
               \/ Cancel(r) \/ Crash(r)
    BY <2>8 DEF CompleteCoversFeed, Fetch, IngestPage, AdvanceAndContinue,
                Cancel, Crash, storeVars
  <2>9. QED
    BY <1>3, <2>1, <2>2, <2>3, <2>4, <2>5, <2>6, <2>7, <2>8 DEF RunStep
<1>4. QED
  BY <1>1, <1>2, <1>3 DEF Next

(* The tags that may be trusted: none are sent, none are given, or they    *)
(* are of the response, from a server of 2.1.                              *)
TagsTrusted ==
  UseEtag /\ TagScope # "none" => TagScope = "page" /\ Version = "V21"

(* SyncReport::is_complete: a run that reports Complete or NotModified has *)
(* left nothing the server held at its last answer out of the store,       *)
(* conditional requests (the 304s they may be answered with) included.     *)
THEOREM CompletenessSafe ==
  NoLateArrival /\ TagsTrusted => (Spec => []CompleteCoversFeed)
<1> SUFFICES ASSUME NoLateArrival,
                    \/ ~UseEtag \/ TagScope = "none"
                    \/ TagScope = "page" /\ Version = "V21"
             PROVE  Spec => []CompleteCoversFeed
  BY DEF TagsTrusted
<1>1. CASE ~UseEtag \/ TagScope = "none"
  <2> DEFINE Inv == IInv /\ Unconditional /\ CompleteCoversFeed
  <2>1. Init => Inv
    BY SafeInit DEF Init, Unconditional, CompleteCoversFeed, NoReport,
                    Starting, NoAnswer, Bodiless
  <2>2. Inv /\ [Next]_vars => Inv'
    <3>1. Unconditional => UnmodifiedIsStored
      BY DEF Unconditional, UnmodifiedIsStored
    <3>2. QED
      BY <1>1, <3>1, SafeStep, UnconditionalStep, CoverStep DEF IInv
  <2>3. Inv => CompleteCoversFeed
    OBVIOUS
  <2>4. QED
    BY <2>1, <2>2, <2>3, PTL DEF Spec
<1>2. CASE TagScope = "page" /\ Version = "V21"
  <2> DEFINE Inv == IInv /\ TagsHonest /\ CompleteCoversFeed
  <2>1. Init => Inv
    <3>1. Init => CompleteCoversFeed
      BY DEF Init, CompleteCoversFeed, NoReport
    <3>2. Init => TagsHonest
      BY DEF Init, TagsHonest, Tagged, TagTold, Starting
    <3>3. QED
      BY SafeInit, <3>1, <3>2
  <2>2. Inv /\ [Next]_vars => Inv'
    <3>1. TagsHonest => UnmodifiedIsStored
      BY DEF TagsHonest, Tagged, UnmodifiedIsStored
    <3>2. QED
      BY <1>2, <3>1, SafeStep, TagStep, CoverStep
  <2>3. Inv => CompleteCoversFeed
    OBVIOUS
  <2>4. QED
    BY <2>1, <2>2, <2>3, PTL DEF Spec
<1>3. QED
  BY <1>1, <1>2

-----------------------------------------------------------------------------
(* Every step of the page loop is a step of the incremental copy, or none  *)
(* at all.                                                                 *)
LEMMA CopyStep ==
  ASSUME IInv, IInv', [Next]_vars
  PROVE  [Copy!Next]_(Copy!copyVars)
<1>0. /\ TypeOK /\ TypeOK'
      /\ stored \subseteq 1..published
      /\ Behind(cursor.after, cursor.next) \subseteq stored
      /\ Behind(cursor'.after, cursor'.next) \subseteq stored'
  BY DEF IInv, CursorNeverAheadOfStore, Behind
<1>1. ASSUME UNCHANGED <<published, stored, cursor>>
      PROVE  UNCHANGED Copy!copyVars
  BY <1>1 DEF Copy!copyVars, Behind
<1>2. ASSUME UNCHANGED <<published, stored>>
      PROVE  [Copy!Next]_(Copy!copyVars)
  <2>1. Copy!Claim(Behind(cursor'.after, cursor'.next))
    BY <1>0, <1>2 DEF Copy!Claim, Behind
  <2>2. Behind(cursor'.after, cursor'.next) \in SUBSET Objects
    BY DEF Behind
  <2>3. QED
    BY <2>1, <2>2 DEF Copy!Next
<1>3. CASE Publish
  <2>1. /\ published' = published + 1 /\ published \in Nat
        /\ published + 1 \in Objects
        /\ UNCHANGED <<stored, cursor>>
    BY <1>0, <1>3, ConstantsAssumption
       DEF Publish, storeVars, TypeOK, Objects
  <2>2. published + 1 \notin 1..published /\
          1..published' = (1..published) \union {published + 1}
    BY <2>1
  <2>3. Copy!Offer(published + 1, {})
    BY <1>0, <2>1, <2>2 DEF Copy!Offer, Behind
  <2>4. QED
    BY <2>1, <2>3 DEF Copy!Next
<1>4. ASSUME NEW r \in Runners, IngestPage(r)
      PROVE  [Copy!Next]_(Copy!copyVars)
  <2>1. answer[r].objs \subseteq 1..published
    BY <1>4 DEF IngestPage, IInv, RunSound, PageSound
  <2>2. Copy!Copy(answer[r].objs)
    BY <1>4 DEF IngestPage, serverVars, Copy!Copy, Behind
  <2>3. QED
    BY <2>1, <2>2 DEF Copy!Next
<1>5. CASE UNCHANGED vars
  BY <1>1, <1>5 DEF vars, serverVars, storeVars
<1>6. ASSUME NEW r \in Runners,
             Start(r) \/ RunStep(r) \/ Cancel(r) \/ Crash(r),
             ~IngestPage(r)
      PROVE  UNCHANGED <<published, stored>>
  BY <1>6
     DEF RunStep, Start, Cancel, Crash, StopCancelled, StopAtBound, Fetch,
         OnNotModified, OnFetchError, OnEmptyPage, IngestFails,
         AdvanceAndContinue, AdvanceAndReturn, AdvanceFails, serverVars,
         storeVars
<1>7. QED
  BY <1>2, <1>3, <1>4, <1>5, <1>6 DEF Next, vars, serverVars, storeVars

(* The page loop implements the incremental copy: its cursor may fall back *)
(* when runs overlap, and never gets ahead of the store.                   *)
THEOREM ImplementsCopy == NoLateArrival => (Spec => CopySpec)
<1> SUFFICES ASSUME NoLateArrival
             PROVE  Spec => CopySpec
  OBVIOUS
<1>1. Init => Copy!Init
  <2>1. Behind(0, 0) = {}
    BY ConstantsAssumption DEF Behind, Objects, Stamps
  <2>2. QED
    BY <2>1 DEF Init, Copy!Init, Starting
<1>2. IInv /\ [Next]_vars => IInv'
  BY SafeStep
<1>3. IInv /\ IInv' /\ [Next]_vars => [Copy!Next]_(Copy!copyVars)
  BY CopyStep
<1>4. QED
  BY SafeInit, <1>1, <1>2, <1>3, PTL DEF Spec, CopySpec, Copy!Spec
=============================================================================
