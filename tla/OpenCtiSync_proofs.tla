------------------------- MODULE OpenCtiSync_proofs -------------------------
(***************************************************************************)
(* Proofs about the OpenCTI poll, for every instance, every number of      *)
(* overlapping processes, every bound and every sequence of failures.      *)
(***************************************************************************)
EXTENDS OpenCtiSync, TLAPS

(* A page holds visible versions, and there is room for one more page      *)
(* while an answer is in hand.                                             *)
Visible(r) ==
  /\ answer[r].objs \subseteq 1..published
  /\ answer[r].upTo <= published
  /\ pc[r] = "answered" => pages[r] < MaxPages

TypeInv == TypeOK /\ \A r \in Runners : Visible(r)

Held == stored \union skipped

(* A mark that was handed out: the updated_at of a visible version, or     *)
(* none at all; and one behind which nothing current is missing.           *)
Handed(since) ==
  since = 0 \/ \E i \in 1..published : Updated[i] = since
Covered(since) == Behind(since) \intersect Current \subseteq Held
Sound(since) == Handed(since) /\ Covered(since)

(* What an answer owes to the request it answers: nothing current below    *)
(* one of its versions is missing from both the page and the store, its    *)
(* newest mark and its end cursor are those of versions it holds, and a    *)
(* last page leaves nothing out.  A version replaced since is owed no      *)
(* more.                                                                   *)
PageSound(r) ==
  /\ \A j \in answer[r].objs : \A i \in (1..j) \intersect Current :
       i \in answer[r].objs \union Held
  /\ answer[r].newest = 0
       \/ \E j \in answer[r].objs : Updated[j] = answer[r].newest
  /\ answer[r].end \in answer[r].objs \union {0, after[r]}
  /\ ~answer[r].more \/ answer[r].objs = {} =>
       (1..answer[r].upTo) \intersect Current \subseteq
         answer[r].objs \union Held

(* What lies up to a GraphQL cursor is in the store.  The cursor may be    *)
(* ahead of the mark: a page without a mark moves only the cursor.         *)
Passed(end) ==
  end <= published /\ (1..end) \intersect Current \subseteq Held

(* The run's own mark is sound, its GraphQL cursor has passed nothing that *)
(* is missing and dies with the run, and a page it holds is sound and      *)
(* committed once ingested.                                                *)
RunSound(r) ==
  /\ Sound(local[r].since)
  /\ pc[r] = "idle" => after[r] = 0
  /\ Passed(after[r])
  /\ pc[r] = "answered" /\ answer[r].kind = "page" => PageSound(r)
  /\ pc[r] = "ingested" => PageSound(r) /\ answer[r].objs \subseteq Held

IInv ==
  /\ TypeInv
  /\ Sound(cursor.since)
  /\ \A r \in Runners : RunSound(r)

-----------------------------------------------------------------------------
LEMMA VersionFacts ==
  /\ Versions \subseteq Nat \ {0} /\ 0 \in 0..NumVersions
  /\ \A i \in Versions : Modified[i] \in Nat \ {0} /\ Modified[i] \in Stamps
  /\ \A i \in Versions : Updated[i] \in Nat /\ Updated[i] \in Stamps
  /\ Stamps \subseteq Nat /\ 0 \in Stamps
  /\ MaxPages \in Nat /\ MaxFaults \in Nat /\ NumVersions \in Nat
  BY ConstantsAssumption DEF Versions, Stamps

LEMMA StartingType ==
  Starting \in Cursors /\ NoAnswer \in Answers /\
  NoReport \in Reports /\ ErrReport \in Reports
  BY VersionFacts
     DEF Starting, Cursors, Statuses, NoAnswer, Answers, NoReport, ErrReport,
         Reports

LEMMA FaultType ==
  ASSUME TypeOK, Fault
  PROVE  faults' \in 0..MaxFaults
  BY VersionFacts DEF TypeOK, Fault

(* Ending a run leaves every local of every run well typed.                *)
LEMMA ForgetType ==
  ASSUME TypeInv, NEW r \in Runners, Forget(r),
         UNCHANGED <<published, stored, skipped>>,
         cursor' \in Cursors, report' \in [Runners -> Reports],
         faults' \in 0..MaxFaults
  PROVE  TypeInv'
<1>1. TypeOK'
  <2>1. TypeOK
    BY DEF TypeInv
  <2>2. /\ pc' \in [Runners -> {"idle", "head", "answered", "ingested"}]
        /\ local' \in [Runners -> Cursors]
        /\ cancelled' \in [Runners -> BOOLEAN]
    BY <2>1, StartingType DEF TypeOK, Forget
  <2>3. answer' \in [Runners -> Answers]
    BY <2>1, StartingType DEF TypeOK, Forget
  <2>4. /\ after' \in [Runners -> 0..NumVersions]
        /\ pages' \in [Runners -> 0..MaxPages]
    BY <2>1, VersionFacts DEF TypeOK, Forget
  <2>5. QED
    BY <2>1, <2>2, <2>3, <2>4 DEF TypeOK
<1>2. ASSUME NEW q \in Runners PROVE Visible(q)'
  <2>1. Visible(q) /\ published \in Nat
    BY VersionFacts DEF TypeInv, TypeOK
  <2>2. CASE q = r
    BY <2>1, <2>2 DEF Visible, Forget, TypeInv, TypeOK, NoAnswer
  <2>3. CASE q # r
    BY <2>1, <2>3 DEF Visible, Forget, TypeInv, TypeOK
  <2>4. QED
    BY <2>2, <2>3
<1>3. QED
  BY <1>1, <1>2 DEF TypeInv

LEMMA ReturnOkType ==
  ASSUME TypeInv, NEW r \in Runners, NEW c \in Cursors,
         NEW upTo \in 0..NumVersions,
         ReturnOk(r, c, upTo), UNCHANGED <<published, stored, skipped>>
  PROVE  TypeInv'
<1>1. cursor' \in Cursors
  BY DEF TypeInv, TypeOK, ReturnOk
<1>2. report' \in [Runners -> Reports]
  <2>1. [result |-> c.status, upTo |-> upTo] \in Reports
    BY DEF Reports, Cursors
  <2>2. QED
    BY <2>1, StartingType DEF TypeInv, TypeOK, ReturnOk
<1>3. faults' \in 0..MaxFaults
  BY FaultType DEF ReturnOk, TypeInv, TypeOK
<1>4. QED
  BY <1>1, <1>2, <1>3, ForgetType DEF ReturnOk

LEMMA ReturnErrType ==
  ASSUME TypeInv, NEW r \in Runners, ReturnErr(r), cursor' \in Cursors,
         faults' = faults \/ Fault, UNCHANGED <<published, stored, skipped>>
  PROVE  TypeInv'
<1>1. report' \in [Runners -> Reports]
  BY StartingType DEF TypeInv, TypeOK, ReturnErr
<1>2. faults' \in 0..MaxFaults
  BY FaultType DEF TypeInv, TypeOK
<1>3. QED
  BY <1>1, <1>2, ForgetType DEF ReturnErr

LEMMA AdvancedType ==
  ASSUME TypeOK, NEW r \in Runners
  PROVE  Advanced(r) \in Cursors
<1>1. answer[r] \in Answers /\ local[r] \in Cursors
  BY DEF TypeOK
<1>2. QED
  BY <1>1 DEF Advanced, Answers, Cursors, Statuses

(* A query lists visible versions, and names one of them, nothing or the   *)
(* cursor it was sent.                                                     *)
LEMMA PageType ==
  ASSUME TypeInv, NEW r \in Runners,
         NEW objs \in SUBSET Eligible(local[r].since, after[r]),
         NEW more \in BOOLEAN,
         NEW newest \in {Updated[i] : i \in objs} \union {0},
         NEW end \in objs \union {0, after[r]}
  PROVE  /\ objs \subseteq 1..published
         /\ [kind |-> "page", objs |-> objs, newest |-> newest,
             end |-> end, more |-> more, upTo |-> published] \in Answers
<1>1. published \in 0..NumVersions /\ after[r] \in 0..NumVersions
  BY DEF TypeInv, TypeOK
<1>2. objs \subseteq 1..published
  BY DEF Eligible, Current
<1>3. 1..published \subseteq Versions
  BY <1>1, VersionFacts DEF Versions
<1>4. newest \in Stamps
  BY <1>2, <1>3, VersionFacts
<1>5. end \in 0..NumVersions
  BY <1>1, <1>2, <1>3, VersionFacts DEF Versions
<1>6. QED
  BY <1>1, <1>2, <1>3, <1>4, <1>5 DEF Answers

LEMMA FetchType ==
  ASSUME TypeInv, NEW r \in Runners, Fetch(r)
  PROVE  TypeInv'
<1>0. TypeOK /\ published \in Nat
  BY VersionFacts DEF TypeInv, TypeOK
<1>1. /\ answer' \in [Runners -> Answers]
      /\ answer'[r].objs \subseteq 1..published
      /\ answer'[r].upTo <= published
      /\ \A q \in Runners \ {r} : answer'[q] = answer[q]
  <2>1. CASE answer' =
               [answer EXCEPT ![r] = [NoAnswer EXCEPT !.kind = "error"]]
    <3>1. [NoAnswer EXCEPT !.kind = "error"] \in Answers
      BY VersionFacts DEF NoAnswer, Answers
    <3>2. QED
      BY <1>0, <2>1, <3>1 DEF TypeOK, NoAnswer
  <2>2. CASE \E objs \in SUBSET Eligible(local[r].since, after[r]),
                more \in BOOLEAN :
             \E newest \in {Updated[i] : i \in objs} \union {0},
                end \in objs \union {0, after[r]} :
               answer' = [answer EXCEPT ![r] =
                 [kind |-> "page", objs |-> objs, newest |-> newest,
                  end |-> end, more |-> more, upTo |-> published]]
    <3>1. PICK objs \in SUBSET Eligible(local[r].since, after[r]),
               more \in BOOLEAN :
            \E newest \in {Updated[i] : i \in objs} \union {0},
               end \in objs \union {0, after[r]} :
              answer' = [answer EXCEPT ![r] =
                [kind |-> "page", objs |-> objs, newest |-> newest,
                 end |-> end, more |-> more, upTo |-> published]]
      BY <2>2
    <3>2. PICK newest \in {Updated[i] : i \in objs} \union {0},
               end \in objs \union {0, after[r]} :
            answer' = [answer EXCEPT ![r] =
              [kind |-> "page", objs |-> objs, newest |-> newest,
               end |-> end, more |-> more, upTo |-> published]]
      BY <3>1
    <3> DEFINE page == [kind |-> "page", objs |-> objs, newest |-> newest,
                        end |-> end, more |-> more, upTo |-> published]
    <3>3. objs \subseteq 1..published /\ page \in Answers
      BY PageType
    <3>4. page.objs = objs /\ page.upTo = published
      OBVIOUS
    <3>5. answer' = [answer EXCEPT ![r] = page] /\ answer \in [Runners -> Answers]
      BY <1>0, <3>2 DEF TypeOK
    <3> HIDE DEF page
    <3>6. /\ answer' \in [Runners -> Answers]
          /\ answer'[r] = page
          /\ \A q \in Runners \ {r} : answer'[q] = answer[q]
      BY <3>3, <3>5
    <3>7. published <= published
      BY <1>0
    <3>8. QED
      BY <3>3, <3>4, <3>6, <3>7
  <2>3. QED
    BY <2>1, <2>2 DEF Fetch, AnswerTo
<1>2. faults' \in 0..MaxFaults
  BY <1>0, FaultType DEF Fetch, AnswerTo, TypeOK
<1>3. TypeOK'
  BY <1>0, <1>1, <1>2 DEF TypeOK, Fetch, storeVars
<1>4. \A q \in Runners : Visible(q)'
  BY <1>0, <1>1 DEF TypeInv, TypeOK, Visible, Fetch
<1>5. QED
  BY <1>3, <1>4 DEF TypeInv

LEMMA TypeStep == TypeInv /\ [Next]_vars => TypeInv'
<1> SUFFICES ASSUME TypeInv, [Next]_vars
             PROVE  TypeInv'
  OBVIOUS
<1>0. TypeOK /\ published \in Nat
  BY VersionFacts DEF TypeInv, TypeOK
<1>1. CASE UNCHANGED vars
  BY <1>1 DEF TypeInv, TypeOK, Visible, vars, storeVars
<1>2. CASE Publish
  <2>1. published' = published + 1 /\ published' \in 0..NumVersions
    BY <1>0, <1>2, VersionFacts DEF Publish
  <2>2. TypeOK'
    BY <1>0, <1>2, <2>1 DEF TypeOK, Publish, storeVars
  <2>3. ASSUME NEW q \in Runners PROVE Visible(q)'
    <3>1. Visible(q) /\ answer[q].upTo \in Nat
      BY <1>0 DEF TypeInv, TypeOK, Answers
    <3>2. QED
      BY <1>0, <1>2, <2>1, <3>1 DEF Visible, Publish
  <2>4. QED
    BY <2>2, <2>3 DEF TypeInv
<1>3. ASSUME NEW r \in Runners,
             Start(r) \/ RunStep(r) \/ Cancel(r) \/ Crash(r)
      PROVE  TypeInv'
  <2>a. /\ local[r] \in Cursors /\ answer[r] \in Answers /\ Visible(r)
        /\ answer[r].upTo \in 0..NumVersions /\ 0 \in 0..NumVersions
    BY <1>0, VersionFacts DEF TypeInv, TypeOK, Answers
  <2>b. /\ [local[r] EXCEPT !.status = "partial"] \in Cursors
        /\ [local[r] EXCEPT !.status = "failed"] \in Cursors
        /\ [local[r] EXCEPT !.status = "complete"] \in Cursors
        /\ cursor \in Cursors
    BY <1>0, <2>a DEF Cursors, Statuses, TypeOK
  <2>1. CASE Start(r)
    <3>1. TypeOK'
      BY <1>0, <2>1, <2>b, StartingType DEF Start, TypeOK, storeVars
    <3>2. \A q \in Runners : Visible(q)'
      BY <1>0, <2>1 DEF Start, TypeInv, TypeOK, Visible
    <3>3. QED
      BY <3>1, <3>2 DEF TypeInv
  <2>2. CASE StopEarly(r)
    BY <2>2, <2>a, <2>b, ReturnOkType DEF StopEarly
  <2>3. CASE Fetch(r)
    BY <2>3, FetchType
  <2>4. CASE OnFetchError(r)
    BY <2>4, <2>b, ReturnErrType DEF OnFetchError
  <2>5. CASE OnEmptyPage(r)
    BY <2>5, <2>a, <2>b, ReturnOkType DEF OnEmptyPage
  <2>6. CASE IngestPage(r)
    <3>1. pages' \in [Runners -> 0..MaxPages]
      <4>1. pages[r] \in 0..MaxPages /\ pages[r] < MaxPages
        BY <1>0, <2>a, <2>6 DEF IngestPage, TypeOK, Visible
      <4>2. pages[r] + 1 \in 0..MaxPages
        BY <4>1, VersionFacts
      <4>3. QED
        BY <1>0, <4>2, <2>6 DEF IngestPage, TypeOK
    <3>2. stored' \in SUBSET (1..published) /\ skipped' \in SUBSET Unrenderable
      BY <1>0, <2>6, <2>a DEF IngestPage, TypeOK, Visible, Unrendered
    <3>3. TypeOK'
      BY <1>0, <2>6, <3>1, <3>2 DEF IngestPage, TypeOK
    <3>4. \A q \in Runners : Visible(q)'
      BY <1>0, <2>6 DEF IngestPage, TypeInv, TypeOK, Visible
    <3>5. QED
      BY <3>3, <3>4 DEF TypeInv
  <2>7. CASE IngestFails(r)
    BY <2>7, <2>b, ReturnErrType DEF IngestFails
  <2>8. CASE AdvanceAndContinue(r)
    <3>1. TypeOK'
      BY <1>0, <2>8, <2>a, StartingType, AdvancedType
         DEF AdvanceAndContinue, TypeOK, Answers
    <3>2. ASSUME NEW q \in Runners PROVE Visible(q)'
      <4>1. CASE q = r
        BY <1>0, <2>8, <4>1 DEF AdvanceAndContinue, TypeOK, Visible, NoAnswer
      <4>2. CASE q # r
        BY <1>0, <2>8, <4>2 DEF AdvanceAndContinue, TypeInv, TypeOK, Visible
      <4>3. QED
        BY <4>1, <4>2
    <3>3. QED
      BY <3>1, <3>2 DEF TypeInv
  <2>9. CASE AdvanceAndReturn(r)
    BY <1>0, <2>9, <2>a, AdvancedType, ReturnOkType DEF AdvanceAndReturn
  <2>10. CASE AdvanceFails(r)
    BY <2>10, <2>b, ReturnErrType DEF AdvanceFails, storeVars
  <2>11. CASE Cancel(r)
    <3>1. faults' \in 0..MaxFaults
      BY <1>0, <2>11, FaultType DEF Cancel
    <3>2. TypeOK'
      BY <1>0, <2>11, <3>1 DEF Cancel, TypeOK, storeVars
    <3>3. QED
      BY <2>11, <3>2 DEF Cancel, TypeInv, Visible
  <2>12. CASE Crash(r)
    <3>1. faults' \in 0..MaxFaults
      BY <1>0, <2>12, FaultType DEF Crash
    <3>2. QED
      BY <1>0, <2>12, <2>b, <3>1, ForgetType DEF Crash, storeVars, TypeOK
  <2>13. QED
    BY <1>3, <2>1, <2>2, <2>3, <2>4, <2>5, <2>6, <2>7, <2>8, <2>9, <2>10,
       <2>11, <2>12 DEF RunStep
<1>4. QED
  BY <1>1, <1>2, <1>3 DEF Next

LEMMA TypeInit == Init => TypeInv
<1> SUFFICES ASSUME Init PROVE TypeInv
  OBVIOUS
<1>1. TypeOK
  BY StartingType, VersionFacts DEF Init, TypeOK
<1>2. \A r \in Runners : Visible(r)
  BY VersionFacts DEF Init, Visible, NoAnswer
<1>3. QED
  BY <1>1, <1>2 DEF TypeInv

(* Every value the loop, the cursor row and the report can hold is of the  *)
(* type the code gives it, no run reads more pages than its bound, and     *)
(* nothing is stored that the instance did not show.                       *)
THEOREM TypeCorrect == Spec => []TypeOK
<1>1. TypeInv => TypeOK
  BY DEF TypeInv
<1>2. QED
  BY TypeInit, TypeStep, <1>1, PTL DEF Spec

-----------------------------------------------------------------------------
(* What lies behind the mark of a version comes no later than it.          *)
LEMMA Behindhand ==
  ASSUME MarksSeparate, NEW i \in Versions, NEW j \in Versions,
         Modified[i] <= Updated[j]
  PROVE  i <= j
<1>1. i \in Nat /\ j \in Nat /\ Modified[i] \in Nat /\ Updated[j] \in Nat
  BY VersionFacts
<1>2. CASE j < i
  BY <1>1, <1>2 DEF MarksSeparate
<1>3. QED
  BY <1>1, <1>2

(* What is current of what was visible then was current then.              *)
LEMMA CurrentShrinks ==
  ASSUME published \in Nat, published' \in Nat, published <= published'
  PROVE  Current' \intersect (1..published) \subseteq Current
  BY DEF Current

(* No mark is lost while versions are shown and pages committed.           *)
LEMMA SoundStays ==
  ASSUME MarksSeparate, TypeOK, TypeOK', NEW since \in Stamps, Sound(since),
         published' = published \/ Publish,
         Held \subseteq Held'
  PROVE  Sound(since)'
<1>1. /\ published \in Nat /\ published' \in Nat /\ published <= published'
      /\ 1..published' \subseteq Versions /\ 1..published \subseteq Versions
      /\ 1..published \subseteq 1..published'
  BY VersionFacts DEF TypeOK, Publish, Versions
<1>2. Handed(since)'
  BY <1>1 DEF Sound, Handed
<1>3. ASSUME NEW i \in Behind(since), i \in Current'
      PROVE  i \in Held'
  <2>1. i \in 1..published' /\ i \in Versions /\ Modified[i] <= since
    BY <1>1, <1>3 DEF Behind, Current
  <2>2. i \in 1..published
    <3>1. since # 0
      BY <2>1, VersionFacts
    <3>2. PICK j \in 1..published : Updated[j] = since
      BY <3>1 DEF Sound, Handed
    <3>3. i <= j
      BY <1>1, <2>1, <3>2, Behindhand
    <3>4. QED
      BY <1>1, <2>1, <3>2, <3>3
  <2>3. i \in Current
    BY <1>1, <1>3, <2>2, CurrentShrinks
  <2>4. QED
    BY <1>3, <2>3 DEF Sound, Covered
<1>4. QED
  BY <1>2, <1>3 DEF Sound, Covered, Behind

(* Another process's step, or the instance's, leaves a run as sound as it  *)
(* was.                                                                    *)
LEMMA Frame ==
  ASSUME MarksSeparate, TypeInv, TypeInv', NEW q \in Runners, RunSound(q),
         pc'[q] = pc[q], local'[q] = local[q], after'[q] = after[q],
         answer'[q] = answer[q],
         published' = published \/ Publish,
         Held \subseteq Held'
  PROVE  RunSound(q)'
<1>1. /\ TypeOK /\ TypeOK' /\ local[q].since \in Stamps
      /\ published \in Nat /\ published' \in Nat /\ published <= published'
      /\ answer[q].objs \subseteq 1..published
      /\ answer[q].upTo \in Nat /\ answer[q].upTo <= published
  BY VersionFacts DEF TypeInv, TypeOK, Cursors, Visible, Publish, Answers
<1>2. Sound(local[q].since)'
  <2>1. PICK since \in Stamps : since = local[q].since
    BY <1>1
  <2>2. Sound(since)'
    BY <1>1, <2>1, SoundStays DEF RunSound
  <2>3. QED
    BY <2>1, <2>2 DEF Sound, Handed, Covered, Behind
<1>3. PageSound(q) => PageSound(q)'
  <2> SUFFICES ASSUME PageSound(q) PROVE PageSound(q)'
    OBVIOUS
  <2>1. ASSUME NEW j \in answer[q].objs, NEW i \in 1..j, i \in Current'
        PROVE  i \in answer[q].objs \union Held'
    <3>1. i \in 1..published
      BY <1>1
    <3>2. i \in Current
      BY <1>1, <2>1, <3>1, CurrentShrinks
    <3>3. QED
      BY <3>2 DEF PageSound
  <2>2. ASSUME ~answer[q].more \/ answer[q].objs = {},
               NEW i \in 1..answer[q].upTo, i \in Current'
        PROVE  i \in answer[q].objs \union Held'
    <3>1. i \in 1..published
      BY <1>1
    <3>2. i \in Current
      BY <1>1, <2>2, <3>1, CurrentShrinks
    <3>3. QED
      BY <2>2, <3>2 DEF PageSound
  <2>3. QED
    BY <2>1, <2>2 DEF PageSound
<1>4. Passed(after[q])'
  <2>1. after[q] \in Nat /\ Passed(after[q])
    BY <1>1, VersionFacts DEF TypeOK, RunSound
  <2>2. ASSUME NEW i \in 1..after[q], i \in Current'
        PROVE  i \in Held'
    <3>1. i \in 1..published
      BY <1>1, <2>1 DEF Passed
    <3>2. i \in Current
      BY <1>1, <2>2, <3>1, CurrentShrinks
    <3>3. QED
      BY <2>1, <3>2 DEF Passed
  <2>3. after'[q] <= published'
    BY <1>1, <2>1 DEF Passed
  <2>4. QED
    BY <2>2, <2>3 DEF Passed
<1>5. answer[q].objs \subseteq Held => answer'[q].objs \subseteq Held'
  OBVIOUS
<1>6. QED
  BY <1>2, <1>3, <1>4, <1>5 DEF RunSound

(* A run that is over claims nothing.                                      *)
LEMMA Forgotten ==
  ASSUME TypeOK, TypeOK', NEW r \in Runners, Forget(r)
  PROVE  RunSound(r)'
<1>1. /\ pc'[r] = "idle" /\ local'[r] = Starting /\ after'[r] = 0
  BY DEF Forget, TypeOK
<1>2. \A i \in Versions : ~(Modified[i] <= 0)
  BY VersionFacts
<1>3. Passed(0)'
  BY VersionFacts DEF Passed, TypeOK
<1>4. QED
  BY <1>1, <1>2, <1>3
     DEF RunSound, Sound, Handed, Covered, Starting, Behind

(* The heart of the argument.  The new mark is the updated_at of a version *)
(* of the page; as the marks are separate what is behind it comes no later *)
(* than that version in the index, so it is in the page or in the store.   *)
LEMMA AdvancedSound ==
  ASSUME MarksSeparate, TypeInv, NEW r \in Runners, RunSound(r),
         pc[r] = "ingested"
  PROVE  /\ Sound(Advanced(r).since)
         /\ Moved(r) => Passed(answer[r].end)
<1>1. /\ PageSound(r) /\ answer[r].objs \subseteq Held
      /\ Sound(local[r].since)
  BY DEF RunSound
<1>2. /\ answer[r].objs \subseteq 1..published
      /\ 1..published \subseteq Versions /\ published \in Nat
      /\ answer[r].newest \in Stamps
  BY VersionFacts DEF TypeInv, TypeOK, Visible, Versions, Answers
<1>3. ASSUME Moved(r) PROVE Passed(answer[r].end)
  <2>1. answer[r].end \in answer[r].objs
    BY <1>1, <1>3 DEF PageSound, Moved
  <2>2. answer[r].end <= published
    BY <1>2, <2>1
  <2>3. (1..answer[r].end) \intersect Current \subseteq Held
    BY <1>1, <2>1 DEF PageSound
  <2>4. QED
    BY <2>2, <2>3 DEF Passed
<1>4. CASE answer[r].newest = 0
  BY <1>1, <1>3, <1>4 DEF Advanced
<1>5. CASE answer[r].newest # 0
  <2>1. Advanced(r).since = answer[r].newest
    BY <1>5 DEF Advanced
  <2>2. PICK m \in answer[r].objs : Updated[m] = answer[r].newest
    BY <1>1, <1>5 DEF PageSound
  <2>3. Handed(answer[r].newest)
    BY <1>2, <2>2 DEF Handed
  <2>4. ASSUME NEW i \in Behind(answer[r].newest), i \in Current
        PROVE  i \in Held
    <3>1. i \in Versions /\ m \in Versions /\ Modified[i] <= Updated[m]
      BY <1>2, <2>2, <2>4 DEF Behind
    <3>2. i \in 1..m
      BY <3>1, Behindhand, VersionFacts DEF Versions
    <3>3. i \in answer[r].objs \union Held
      BY <1>1, <2>4, <3>2 DEF PageSound
    <3>4. QED
      BY <1>1, <3>3
  <2>5. QED
    BY <1>3, <2>1, <2>3, <2>4 DEF Sound, Covered
<1>6. QED
  BY <1>4, <1>5

(* A page the instance may answer with is sound: what it leaves out below  *)
(* its last version is behind the mark or the cursor, and stored.          *)
LEMMA FetchSound ==
  ASSUME TypeInv, TypeInv', NEW r \in Runners, RunSound(r), Fetch(r)
  PROVE  RunSound(r)'
<1> DEFINE E == Eligible(local[r].since, after[r])
<1>1. /\ local' = local /\ after' = after /\ published' = published
      /\ stored' = stored /\ skipped' = skipped
      /\ pc'[r] = "answered"
  BY DEF Fetch, TypeInv, TypeOK, storeVars
<1>2. /\ published \in Nat /\ 1..published \subseteq Versions
      /\ local[r].since \in Nat /\ after[r] \in 0..NumVersions
      /\ 1..published \subseteq Nat
  <2>1. /\ published \in 0..NumVersions /\ local[r] \in Cursors
        /\ after[r] \in 0..NumVersions
    BY DEF TypeInv, TypeOK
  <2>2. local[r].since \in Nat
    BY <2>1, VersionFacts DEF Cursors
  <2>3. QED
    BY <2>1, <2>2, VersionFacts DEF Versions
<1>3. ASSUME NEW i \in Current, i \notin E
      PROVE  i \in Held
  <2>1. i \in 1..published /\ i \in Versions /\ Modified[i] \in Nat
    BY <1>2, VersionFacts DEF Current
  <2>2. CASE Modified[i] <= local[r].since
    BY <1>3, <2>1, <2>2 DEF RunSound, Sound, Covered, Behind
  <2>3. CASE i <= after[r]
    <3>1. i \in 1..after[r]
      BY <1>2, <2>1, <2>3
    <3>2. QED
      BY <1>3, <3>1 DEF RunSound, Passed
  <2>4. QED
    BY <1>2, <1>3, <2>1, <2>2, <2>3 DEF Eligible
<1>4. ASSUME NEW objs \in SUBSET E, NEW more \in BOOLEAN,
             NEW newest \in {Updated[i] : i \in objs} \union {0},
             NEW end \in objs \union {0, after[r]},
             IsPage(objs, E, more), \A i \in objs : Updated[i] <= newest,
             answer' = [answer EXCEPT ![r] =
               [kind |-> "page", objs |-> objs, newest |-> newest,
                end |-> end, more |-> more, upTo |-> published]]
      PROVE  PageSound(r)'
  <2>1. answer'[r] = [kind |-> "page", objs |-> objs, newest |-> newest,
                      end |-> end, more |-> more, upTo |-> published]
    BY <1>4 DEF TypeInv, TypeOK
  <2>2. objs \subseteq 1..published
    BY DEF Eligible, Current
  <2>3. ASSUME NEW j \in objs, NEW i \in (1..j) \intersect Current
        PROVE  i \in objs \union Held
    <3>1. CASE i \in E
      <4>1. i <= j
        BY <1>2, <2>2
      <4>2. QED
        BY <1>4, <3>1, <4>1 DEF IsPage
    <3>2. QED
      BY <1>3, <3>1
  <2>4. newest = 0 \/ \E j \in objs : Updated[j] = newest
    OBVIOUS
  <2>5. ~more \/ objs = {} =>
          (1..published) \intersect Current \subseteq
            objs \union Held
    BY <1>3, <1>4 DEF IsPage
  <2>6. Current' = Current /\ Held' = Held
    BY <1>1 DEF Current, Held
  <2>7. QED
    BY <1>1, <2>1, <2>3, <2>4, <2>5, <2>6 DEF PageSound
<1>5. answer'[r].kind = "page" => PageSound(r)'
  <2>1. CASE answer' =
               [answer EXCEPT ![r] = [NoAnswer EXCEPT !.kind = "error"]]
    BY <2>1 DEF TypeInv, TypeOK, NoAnswer
  <2>2. CASE \E objs \in SUBSET E, more \in BOOLEAN :
               /\ IsPage(objs, E, more)
               /\ \E newest \in {Updated[i] : i \in objs} \union {0},
                     end \in objs \union {0, after[r]} :
                    /\ \A i \in objs : Updated[i] <= newest
                    /\ answer' = [answer EXCEPT ![r] =
                         [kind |-> "page", objs |-> objs, newest |-> newest,
                          end |-> end, more |-> more, upTo |-> published]]
    BY <1>4, <2>2
  <2>3. QED
    BY <2>1, <2>2 DEF Fetch, AnswerTo
<1>6. QED
  BY <1>1, <1>5
     DEF RunSound, Sound, Handed, Covered, Behind, Current, Held, Passed

(* What the end of a run leaves.                                           *)
LEMMA Over ==
  ASSUME MarksSeparate, TypeInv, TypeInv', NEW r \in Runners, Forget(r),
         UNCHANGED <<published, stored, skipped>>,
         \A q \in Runners : RunSound(q), Sound(cursor'.since)
  PROVE  IInv'
<1>1. ASSUME NEW q \in Runners PROVE RunSound(q)'
  <2>1. CASE q = r
    BY <2>1, Forgotten DEF TypeInv
  <2>2. CASE q # r
    <3>1. /\ pc'[q] = pc[q] /\ local'[q] = local[q]
          /\ after'[q] = after[q] /\ answer'[q] = answer[q]
      BY <2>2 DEF Forget, TypeInv, TypeOK
    <3>2. QED
      BY <3>1, Frame DEF Held
  <2>3. QED
    BY <2>1, <2>2
<1>2. Sound(cursor.since)'
  BY DEF Sound, Handed, Covered, Behind, Current, Held
<1>3. QED
  BY <1>1, <1>2 DEF IInv

LEMMA SafeStep ==
  ASSUME MarksSeparate, IInv, [Next]_vars
  PROVE  IInv'
<1>0. /\ TypeInv /\ TypeInv' /\ Sound(cursor.since) /\ TypeOK
      /\ \A q \in Runners : RunSound(q)
  BY TypeStep DEF IInv, TypeInv
<1>1. CASE UNCHANGED vars
  BY <1>0, <1>1
     DEF IInv, vars, storeVars, RunSound, PageSound, Sound, Handed, Covered,
         Behind, Current, Held, Passed
<1>2. CASE Publish
  <2>1. Held = Held' /\ cursor' = cursor
    BY <1>2 DEF Publish, storeVars, Held
  <2>2. \A q \in Runners : RunSound(q)'
    BY <1>0, <1>2, <2>1, Frame DEF Publish
  <2>3. Sound(cursor.since)'
    <3>1. PICK since \in Stamps : since = cursor.since
      BY <1>0 DEF TypeOK, Cursors
    <3>2. Sound(since)'
      BY <1>0, <1>2, <2>1, <3>1, SoundStays DEF TypeInv
    <3>3. QED
      BY <2>1, <3>1, <3>2 DEF Sound, Handed, Covered, Behind
  <2>4. QED
    BY <1>0, <2>2, <2>3 DEF IInv
<1>3. ASSUME NEW r \in Runners,
             Start(r) \/ RunStep(r) \/ Cancel(r) \/ Crash(r)
      PROVE  IInv'
  <2>a. RunSound(r) /\ Sound(local[r].since)
    BY <1>0 DEF RunSound
  <2>b. \A st : [local[r] EXCEPT !.status = st].since = local[r].since
    BY <1>0 DEF TypeOK, Cursors
  <2>f. pc[r] = "ingested" =>
          /\ Sound(Advanced(r).since)
          /\ Moved(r) => Passed(answer[r].end)
    BY <1>0, <2>a, AdvancedSound
  <2>g. ASSUME Forget(r), UNCHANGED <<published, stored, skipped>>,
               \/ cursor' = cursor
               \/ \E st : cursor' = [local[r] EXCEPT !.status = st]
               \/ pc[r] = "ingested" /\ cursor' = Advanced(r)
        PROVE  IInv'
    <3>1. Sound(cursor'.since)
      BY <1>0, <2>a, <2>b, <2>f, <2>g
    <3>2. QED
      BY <1>0, <2>g, <3>1, Over
  (* A step that only moves the run's own locals, or adds to the store.    *)
  <2>h. ASSUME UNCHANGED <<published, cursor>>, Held \subseteq Held',
               RunSound(r)',
               \A q \in Runners \ {r} :
                 /\ pc'[q] = pc[q] /\ local'[q] = local[q]
                 /\ after'[q] = after[q] /\ answer'[q] = answer[q]
        PROVE  IInv'
    <3>1. \A q \in Runners \ {r} : RunSound(q)'
      BY <1>0, <2>h, Frame
    <3>2. Sound(cursor.since)'
      BY <1>0, <2>h DEF Sound, Handed, Covered, Behind, Current
    <3>3. QED
      BY <1>0, <2>h, <3>1, <3>2 DEF IInv
  <2>1. CASE Start(r)
    <3>1. /\ pc'[r] = "head" /\ local'[r] = cursor /\ after' = after
          /\ UNCHANGED <<published, storeVars>>
      BY <1>0, <2>1 DEF Start, TypeOK
    <3>2. after[r] = 0
      BY <2>1, <2>a DEF Start, RunSound
    <3>3. RunSound(r)'
      BY <1>0, <3>1, <3>2
         DEF RunSound, storeVars, Sound, Handed, Covered, Behind, Current,
             Held, Passed
    <3>4. QED
      BY <1>0, <2>1, <2>h, <3>3 DEF Start, storeVars, TypeOK, Held
  <2>2. CASE StopEarly(r)
    BY <2>2, <2>g DEF StopEarly, ReturnOk
  <2>3. CASE Fetch(r)
    <3>1. RunSound(r)'
      BY <1>0, <2>3, <2>a, FetchSound
    <3>2. \A q \in Runners \ {r} : answer'[q] = answer[q]
      BY <1>0, <2>3 DEF Fetch, AnswerTo, TypeOK
    <3>3. QED
      BY <1>0, <2>3, <2>h, <3>1, <3>2 DEF Fetch, storeVars, TypeOK, Held
  <2>4. CASE OnFetchError(r)
    BY <2>4, <2>g DEF OnFetchError, ReturnErr
  <2>5. CASE OnEmptyPage(r)
    BY <2>5, <2>g DEF OnEmptyPage, ReturnOk
  <2>6. CASE IngestPage(r)
    <3>1. PageSound(r)
      BY <2>6, <2>a DEF RunSound, IngestPage
    <3>2. /\ pc'[r] = "ingested" /\ answer' = answer /\ local' = local
          /\ after' = after /\ published' = published
          /\ Held' = Held \union answer[r].objs
      BY <1>0, <2>6 DEF IngestPage, TypeOK, Held, Unrendered
    <3>3. PageSound(r)'
      BY <3>1, <3>2 DEF PageSound, Current
    <3>4. RunSound(r)'
      BY <2>a, <3>2, <3>3
         DEF RunSound, Sound, Handed, Covered, Behind, Current, Passed
    <3>5. QED
      BY <1>0, <2>6, <2>h, <3>2, <3>4 DEF IngestPage, TypeOK
  <2>7. CASE IngestFails(r)
    BY <2>7, <2>g DEF IngestFails, ReturnErr
  <2>8. CASE AdvanceAndContinue(r)
    <3>1. /\ Sound(Advanced(r).since)
          /\ Passed(answer[r].end)
      BY <2>8, <2>f DEF AdvanceAndContinue
    <3>2. /\ pc'[r] = "head" /\ local'[r] = Advanced(r)
          /\ after'[r] = answer[r].end
          /\ UNCHANGED <<published, stored, skipped>>
          /\ cursor' = Advanced(r)
      BY <1>0, <2>8 DEF AdvanceAndContinue, TypeOK
    <3>3. RunSound(r)' /\ Sound(cursor.since)'
      BY <3>1, <3>2
         DEF RunSound, Sound, Handed, Covered, Behind, Current, Held, Passed
    <3>4. ASSUME NEW q \in Runners \ {r}
          PROVE  RunSound(q)'
      <4>1. /\ pc'[q] = pc[q] /\ local'[q] = local[q]
            /\ after'[q] = after[q] /\ answer'[q] = answer[q]
        BY <1>0, <2>8 DEF AdvanceAndContinue, TypeOK
      <4>2. QED
        BY <1>0, <3>2, <4>1, Frame DEF Held
    <3>5. QED
      BY <1>0, <3>3, <3>4 DEF IInv
  <2>9. CASE AdvanceAndReturn(r)
    BY <2>9, <2>g DEF AdvanceAndReturn, ReturnOk
  <2>10. CASE AdvanceFails(r)
    BY <2>10, <2>g DEF AdvanceFails, ReturnErr, storeVars
  <2>11. CASE Cancel(r)
    <3>1. RunSound(r)'
      BY <2>11, <2>a
         DEF Cancel, RunSound, PageSound, Sound, Handed, Covered, Behind,
             Current, Held, Passed, storeVars
    <3>2. QED
      BY <2>11, <2>h, <3>1 DEF Cancel, storeVars, Held
  <2>12. CASE Crash(r)
    BY <2>12, <2>g DEF Crash, storeVars
  <2>13. QED
    BY <1>3, <2>1, <2>2, <2>3, <2>4, <2>5, <2>6, <2>7, <2>8, <2>9, <2>10,
       <2>11, <2>12 DEF RunStep
<1>4. QED
  BY <1>1, <1>2, <1>3 DEF Next

LEMMA SafeInit == Init => IInv
<1> SUFFICES ASSUME Init PROVE IInv
  OBVIOUS
<1>1. \A i \in Versions : ~(Modified[i] <= 0)
  BY VersionFacts
<1>2. Sound(0)
  BY <1>1 DEF Sound, Handed, Covered, Behind
<1>3. \A r \in Runners : RunSound(r)
  BY <1>2 DEF Init, RunSound, Starting, Passed
<1>4. QED
  BY <1>2, <1>3, TypeInit DEF Init, IInv, Starting

-----------------------------------------------------------------------------
(* The mark in the database is never ahead of the store.                   *)
MarkNeverAheadOfStore == Covered(cursor.since)

(* sync.rs: "the cursor never moves ahead of stored data".  Whatever polls *)
(* overlap, fail or die, and whichever pages give no mark, nothing current *)
(* that the durable mark leaves behind is missing, for an instance where   *)
(* no version's updated_at, which becomes the mark, reaches the `modified` *)
(* of a later one, which is filtered on.  The code does not see to that;   *)
(* the run OpenCtiTied shows the hypothesis is needed.                     *)
THEOREM MarkSafe == MarksSeparate => (Spec => []MarkNeverAheadOfStore)
<1> SUFFICES ASSUME MarksSeparate
             PROVE  Spec => []MarkNeverAheadOfStore
  OBVIOUS
<1>1. IInv /\ [Next]_vars => IInv'
  BY SafeStep
<1>2. IInv => MarkNeverAheadOfStore
  BY DEF IInv, Sound, MarkNeverAheadOfStore
<1>3. QED
  BY SafeInit, <1>1, <1>2, PTL DEF Spec

-----------------------------------------------------------------------------
(* A complete report covers what the instance showed at the last answer.   *)
Reported ==
  \A r \in Runners : report[r].result = "complete" =>
                       report[r].upTo <= published

LEMMA CoverStep ==
  ASSUME IInv, Reported, CompleteCoversFeed, [Next]_vars
  PROVE  CompleteCoversFeed' /\ Reported'
<1>0. /\ TypeInv /\ TypeOK /\ published \in Nat
      /\ \A q \in Runners : RunSound(q) /\ Visible(q)
      /\ \A q \in Runners : report[q].upTo \in Nat
  BY VersionFacts DEF IInv, TypeInv, TypeOK, Reports
<1>1. CASE UNCHANGED vars
  BY <1>1 DEF CompleteCoversFeed, Reported, vars, storeVars, Current
<1>2. CASE Publish
  <2>1. /\ published' = published + 1 /\ report' = report
        /\ stored' = stored /\ skipped' = skipped
    BY <1>2 DEF Publish, storeVars
  <2>2. ASSUME NEW q \in Runners, report[q].result = "complete",
               NEW i \in Current', i <= report[q].upTo
        PROVE  i \in stored \union skipped
    <3>1. i \in 1..published
      BY <1>0, <2>1, <2>2 DEF Current, Reported
    <3>2. i \in Current
      BY <1>0, <2>1, <2>2, <3>1, CurrentShrinks
    <3>3. QED
      BY <2>2, <3>2 DEF CompleteCoversFeed
  <2>3. QED
    BY <1>0, <2>1, <2>2 DEF CompleteCoversFeed, Reported
<1>3. ASSUME NEW r \in Runners,
             Start(r) \/ RunStep(r) \/ Cancel(r) \/ Crash(r)
      PROVE  CompleteCoversFeed' /\ Reported'
  <2>a. ASSUME published' = published, Held \subseteq Held',
               \A q \in Runners \ {r} : report'[q] = report[q],
               report'[r].result = "complete" =>
                 /\ report'[r].upTo <= published
                 /\ {i \in Current : i <= report'[r].upTo} \subseteq Held'
        PROVE  CompleteCoversFeed' /\ Reported'
    BY <1>0, <2>a DEF CompleteCoversFeed, Reported, Current, Held
  <2>b. ASSUME NEW c, NEW upTo, ReturnOk(r, c, upTo),
               UNCHANGED <<published, stored, skipped>>,
               c.status = "complete" =>
                 /\ upTo <= published
                 /\ {i \in Current : i <= upTo} \subseteq Held
        PROVE  CompleteCoversFeed' /\ Reported'
    <3>1. \A q \in Runners \ {r} : report'[q] = report[q]
      BY <1>0, <2>b DEF ReturnOk, TypeOK
    <3>2. report'[r] \in {[result |-> c.status, upTo |-> upTo], ErrReport}
      BY <1>0, <2>b DEF ReturnOk, TypeOK
    <3>3. QED
      BY <2>a, <2>b, <3>1, <3>2 DEF ErrReport, Held
  <2>c. ASSUME UNCHANGED <<published, stored, skipped>>,
               report' = [report EXCEPT ![r] = ErrReport]
        PROVE  CompleteCoversFeed' /\ Reported'
    BY <1>0, <2>a, <2>c DEF TypeOK, ErrReport, Held
  <2>d. ASSUME PageSound(r), ~answer[r].more \/ answer[r].objs = {},
               answer[r].objs \subseteq Held
        PROVE  /\ answer[r].upTo <= published
               /\ {i \in Current : i <= answer[r].upTo} \subseteq Held
    <3>1. answer[r].upTo \in Nat /\ Current \subseteq Nat \ {0}
      BY <1>0, VersionFacts DEF TypeOK, Answers, Current
    <3>2. {i \in Current : i <= answer[r].upTo} \subseteq
            (1..answer[r].upTo) \intersect Current
      BY <3>1
    <3>3. QED
      BY <1>0, <2>d, <3>2 DEF PageSound, Visible
  <2>1. CASE Start(r)
    BY <1>0, <2>1, <2>a DEF Start, TypeOK, NoReport, storeVars, Held
  <2>2. CASE StopEarly(r)
    <3>1. [local[r] EXCEPT !.status = "partial"].status = "partial"
      BY <1>0 DEF TypeOK, Cursors
    <3>2. QED
      BY <2>2, <2>b, <3>1 DEF StopEarly
  <2>3. CASE OnEmptyPage(r)
    BY <1>0, <2>3, <2>b, <2>d DEF OnEmptyPage, RunSound
  <2>4. CASE AdvanceAndReturn(r)
    BY <1>0, <2>4, <2>b, <2>d DEF AdvanceAndReturn, RunSound, Advanced
  <2>5. CASE OnFetchError(r) \/ IngestFails(r) \/ AdvanceFails(r)
    BY <2>5, <2>c
       DEF OnFetchError, IngestFails, AdvanceFails, ReturnErr, storeVars
  <2>6. CASE Fetch(r) \/ IngestPage(r) \/ AdvanceAndContinue(r)
               \/ Cancel(r) \/ Crash(r)
    BY <2>6 DEF CompleteCoversFeed, Reported, Fetch, IngestPage, Current,
                AdvanceAndContinue, Cancel, Crash, storeVars, Unrendered
  <2>7. QED
    BY <1>3, <2>1, <2>2, <2>3, <2>4, <2>5, <2>6 DEF RunStep
<1>4. QED
  BY <1>1, <1>2, <1>3 DEF Next

(* SyncReport::is_complete: over an instance whose marks are separate in   *)
(* that sense a complete run has left nothing out that was there at its    *)
(* last answer and still is.                                               *)
THEOREM CompletenessSafe == MarksSeparate => (Spec => []CompleteCoversFeed)
<1> SUFFICES ASSUME MarksSeparate
             PROVE  Spec => []CompleteCoversFeed
  OBVIOUS
<1> DEFINE Inv == IInv /\ Reported /\ CompleteCoversFeed
<1>1. Init => Inv
  BY SafeInit DEF Init, Reported, CompleteCoversFeed, NoReport
<1>2. Inv /\ [Next]_vars => Inv'
  BY SafeStep, CoverStep
<1>3. Inv => CompleteCoversFeed
  OBVIOUS
<1>4. QED
  BY <1>1, <1>2, <1>3, PTL DEF Spec

-----------------------------------------------------------------------------
(* Every step of the poll is a step of the incremental copy, or none at    *)
(* all.                                                                    *)
LEMMA CopyStep ==
  ASSUME MarksSeparate, IInv, IInv', [Next]_vars
  PROVE  [Copy!Next]_(Copy!copyVars)
<1>0. /\ TypeOK /\ Sound(cursor.since) /\ (Covered(cursor.since))'
  BY DEF IInv, TypeInv, Sound
<1>1. ASSUME UNCHANGED <<published, stored, skipped>>
      PROVE  [Copy!Next]_(Copy!copyVars)
  <2>1. Copy!Claim(Behind(cursor'.since))
    BY <1>0, <1>1 DEF Copy!Claim, Covered, Behind, Current, Held
  <2>2. Behind(cursor'.since) \in SUBSET Versions
    BY DEF Behind
  <2>3. QED
    BY <2>1, <2>2 DEF Copy!Next
<1>2. CASE Publish
  <2> DEFINE new == published + 1
  <2>1. /\ published' = new /\ published \in Nat /\ new \in Versions
        /\ UNCHANGED <<stored, skipped, cursor>>
        /\ 1..published' \subseteq Versions
    BY <1>0, <1>2, VersionFacts DEF Publish, storeVars, TypeOK, Versions
  <2>2. new \notin 1..published /\ 1..published' = (1..published) \union {new}
    BY <2>1
  <2>3. new \notin Behind(cursor.since)
    <3>1. CASE cursor.since = 0
      BY <2>1, <3>1, VersionFacts DEF Behind
    <3>2. CASE cursor.since # 0
      <4>1. PICK i \in 1..published : Updated[i] = cursor.since
        BY <1>0, <3>2 DEF Sound, Handed
      <4>2. Modified[new] <= Updated[i] => new <= i
        BY <2>1, <2>2, <4>1, Behindhand
      <4>3. QED
        BY <2>1, <4>1, <4>2 DEF Behind
    <3>3. QED
      BY <3>1, <3>2
  <2>4. Current' = (Current \ {Replaces[new]}) \union {new}
    <3>1. \A j \in 1..published' : Replaces[j] # new
      BY <2>1, ReplacesAssumption, ConstantsAssumption
    <3>2. QED
      BY <2>1, <2>2, <3>1 DEF Current
  <2>5. Copy!Offer(new, Current \intersect {Replaces[new]})
    BY <2>1, <2>2, <2>3, <2>4 DEF Copy!Offer, Behind
  <2>6. Current \intersect {Replaces[new]} \in SUBSET Current
    OBVIOUS
  <2>7. QED
    BY <2>1, <2>5, <2>6 DEF Copy!Next
<1>3. ASSUME NEW r \in Runners, IngestPage(r)
      PROVE  [Copy!Next]_(Copy!copyVars)
  <2>1. answer[r].objs \subseteq 1..published
    BY DEF IInv, TypeInv, Visible
  <2>2. Copy!Copy(answer[r].objs)
    BY <1>3 DEF IngestPage, Unrendered, Copy!Copy, Behind, Current
  <2>3. QED
    BY <2>1, <2>2 DEF Copy!Next
<1>4. ASSUME NEW r \in Runners,
             Start(r) \/ RunStep(r) \/ Cancel(r) \/ Crash(r),
             ~IngestPage(r)
      PROVE  UNCHANGED <<published, stored, skipped>>
  BY <1>4
     DEF RunStep, Start, Cancel, Crash, StopEarly, Fetch, OnFetchError,
         OnEmptyPage, IngestFails, AdvanceAndContinue, AdvanceAndReturn,
         AdvanceFails, storeVars
<1>5. QED
  BY <1>1, <1>2, <1>3, <1>4 DEF Next, vars, storeVars

(* The poll implements the incremental copy, where an update replaces the  *)
(* version before it, for an instance whose marks are separate.            *)
THEOREM ImplementsCopy == MarksSeparate => (Spec => CopySpec)
<1> SUFFICES ASSUME MarksSeparate
             PROVE  Spec => CopySpec
  OBVIOUS
<1>1. Init => Copy!Init
  <2> SUFFICES ASSUME Init PROVE Copy!Init
    OBVIOUS
  <2>1. \A i \in Versions : ~(Modified[i] <= 0)
    BY VersionFacts
  <2>2. 1..published = {} /\ Current = {}
    BY DEF Init, Current
  <2>3. Behind(cursor.since) = {} /\ stored \union skipped = {}
    BY <2>1 DEF Init, Starting, Behind
  <2>4. QED
    BY <2>2, <2>3 DEF Copy!Init
<1>2. IInv /\ [Next]_vars => IInv'
  BY SafeStep
<1>3. IInv /\ IInv' /\ [Next]_vars => [Copy!Next]_(Copy!copyVars)
  BY CopyStep
<1>4. QED
  BY SafeInit, <1>1, <1>2, <1>3, PTL DEF Spec, CopySpec, Copy!Spec
=============================================================================
