---------------------------- MODULE DocumentProofs ----------------------------
(***************************************************************************)
(* Theorems about what an employer receives: the answers of a form, for    *)
(* any form, and the résumé that goes with it, for any number of versions  *)
(* generated and of résumés uploaded; what is written in it, for any       *)
(* profile and any reply of the model; and the vectors by which the facts  *)
(* of a profile are found, for any number of calls.                        *)
(***************************************************************************)
EXTENDS FormFilling, Documents, Tailoring, Embeddings, LeastElement

-----------------------------------------------------------------------------
(* FormFilling.                                                            *)

AnswerRow == [source : AnswerSources, sure : BOOLEAN]
PageRow == [error : {"none", "before", "after"}, success : BOOLEAN, received : BOOLEAN]
AttemptRow ==
  [stage : {"open", "discover", "fill", "answer", "upload", "locate", "click", "await", "verify", "done"},
   dry : BOOLEAN, seen : SUBSET Fields, left : SUBSET Fields, review : SUBSET Fields,
   answers : [Fields -> AnswerRow], attached : SUBSET Fields,
   blockers : SUBSET {"captcha", "unknown", "unsafe_content"}, clicked : BOOLEAN,
   baseline : {"none", "before", "after"},
   result : {"none", "needs_review", "failed", "confirmed", "raised"}]

FormShape ==
  /\ form \in [Fields -> Shapes] /\ page \in PageRow /\ armed \in BOOLEAN
  /\ attempt \in AttemptRow

LEMMA FormShapeInit == FormInit => FormShape
<1> SUFFICES ASSUME FormInit PROVE FormShape
  OBVIOUS
<1>1. NoPlan \in AnswerRow
  BY DEF NoPlan, Plan, AnswerRow, AnswerSources
<1> DEFINE blank == [f \in Fields |-> NoPlan]
<1>2. blank \in [Fields -> AnswerRow]
  BY <1>1
<1>3. attempt \in [stage : {"open"}, dry : BOOLEAN, seen : {{}}, left : {{}}, review : {{}},
                  answers : {blank}, attached : {{}}, blockers : {{}},
                  clicked : {FALSE}, baseline : {"none"}, result : {"none"}]
  BY DEF FormInit
<1> HIDE DEF blank
<1>4. attempt \in AttemptRow
  BY <1>2, <1>3 DEF AttemptRow
<1> QED
  BY <1>4 DEF FormInit, FormShape, PageRow

\* The answers a field may be given are plans, and one that may be written is what the
\* owner said of the field or an answer that cleared the threshold.
LEMMA UsableIsSettled ==
  ASSUME FormShape, NEW f \in Fields, NEW plan \in Answers(f)
  PROVE  /\ plan \in AnswerRow
         /\ Usable(plan) =>
              /\ plan.source # "blocked"
              /\ IF form[f].kind = "demographic" THEN plan.source \in {"explicit", "stated", "declined"}
                 ELSE plan.sure /\ plan.source # "none"
<1>1. plan \in AnswerRow
  <2>1. \A source \in AnswerSources, sure \in BOOLEAN : Plan(source, sure) \in AnswerRow
    BY DEF Plan, AnswerRow
  <2>2. plan \in {Plan("blocked", FALSE), Plan("explicit", TRUE), Plan("stated", TRUE),
                 Plan("declined", TRUE), Plan("profile", TRUE), Plan("model", TRUE),
                 Plan("model", FALSE), Plan("none", FALSE)}
    BY Zenon DEF Answers, Optional, FreeText, Demographic, Sure, NoPlan
  <2> QED
    BY <2>1, <2>2 DEF AnswerSources
<1>2. ASSUME form[f].kind = "demographic", Usable(plan)
      PROVE  plan.source \in {"explicit", "stated", "declined"}
  BY <1>2 DEF Answers, Optional, Demographic, Sure, Plan, NoPlan, Usable
<1> QED
  BY <1>1, <1>2 DEF Usable

LEMMA FormShapeStep == FormShape /\ [FormNext]_formVars => FormShape'
<1> SUFFICES ASSUME FormShape, [FormNext]_formVars PROVE FormShape'
  OBVIOUS
<1>0. form \in [Fields -> Shapes] /\ page \in PageRow /\ armed \in BOOLEAN /\ attempt \in AttemptRow
  BY DEF FormShape
<1>1. ASSUME NEW stage \in {"open", "discover", "fill", "answer", "upload", "locate", "click", "await",
                            "verify", "done"},
             GoesTo(stage)
      PROVE  attempt' \in AttemptRow
  BY <1>0, <1>1 DEF GoesTo, AttemptRow
<1>2. ASSUME NEW result \in {"none", "needs_review", "failed", "confirmed", "raised"}, Ends(result)
      PROVE  attempt' \in AttemptRow
  BY <1>0, <1>2 DEF Ends, AttemptRow
<1>3. ASSUME Untouched, attempt' \in AttemptRow PROVE FormShape'
  BY <1>0, <1>3 DEF Untouched, FormShape
<1>4. CASE OpenForm
  BY <1>1, <1>2, <1>3, <1>4 DEF OpenForm
<1>5. CASE ReadFields
  <2>1. ASSUME NEW seen \in SUBSET Fields,
               attempt' = [attempt EXCEPT !.stage = "fill", !.seen = seen]
        PROVE  attempt' \in AttemptRow
    BY <1>0, <2>1 DEF AttemptRow
  <2> QED
    BY <1>2, <1>3, <1>5, <2>1 DEF ReadFields
<1>6. CASE BeginFill
  <2>1. ASSUME NEW blockers \in SUBSET {"captcha", "unknown", "unsafe_content"},
               attempt' = [attempt EXCEPT !.stage = "done", !.blockers = blockers, !.result = "needs_review"]
        PROVE  attempt' \in AttemptRow
    BY <1>0, <2>1 DEF AttemptRow
  <2>2. ASSUME NEW left \in SUBSET Fields,
               attempt' = [attempt EXCEPT !.stage = "answer", !.left = left]
        PROVE  attempt' \in AttemptRow
    BY <1>0, <2>2 DEF AttemptRow
  <2>3. {f \in attempt.seen : form[f].kind # "file"} \in SUBSET Fields
    BY <1>0 DEF AttemptRow
  <2>4. \A b \in Blockers : b \in SUBSET {"captcha", "unknown", "unsafe_content"}
    BY DEF Blockers
  <2>5. CASE Ends("needs_review")
    BY <1>2, <1>3, <1>6, <2>5 DEF BeginFill
  <2> QED
    BY <1>3, <1>6, <2>1, <2>2, <2>3, <2>4, <2>5 DEF BeginFill
<1>7. CASE AllAnswered
  <2>1. ASSUME NEW left \in SUBSET Fields,
               attempt' = [attempt EXCEPT !.stage = "upload", !.left = left]
        PROVE  attempt' \in AttemptRow
    BY <1>0, <2>1 DEF AttemptRow
  <2>2. {f \in attempt.seen : form[f].kind = "file"} \in SUBSET Fields
    BY <1>0 DEF AttemptRow
  <2> QED
    BY <1>2, <1>3, <1>7, <2>1, <2>2 DEF AllAnswered
<1>8. CASE SubmitGate
  BY <1>1, <1>2, <1>3, <1>8 DEF SubmitGate
<1>9. CASE LocateSubmit
  <2>1. ASSUME attempt' = [attempt EXCEPT !.stage = "click", !.baseline = page.error]
        PROVE  attempt' \in AttemptRow
    BY <1>0, <2>1 DEF AttemptRow, PageRow
  <2> QED
    BY <1>2, <1>3, <1>9, <2>1 DEF LocateSubmit
<1>10. CASE ClickSubmit
  <2>1. ASSUME NEW accepted \in BOOLEAN, page' = [page EXCEPT !.received = accepted]
        PROVE  page' \in PageRow
    BY <1>0, <2>1 DEF PageRow
  <2>2. ASSUME attempt' = [attempt EXCEPT !.stage = "await", !.clicked = TRUE]
        PROVE  attempt' \in AttemptRow
    BY <1>0, <2>2 DEF AttemptRow
  <2>3. page' \in PageRow
    BY <1>10, <2>1 DEF ClickSubmit
  <2>4. attempt' \in AttemptRow
    BY <1>10, <1>2, <2>2 DEF ClickSubmit
  <2> QED
    BY <1>0, <1>10, <2>3, <2>4 DEF ClickSubmit, FormShape
<1>11. CASE AwaitOutcome
  BY <1>1, <1>3, <1>11 DEF AwaitOutcome
<1>12. CASE Verify
  BY <1>2, <1>3, <1>12 DEF Verify, Verdict
<1>13. ASSUME NEW f \in Fields, AnswerField(f) PROVE FormShape'
  <2>1. PICK plan \in Answers(f), written \in Writes :
         LET kept == Usable(plan) /\ written
         IN  attempt' = [attempt EXCEPT
             !.left = @ \ {f},
             !.blockers = IF plan.source = "blocked" THEN @ \cup {"unsafe_content"} ELSE @,
             !.answers[f] = IF kept THEN plan ELSE @,
             !.review = IF kept THEN @ ELSE @ \cup {f}]
    BY <1>13 DEF AnswerField
  <2>2. plan \in AnswerRow
    BY <1>13, UsableIsSettled
  <2> DEFINE kept == Usable(plan) /\ written
             answers == [attempt.answers EXCEPT ![f] = IF kept THEN plan ELSE @]
             review == IF kept THEN attempt.review ELSE attempt.review \cup {f}
             blockers == IF plan.source = "blocked" THEN attempt.blockers \cup {"unsafe_content"}
                         ELSE attempt.blockers
             left == attempt.left \ {f}
  <2>3. answers \in [Fields -> AnswerRow]
    BY <1>0, <1>13, <2>2 DEF AttemptRow
  <2>4. /\ review \in SUBSET Fields /\ left \in SUBSET Fields
        /\ blockers \in SUBSET {"captcha", "unknown", "unsafe_content"}
    BY <1>0, <1>13 DEF AttemptRow
  <2>5. attempt' = [attempt EXCEPT !.left = left, !.blockers = blockers, !.answers = answers,
                                   !.review = review]
    BY <1>0, <2>1 DEF AttemptRow
  <2> HIDE DEF answers, review, blockers, left
  <2>6. attempt' \in AttemptRow
    BY <1>0, <2>3, <2>4, <2>5 DEF AttemptRow
  <2> QED
    BY <1>3, <1>13, <2>6 DEF AnswerField
<1>14. ASSUME NEW f \in Fields, AttachFile(f) PROVE FormShape'
  <2>1. ASSUME attempt' = [attempt EXCEPT !.left = @ \ {f}, !.attached = @ \cup {f}]
        PROVE  attempt' \in AttemptRow
    BY <1>0, <2>1 DEF AttemptRow
  <2>2. ASSUME attempt' = [attempt EXCEPT !.left = @ \ {f}]
        PROVE  attempt' \in AttemptRow
    BY <1>0, <2>2 DEF AttemptRow
  <2>3. attempt' \in AttemptRow
    BY <1>2, <1>14, <2>1, <2>2 DEF AttachFile
  <2> QED
    BY <1>3, <1>14, <2>3 DEF AttachFile
<1>15. CASE PageAnswers
  <2>1. ASSUME NEW error \in {"none", "before", "after"},
               page' = [page EXCEPT !.success = TRUE, !.error = error]
        PROVE  page' \in PageRow
    BY <1>0, <2>1 DEF PageRow
  <2>2. ASSUME page' = [page EXCEPT !.error = "after"]
        PROVE  page' \in PageRow
    BY <1>0, <2>2 DEF PageRow
  <2>3. page.error \in {"none", "before", "after"}
    BY <1>0 DEF PageRow
  <2>4. page' \in PageRow
    BY <1>15, <2>1, <2>2, <2>3 DEF PageAnswers
  <2> QED
    BY <1>0, <1>15, <2>4 DEF PageAnswers, FormShape
<1>16. CASE SettingsChange
  BY <1>0, <1>16 DEF SettingsChange, FormShape
<1>17. CASE AttemptRaises
  BY <1>2, <1>3, <1>17 DEF AttemptRaises
<1>18. CASE UNCHANGED formVars
  BY <1>0, <1>18 DEF formVars, FormShape
<1> QED
  BY <1>4, <1>5, <1>6, <1>7, <1>8, <1>9, <1>10, <1>11, <1>12, <1>13, <1>14, <1>15, <1>16, <1>17, <1>18
  DEF FormNext, FormStep

\* Every variable of an attempt has its type, whatever the page does.
THEOREM FormTypes == FormSpec => []FormTypeOK
<1>1. FormShape => FormTypeOK
  BY DEF FormShape, FormTypeOK, PageRow, AttemptRow, AnswerRow
<1> QED
  BY <1>1, FormShapeInit, FormShapeStep, PTL DEF FormSpec

-----------------------------------------------------------------------------
(* What each stage of an attempt has made sure of.                         *)

Filling == {"answer", "upload", "locate", "click", "await", "verify"}
PastAnswers == {"upload", "locate", "click", "await", "verify"}
PastGate == {"locate", "click", "await", "verify"}

\* A field that was dealt with holds an answer, or is down for review.
Dealt(f) == form[f].kind # "file" => Settled(f) \/ f \in attempt.review
Attached(f) == form[f].kind = "file" => (form[f].required => f \in attempt.attached)

EssayInv == attempt.stage \in Filling => Cardinality(Essays) <= MaxEssays
ReviewInv ==
  /\ attempt.stage \in {"open", "discover", "fill"} => attempt.blockers = {}
  /\ attempt.stage = "answer" => attempt.blockers = {} \/ attempt.review # {}
  /\ attempt.stage \in PastAnswers => attempt.blockers = {} /\ attempt.review = {}
AnswerInv ==
  /\ attempt.stage = "answer" => \A f \in attempt.seen \ attempt.left : Dealt(f)
  /\ attempt.stage \in PastAnswers => \A f \in attempt.seen : Dealt(f)
AttachInv ==
  /\ attempt.stage = "upload" => \A f \in attempt.seen \ attempt.left : Attached(f)
  /\ attempt.stage \in PastGate => \A f \in attempt.seen : Attached(f)
GateInv == attempt.stage \in PastGate => ~attempt.dry
SentInv == page.received => attempt.stage \in {"await", "verify", "done"} /\ OnlySureAnswersAreSent

FormInv == EssayInv /\ ReviewInv /\ AnswerInv /\ AttachInv /\ GateInv /\ SentInv

\* Before the click everything that may stop a submission has been looked at.
LEMMA ReadyToSend ==
  ASSUME FormInv, attempt.stage \in PastGate
  PROVE  /\ ~attempt.dry /\ attempt.blockers = {} /\ attempt.review = {}
         /\ Cardinality(Essays) <= MaxEssays
         /\ \A f \in attempt.seen :
              IF form[f].kind = "file" THEN form[f].required => f \in attempt.attached ELSE Settled(f)
<1>1. /\ ~attempt.dry /\ attempt.blockers = {} /\ attempt.review = {}
      /\ Cardinality(Essays) <= MaxEssays
  BY DEF FormInv, GateInv, ReviewInv, EssayInv, PastGate, PastAnswers, Filling
<1>2. \A f \in attempt.seen : Dealt(f) /\ Attached(f)
  BY DEF FormInv, AnswerInv, AttachInv, PastGate, PastAnswers
<1> QED
  BY <1>1, <1>2 DEF Dealt, Attached

\* Moving on without touching what was gathered keeps what was made sure of.
Gathered == <<attempt.dry, attempt.seen, attempt.review, attempt.answers, attempt.attached,
              attempt.blockers>>
LEMMA GatheredKeeps ==
  ASSUME FormInv, UNCHANGED form, UNCHANGED Gathered,
         attempt'.stage \in Filling => attempt.stage \in Filling,
         attempt'.stage \in {"open", "discover", "fill"} => attempt.stage \in {"open", "discover", "fill"},
         attempt'.stage = "answer" => attempt.stage = "answer" /\ attempt'.left = attempt.left,
         attempt'.stage \in PastAnswers => attempt.stage \in PastAnswers,
         attempt'.stage = "upload" => attempt.stage = "upload" /\ attempt'.left = attempt.left,
         attempt'.stage \in PastGate => attempt.stage \in PastGate,
         page'.received => page.received /\ attempt'.stage \in {"await", "verify", "done"}
  PROVE  FormInv'
<1>0. /\ attempt'.dry = attempt.dry /\ attempt'.seen = attempt.seen /\ attempt'.review = attempt.review
      /\ attempt'.answers = attempt.answers /\ attempt'.attached = attempt.attached
      /\ attempt'.blockers = attempt.blockers /\ form' = form
  BY DEF Gathered
<1>1. Essays' = Essays /\ \A f : (Settled(f) <=> Settled(f)') /\ (Dealt(f) <=> Dealt(f)')
                                 /\ (Attached(f) <=> Attached(f)')
  BY <1>0 DEF Essays, Settled, Dealt, Attached
<1>2. EssayInv' /\ ReviewInv' /\ GateInv'
  BY <1>0, <1>1 DEF FormInv, EssayInv, ReviewInv, GateInv
<1>3. AnswerInv' /\ AttachInv'
  BY <1>0, <1>1 DEF FormInv, AnswerInv, AttachInv
<1>4. SentInv'
  BY <1>0, <1>1 DEF FormInv, SentInv, OnlySureAnswersAreSent
<1> QED
  BY <1>2, <1>3, <1>4 DEF FormInv

LEMMA FormInvInit == FormInit => FormInv
<1> SUFFICES ASSUME FormInit PROVE FormInv
  OBVIOUS
<1>1. attempt.stage = "open" /\ attempt.blockers = {} /\ page.received = FALSE
  BY DEF FormInit
<1> QED
  BY <1>1 DEF FormInv, EssayInv, ReviewInv, AnswerInv, AttachInv, GateInv, SentInv, Filling,
              PastAnswers, PastGate

LEMMA FormInvStep == FormShape /\ FormInv /\ [FormNext]_formVars => FormInv'
<1> SUFFICES ASSUME FormShape, FormInv, [FormNext]_formVars PROVE FormInv'
  OBVIOUS
<1> USE DEF Filling, PastAnswers, PastGate
<1>0. form \in [Fields -> Shapes] /\ page \in PageRow /\ attempt \in AttemptRow
  BY DEF FormShape
<1>a. ASSUME NEW result, Ends(result)
      PROVE  attempt'.stage = "done" /\ UNCHANGED Gathered
  BY <1>0, <1>a DEF Ends, AttemptRow, Gathered
<1>b. ASSUME NEW stage, GoesTo(stage)
      PROVE  attempt'.stage = stage /\ attempt'.left = attempt.left /\ UNCHANGED Gathered
  BY <1>0, <1>b DEF GoesTo, AttemptRow, Gathered
<1>c. ASSUME Untouched, attempt'.stage = "done", UNCHANGED Gathered,
             page.received => attempt.stage \in {"await", "verify", "done"}
      PROVE  FormInv'
  BY <1>c, GatheredKeeps DEF Untouched
<1>d. page.received => attempt.stage \in {"await", "verify", "done"}
  BY DEF FormInv, SentInv
<1>e. ASSUME Untouched, attempt.stage \notin {"await", "verify", "done"}
      PROVE  SentInv'
  BY <1>d, <1>e DEF Untouched, SentInv
<1>4. CASE OpenForm
  <2>1. CASE Ends("raised")
    BY <1>4, <1>a, <1>c, <1>d, <2>1 DEF OpenForm
  <2>2. CASE GoesTo("discover")
    BY <1>4, <1>b, <1>d, <2>2, GatheredKeeps DEF OpenForm, AtStage, Untouched
  <2> QED
    BY <1>4, <2>1, <2>2 DEF OpenForm
<1>5. CASE ReadFields
  <2>1. CASE Ends("needs_review")
    BY <1>5, <1>a, <1>c, <1>d, <2>1 DEF ReadFields
  <2>2. CASE ~Ends("needs_review")
    <3>1. PICK seen : attempt' = [attempt EXCEPT !.stage = "fill", !.seen = seen]
      BY <1>5, <2>2 DEF ReadFields
    <3>2. attempt'.stage = "fill" /\ attempt'.blockers = attempt.blockers
      BY <1>0, <3>1 DEF AttemptRow
    <3>3. attempt.blockers = {} /\ SentInv'
      BY <1>5, <1>e DEF ReadFields, AtStage, FormInv, ReviewInv
    <3> QED
      BY <3>2, <3>3 DEF FormInv, EssayInv, ReviewInv, AnswerInv, AttachInv, GateInv
  <2> QED
    BY <2>1, <2>2
<1>6. CASE BeginFill
  <2>1. CASE Ends("needs_review")
    BY <1>6, <1>a, <1>c, <1>d, <2>1 DEF BeginFill
  <2>2. CASE ~Ends("needs_review")
    <3>1. /\ Cardinality(Essays) <= MaxEssays /\ attempt.stage = "fill" /\ Untouched
          /\ \E blockers \in Blockers :
             IF blockers # {} THEN attempt' = [attempt EXCEPT !.stage = "done", !.blockers = blockers,
                                                              !.result = "needs_review"]
             ELSE attempt' = [attempt EXCEPT !.stage = "answer",
                    !.left = {f \in attempt.seen : form[f].kind # "file"}]
      BY <1>6, <2>2 DEF BeginFill, AtStage
    <3>2. SentInv'
      BY <1>e, <3>1
    <3>3. CASE \E blockers : attempt' = [attempt EXCEPT !.stage = "done", !.blockers = blockers,
                                                              !.result = "needs_review"]
      <4>1. attempt'.stage = "done"
        BY <1>0, <3>3 DEF AttemptRow
      <4> QED
        BY <3>2, <4>1 DEF FormInv, EssayInv, ReviewInv, AnswerInv, AttachInv, GateInv
    <3>4. CASE attempt' = [attempt EXCEPT !.stage = "answer",
                    !.left = {f \in attempt.seen : form[f].kind # "file"}]
      <4>1. /\ attempt'.stage = "answer" /\ attempt'.seen = attempt.seen
            /\ attempt'.left = {f \in attempt.seen : form[f].kind # "file"}
            /\ attempt'.blockers = attempt.blockers /\ form' = form
        BY <1>0, <3>1, <3>4 DEF AttemptRow, Untouched
      <4>2. Essays' = Essays
        BY <4>1 DEF Essays
      <4>3. \A f \in attempt'.seen \ attempt'.left : Dealt(f)'
        BY <4>1 DEF Dealt
      <4>4. attempt.blockers = {}
        BY <3>1 DEF FormInv, ReviewInv
      <4> QED
        BY <3>1, <3>2, <4>1, <4>2, <4>3, <4>4
        DEF FormInv, EssayInv, ReviewInv, AnswerInv, AttachInv, GateInv
    <3> QED
      BY <3>1, <3>3, <3>4
  <2> QED
    BY <2>1, <2>2
<1>7. CASE AllAnswered
  <2>1. CASE Ends("needs_review")
    BY <1>7, <1>a, <1>c, <1>d, <2>1 DEF AllAnswered
  <2>2. CASE ~Ends("needs_review")
    <3>1. /\ attempt.stage = "answer" /\ attempt.left = {} /\ attempt.review = {} /\ Untouched
          /\ attempt' = [attempt EXCEPT !.stage = "upload",
                        !.left = {f \in attempt.seen : form[f].kind = "file"}]
      BY <1>7, <2>2 DEF AllAnswered, AtStage
    <3>2. /\ attempt'.stage = "upload" /\ attempt'.seen = attempt.seen
          /\ attempt'.left = {f \in attempt.seen : form[f].kind = "file"}
          /\ attempt'.blockers = attempt.blockers /\ attempt'.review = attempt.review
          /\ attempt'.answers = attempt.answers /\ form' = form
      BY <1>0, <3>1 DEF AttemptRow, Untouched
    <3>3. Essays' = Essays /\ \A f : Dealt(f) => Dealt(f)'
      BY <3>2 DEF Essays, Dealt, Settled
    <3>4. attempt.blockers = {} /\ \A f \in attempt.seen : Dealt(f)
      BY <3>1 DEF FormInv, ReviewInv, AnswerInv
    <3>5. \A f \in attempt'.seen \ attempt'.left : Attached(f)'
      BY <3>2 DEF Attached
    <3>6. SentInv'
      BY <1>e, <3>1
    <3>7. AnswerInv' /\ AttachInv'
      BY <3>2, <3>3, <3>4, <3>5 DEF AnswerInv, AttachInv
    <3> QED
      BY <3>1, <3>2, <3>3, <3>4, <3>6, <3>7 DEF FormInv, EssayInv, ReviewInv, GateInv
  <2> QED
    BY <2>1, <2>2
<1>8. CASE SubmitGate
  <2>1. CASE Ends("needs_review")
    BY <1>8, <1>a, <1>c, <1>d, <2>1 DEF SubmitGate
  <2>2. CASE ~Ends("needs_review")
    <3>1. /\ attempt.stage = "upload" /\ attempt.left = {} /\ ~attempt.dry /\ Untouched
          /\ GoesTo("locate")
      BY <1>8, <2>2 DEF SubmitGate, AtStage
    <3>2. /\ attempt'.stage = "locate" /\ attempt'.seen = attempt.seen /\ attempt'.dry = attempt.dry
          /\ attempt'.blockers = attempt.blockers /\ attempt'.review = attempt.review
          /\ attempt'.answers = attempt.answers /\ attempt'.attached = attempt.attached /\ form' = form
      BY <1>b, <3>1 DEF Gathered, Untouched
    <3>3. Essays' = Essays /\ \A f : (Dealt(f) => Dealt(f)') /\ (Attached(f) => Attached(f)')
      BY <3>2 DEF Essays, Dealt, Settled, Attached
    <3>4. \A f \in attempt.seen : Dealt(f) /\ Attached(f)
      BY <3>1 DEF FormInv, AnswerInv, AttachInv
    <3>5. AnswerInv' /\ AttachInv'
      BY <3>2, <3>3, <3>4 DEF AnswerInv, AttachInv
    <3>6. SentInv'
      BY <1>e, <3>1
    <3> QED
      BY <3>1, <3>2, <3>3, <3>5, <3>6 DEF FormInv, EssayInv, ReviewInv, GateInv
  <2> QED
    BY <2>1, <2>2
<1>9. CASE LocateSubmit
  <2>1. CASE Ends("needs_review")
    BY <1>9, <1>a, <1>c, <1>d, <2>1 DEF LocateSubmit
  <2>2. CASE ~Ends("needs_review")
    <3>1. /\ attempt.stage = "locate" /\ Untouched
          /\ attempt' = [attempt EXCEPT !.stage = "click", !.baseline = page.error]
      BY <1>9, <2>2 DEF LocateSubmit, AtStage
    <3>2. attempt'.stage = "click" /\ UNCHANGED Gathered
      BY <1>0, <3>1 DEF AttemptRow, Gathered
    <3> QED
      BY <1>d, <3>1, <3>2, GatheredKeeps DEF Untouched
  <2> QED
    BY <2>1, <2>2
<1>10. CASE ClickSubmit
  <2>1. attempt.stage = "click" /\ form' = form
    BY <1>10 DEF ClickSubmit, AtStage
  <2>2. attempt'.stage \in {"await", "done"} /\ UNCHANGED Gathered
    <3>1. ASSUME attempt' = [attempt EXCEPT !.stage = "await", !.clicked = TRUE]
          PROVE  attempt'.stage = "await" /\ UNCHANGED Gathered
      BY <1>0, <3>1 DEF AttemptRow, Gathered
    <3> QED
      BY <1>10, <1>a, <3>1 DEF ClickSubmit
  <2>3. /\ attempt'.dry = attempt.dry /\ attempt'.seen = attempt.seen /\ attempt'.review = attempt.review
        /\ attempt'.answers = attempt.answers /\ attempt'.attached = attempt.attached
        /\ attempt'.blockers = attempt.blockers
    BY <2>2 DEF Gathered
  <2>4. Essays' = Essays /\ \A f : (Settled(f) <=> Settled(f)') /\ (Dealt(f) <=> Dealt(f)')
                                 /\ (Attached(f) <=> Attached(f)')
    BY <2>1, <2>3 DEF Essays, Settled, Dealt, Attached
  <2>5. OnlySureAnswersAreSent'
    <3> HIDE DEF Filling, PastAnswers, PastGate
    <3>1. attempt.stage \in PastGate
      BY <2>1 DEF PastGate
    <3> QED
      BY <2>1, <2>3, <2>4, <3>1, ReadyToSend DEF OnlySureAnswersAreSent
  <2>6. SentInv'
    BY <2>2, <2>5 DEF SentInv
  <2>7. AnswerInv' /\ AttachInv'
    BY <2>1, <2>2, <2>3, <2>4 DEF FormInv, AnswerInv, AttachInv
  <2> QED
    BY <2>1, <2>2, <2>3, <2>4, <2>6, <2>7 DEF FormInv, EssayInv, ReviewInv, GateInv
<1>11. CASE AwaitOutcome
  BY <1>11, <1>b, <1>d, GatheredKeeps DEF AwaitOutcome, AtStage, Untouched
<1>12. CASE Verify
  BY <1>12, <1>a, <1>c, <1>d DEF Verify
<1>13. ASSUME NEW f \in Fields, AnswerField(f) PROVE FormInv'
  <2>1. PICK plan \in Answers(f), written \in Writes :
         LET kept == Usable(plan) /\ written
         IN  attempt' = [attempt EXCEPT
             !.left = @ \ {f},
             !.blockers = IF plan.source = "blocked" THEN @ \cup {"unsafe_content"} ELSE @,
             !.answers[f] = IF kept THEN plan ELSE @,
             !.review = IF kept THEN @ ELSE @ \cup {f}]
    BY <1>13 DEF AnswerField
  <2> DEFINE kept == Usable(plan) /\ written
  <2>2. /\ attempt.stage = "answer" /\ Untouched /\ form' = form
        /\ attempt'.stage = "answer" /\ attempt'.left = attempt.left \ {f}
        /\ attempt'.seen = attempt.seen
        /\ attempt'.blockers = IF plan.source = "blocked" THEN attempt.blockers \cup {"unsafe_content"}
                               ELSE attempt.blockers
        /\ attempt'.review = IF kept THEN attempt.review ELSE attempt.review \cup {f}
        /\ attempt'.answers = [attempt.answers EXCEPT ![f] = IF kept THEN plan ELSE @]
    BY <1>0, <1>13, <2>1 DEF AnswerField, AtStage, Untouched, AttemptRow
  <2>3. kept => /\ plan.source # "blocked"
                /\ IF form[f].kind = "demographic" THEN plan.source \in {"explicit", "stated", "declined"}
                   ELSE plan.sure /\ plan.source # "none"
    BY <1>13, UsableIsSettled
  <2>4. attempt.answers \in [Fields -> AnswerRow] /\ attempt.seen \subseteq Fields
    BY <1>0 DEF AttemptRow
  <2> HIDE DEF kept
  <2>5. ASSUME NEW g \in attempt.seen, g # f, Dealt(g) PROVE Dealt(g)'
    <3>1. attempt'.answers[g] = attempt.answers[g]
      BY <2>2, <2>4, <2>5
    <3>2. g \in attempt.review => g \in attempt'.review
      BY <2>2
    <3> QED
      BY <2>2, <2>5, <3>1, <3>2 DEF Dealt, Settled
  <2>6. Dealt(f)'
    <3>1. CASE kept
      <4>1. attempt'.answers[f] = plan
        BY <1>13, <2>2, <2>4, <3>1
      <4> QED
        BY <2>2, <2>3, <3>1, <4>1 DEF Dealt, Settled
    <3>2. CASE ~kept
      BY <2>2, <3>2 DEF Dealt
    <3> QED
      BY <3>1, <3>2
  <2>7. \A g \in attempt'.seen \ attempt'.left : Dealt(g)'
    <3>1. \A g \in attempt.seen \ attempt.left : Dealt(g)
      BY <2>2 DEF FormInv, AnswerInv
    <3> QED
      BY <2>2, <2>5, <2>6, <3>1
  <2>8. attempt'.blockers = {} \/ attempt'.review # {}
    BY <2>2, <2>3 DEF FormInv, ReviewInv
  <2>9. Essays' = Essays
    BY <2>2 DEF Essays
  <2>10. SentInv'
    BY <1>e, <2>2
  <2> QED
    BY <2>2, <2>7, <2>8, <2>9, <2>10 DEF FormInv, EssayInv, ReviewInv, AnswerInv, AttachInv, GateInv
<1>14. ASSUME NEW f \in Fields, AttachFile(f) PROVE FormInv'
  <2>1. CASE Ends("needs_review")
    BY <1>14, <1>a, <1>c, <1>d, <2>1 DEF AttachFile
  <2>2. CASE ~Ends("needs_review")
    <3>1. /\ attempt.stage = "upload" /\ Untouched /\ form' = form
          /\ \/ attempt' = [attempt EXCEPT !.left = @ \ {f}, !.attached = @ \cup {f}]
             \/ ~form[f].required /\ attempt' = [attempt EXCEPT !.left = @ \ {f}]
      BY <1>14, <2>2 DEF AttachFile, AtStage, Untouched
    <3>2. /\ attempt'.stage = "upload" /\ attempt'.left = attempt.left \ {f}
          /\ attempt'.seen = attempt.seen /\ attempt'.dry = attempt.dry
          /\ attempt'.blockers = attempt.blockers /\ attempt'.review = attempt.review
          /\ attempt'.answers = attempt.answers /\ attempt.attached \subseteq attempt'.attached
          /\ f \in attempt'.attached \/ ~form[f].required
      <4>1. CASE attempt' = [attempt EXCEPT !.left = @ \ {f}, !.attached = @ \cup {f}]
        BY <1>0, <3>1, <4>1 DEF AttemptRow
      <4>2. CASE ~form[f].required /\ attempt' = [attempt EXCEPT !.left = @ \ {f}]
        BY <1>0, <3>1, <4>2 DEF AttemptRow
      <4> QED
        BY <3>1, <4>1, <4>2
    <3>3. Essays' = Essays /\ \A g : (Dealt(g) => Dealt(g)') /\ (Attached(g) => Attached(g)')
      BY <3>1, <3>2 DEF Essays, Dealt, Settled, Attached
    <3>4. Attached(f)'
      BY <3>1, <3>2 DEF Attached
    <3>5. AnswerInv' /\ AttachInv'
      <4>1. \A g \in attempt.seen : Dealt(g)
        BY <3>1 DEF FormInv, AnswerInv
      <4>2. \A g \in attempt.seen \ attempt.left : Attached(g)
        BY <3>1 DEF FormInv, AttachInv
      <4> QED
        BY <3>2, <3>3, <3>4, <4>1, <4>2 DEF AnswerInv, AttachInv
    <3>6. SentInv'
      BY <1>e, <3>1
    <3> QED
      BY <3>1, <3>2, <3>3, <3>5, <3>6 DEF FormInv, EssayInv, ReviewInv, GateInv
  <2> QED
    BY <2>1, <2>2
<1>15. CASE PageAnswers
  <2>1. page'.received = page.received
    BY <1>0, <1>15 DEF PageAnswers, PageRow
  <2> QED
    BY <1>d, <1>15, <2>1, GatheredKeeps DEF PageAnswers, Gathered
<1>16. CASE SettingsChange
  BY <1>d, <1>16, GatheredKeeps DEF SettingsChange, Gathered
<1>17. CASE AttemptRaises
  BY <1>17, <1>a, <1>c, <1>d DEF AttemptRaises
<1>18. CASE UNCHANGED formVars
  BY <1>d, <1>18, GatheredKeeps DEF formVars, Gathered
<1> QED
  BY <1>4, <1>5, <1>6, <1>7, <1>8, <1>9, <1>10, <1>11, <1>12, <1>13, <1>14, <1>15, <1>16, <1>17, <1>18
  DEF FormNext, FormStep

\* If the employer has the application then the attempt was no rehearsal, no blocker had
\* been met, no field that was read was left to a person, demographic answers were stated
\* or declined and required documents that were seen are attached: for any form, any bound
\* on essays and any moment at which the page answers, settings change or the browser dies
\* (autofill.py, fill and submit).
THEOREM AnswersAreSure == FormSpec => []OnlySureAnswersAreSent
<1>1. FormInv => OnlySureAnswersAreSent
  BY DEF FormInv, SentInv, OnlySureAnswersAreSent
<1> QED
  BY <1>1, FormShapeInit, FormShapeStep, FormInvInit, FormInvStep, PTL DEF FormSpec

-----------------------------------------------------------------------------
(* Documents.                                                              *)

Uploads == DOMAIN Offered
Statuses == {"none", "draft", "preparing", "ready", "submitting", "submitted", "needs_review", "failed"}
DocRow == [status : Statuses, version : 0..MaxVersions, letter : 0..MaxVersions,
           upload : 0..Len(Offered)]
DeskSteps == {"idle", "render", "letter", "finish", "choose", "cover", "claim", "send"}
DeskRow == [at : DeskSteps, row : DocRow, cv : Files \cup {NoFile}, cover : Files \cup {NoFile}]

DocShape ==
  /\ folder \in [Files -> Contents]
  /\ versions \in Seq(Formats) /\ letters \in Seq(Formats)
  /\ paper \in DocRow /\ desk \in DeskRow
  /\ uploads \in Seq(BOOLEAN) /\ Len(uploads) <= Len(Offered)
  /\ prefers \in {"generated", "master"} /\ torn \in BOOLEAN
  /\ desk.at = "idle" => desk = Off
  /\ Len(versions) <= MaxVersions
  /\ desk.at = "render" => Len(versions) < MaxVersions
  /\ Len(letters) <= Len(versions)
  /\ desk.at = "letter" => Len(letters) < Len(versions)
  /\ paper.version <= Len(versions) /\ desk.row.version <= Len(versions)

LEMMA DocNumbers ==
  /\ MaxVersions \in Nat /\ Len(Offered) \in Nat /\ Uploads = 1..Len(Offered)
  /\ \A u \in Uploads : Offered[u].name \in Files /\ Offered[u].name # NoFile
  /\ \A f \in Formats : /\ ResumeFile[f] \in Files /\ LetterFile[f] \in Files
                        /\ ResumeFile[f] # NoFile /\ LetterFile[f] # NoFile
  /\ \A f, g \in Formats : ResumeFile[f] # LetterFile[g] /\ (ResumeFile[f] = ResumeFile[g] => f = g)
<1>1. MaxVersions \in Nat /\ Len(Offered) \in Nat /\ Uploads = 1..Len(Offered)
  BY DocumentsAssumption DEF Uploads
<1>2. \A u \in Uploads : Offered[u].name \in Files /\ Offered[u].name # NoFile
  BY DocumentsAssumption DEF Uploads, Files, NoFile
<1>3. \A f \in Formats : /\ ResumeFile[f] \in Files /\ LetterFile[f] \in Files
                        /\ ResumeFile[f] # NoFile /\ LetterFile[f] # NoFile
  <2>1. \A f \in Formats : ResumeFile[f] \in Files /\ LetterFile[f] \in Files
    BY DEF Files
  <2>2. \A f \in Formats : ResumeFile[f] # NoFile /\ LetterFile[f] # NoFile
    BY DEF Formats, ResumeFile, LetterFile, NoFile
  <2> QED
    BY <2>1, <2>2
<1>4. \A f, g \in Formats : ResumeFile[f] # LetterFile[g] /\ (ResumeFile[f] = ResumeFile[g] => f = g)
  BY DEF Formats, ResumeFile, LetterFile
<1> QED
  BY <1>1, <1>2, <1>3, <1>4

\* What a file may contain.
LEMMA ContentTypes ==
  /\ Nothing \in Contents
  /\ \A n \in 0..MaxVersions : Resume(n) \in Contents /\ Letter(n) \in Contents
  /\ \A u \in Uploads : Copy(u) \in Contents
<1>1. 0 \in 0 .. MaxVersions + Len(Offered)
  BY DocNumbers
<1>2. \A n \in 0..MaxVersions : n \in 0 .. MaxVersions + Len(Offered)
  BY DocNumbers
<1>3. \A u \in Uploads : u \in 0 .. MaxVersions + Len(Offered)
  BY DocNumbers
<1> QED
  BY <1>1, <1>2, <1>3 DEF Nothing, Resume, Letter, Copy, Contents

\* The newest master résumé is one that was uploaded.
LEMMA MasterIsLive ==
  ASSUME DocShape, Master # 0
  PROVE  Master \in DOMAIN uploads /\ Master \in Uploads
<1>1. Live \subseteq 0..Len(uploads) /\ Live # {}
  BY DEF DocShape, Live, Master
<1>2. Len(uploads) \in Nat
  BY DEF DocShape
<1>3. \E u \in Live : \A v \in Live : v <= u
  BY <1>1, <1>2, LargestIn
<1>4. Master \in Live
  BY <1>1, <1>3 DEF Master
<1> QED
  BY <1>4, DocNumbers DEF Live, DocShape

LEMMA BlankRow == Off.row \in DocRow /\ Off \in DeskRow
<1>1. 0 \in 0..MaxVersions /\ 0 \in 0..Len(Offered)
  BY DocNumbers
<1> DEFINE row == [status |-> "none", version |-> 0, letter |-> 0, upload |-> 0]
<1>2. row \in DocRow
  BY <1>1 DEF DocRow, Statuses
<1>3. Off = [at |-> "idle", row |-> row, cv |-> NoFile, cover |-> NoFile]
  BY DEF Off
<1> HIDE DEF row
<1> QED
  BY <1>2, <1>3 DEF DeskRow, DeskSteps

LEMMA DocShapeInit == DocInit => DocShape
<1> SUFFICES ASSUME DocInit PROVE DocShape
  OBVIOUS
<1>1. EmptyFolder \in [Files -> Contents]
  BY ContentTypes DEF EmptyFolder
<1>2. Off.at = "idle" /\ Off.row.version = 0
  BY DEF Off
<1>3. paper \in DocRow /\ paper.version = 0
  <2>1. 0 \in 0..MaxVersions /\ 0 \in 0..Len(Offered)
    BY DocNumbers
  <2> QED
    BY <2>1 DEF DocInit, DocRow, Statuses
<1>4. /\ versions \in Seq(Formats) /\ letters \in Seq(Formats) /\ uploads \in Seq(BOOLEAN)
      /\ Len(versions) = 0 /\ Len(letters) = 0 /\ Len(uploads) = 0
  BY DEF DocInit
<1>5. desk = Off /\ desk \in DeskRow /\ folder \in [Files -> Contents]
      /\ prefers \in {"generated", "master"} /\ torn \in BOOLEAN
  BY <1>1, BlankRow DEF DocInit
<1> QED
  BY <1>2, <1>3, <1>4, <1>5, DocNumbers DEF DocShape

\* Committing ends the task at the desk.
LEMMA CommitsKeepsShape ==
  ASSUME DocShape, NEW status \in Statuses, Commits(status)
  PROVE  /\ paper' \in DocRow /\ desk' = Off /\ desk' \in DeskRow
         /\ paper'.version = desk.row.version /\ desk'.row.version = 0 /\ desk'.at = "idle"
         /\ paper'.upload = desk.row.upload /\ paper'.status = status
<1>1. desk.row \in DocRow
  BY DEF DocShape, DeskRow
<1>2. paper' = [desk.row EXCEPT !.status = status] /\ desk' = Off
  BY DEF Commits
<1>3. /\ paper' \in DocRow /\ paper'.version = desk.row.version /\ paper'.upload = desk.row.upload
      /\ paper'.status = status
  BY <1>1, <1>2 DEF DocRow
<1>4. Off.row.version = 0 /\ Off.at = "idle"
  BY DEF Off
<1> QED
  BY <1>2, <1>3, <1>4, BlankRow

LEMMA DocShapeStep == DocShape /\ [DocNext]_docVars => DocShape'
<1> SUFFICES ASSUME DocShape, [DocNext]_docVars PROVE DocShape'
  OBVIOUS
<1>0. /\ folder \in [Files -> Contents] /\ versions \in Seq(Formats) /\ letters \in Seq(Formats)
      /\ paper \in DocRow /\ desk \in DeskRow /\ desk.row \in DocRow
      /\ uploads \in Seq(BOOLEAN) /\ Len(uploads) <= Len(Offered)
      /\ prefers \in {"generated", "master"} /\ torn \in BOOLEAN
      /\ Len(versions) \in Nat /\ Len(letters) \in Nat /\ MaxVersions \in Nat
  BY DocNumbers DEF DocShape, DeskRow
\* Where the files are all that changes besides the desk.
<1>a. ASSUME NEW file \in Files, NEW content \in Contents,
             folder' = [folder EXCEPT ![file] = content]
      PROVE  folder' \in [Files -> Contents]
  BY <1>0, <1>a
<1>b. ASSUME NEW status \in Statuses, Commits(status), UNCHANGED <<versions, letters, uploads, prefers>>,
             folder' \in [Files -> Contents], torn' \in BOOLEAN
      PROVE  DocShape'
  <2>1. /\ paper' \in DocRow /\ desk' = Off /\ desk' \in DeskRow
        /\ paper'.version = desk.row.version /\ desk'.row.version = 0 /\ desk'.at = "idle"
    BY <1>b, CommitsKeepsShape
  <2>2. Off' = Off
    BY DEF Off
  <2> QED
    BY <1>0, <1>b, <2>1, <2>2 DEF DocShape
\* Where the desk moves on and the rows and the catalogue stay.
<1>c. ASSUME UNCHANGED <<versions, letters, uploads, prefers, torn>>,
             folder' \in [Files -> Contents], paper' \in DocRow, desk' \in DeskRow,
             paper'.version <= Len(versions), desk'.row.version <= Len(versions),
             desk'.at \in {"finish", "choose", "cover", "claim", "send"}
      PROVE  DocShape'
  BY <1>0, <1>c DEF DocShape
<1>1. CASE TakePrepare
  <2>1. /\ desk = Off /\ Len(versions) < MaxVersions
        /\ paper' = [paper EXCEPT !.status = "preparing"]
        /\ desk' = [Off EXCEPT !.at = "render", !.row = paper']
        /\ UNCHANGED <<folder, versions, letters, uploads, prefers, posted, torn>>
    BY <1>1 DEF TakePrepare
  <2>2. paper' \in DocRow /\ paper'.version = paper.version
    BY <1>0, <2>1 DEF DocRow, Statuses
  <2>3. desk' \in DeskRow /\ desk'.at = "render" /\ desk'.row = paper'
    BY <2>1, <2>2, BlankRow DEF DeskRow, DeskSteps
  <2>4. paper.version <= Len(versions)
    BY DEF DocShape
  <2> QED
    BY <1>0, <2>1, <2>2, <2>3, <2>4 DEF DocShape
<1>2. CASE TailorRefused
  <2>1. \E status \in Statuses : Commits(status)
    BY <1>2 DEF TailorRefused, Statuses
  <2> QED
    BY <1>0, <1>2, <1>b, <2>1 DEF TailorRefused
<1>3. CASE RenderResume
  <2> DEFINE n == Len(versions) + 1
  <2>1. PICK left \in SUBSET Formats, f \in Formats :
         /\ folder' = [file \in Files |->
              IF \E g \in left : file = ResumeFile[g] THEN Resume(n) ELSE folder[file]]
         /\ versions' = Append(versions, f)
         /\ desk' = [desk EXCEPT !.at = "letter", !.row.version = n]
    BY <1>3 DEF RenderResume
  <2>2. n \in 0..MaxVersions
    BY <1>0, <1>3 DEF RenderResume, DocShape
  <2>3. Resume(n) \in Contents
    BY <2>2, ContentTypes
  <2> HIDE DEF n
  <2>4. folder' \in [Files -> Contents]
    BY <1>0, <2>1, <2>3
  <2> DEFINE row == [desk.row EXCEPT !.version = n]
  <2>5. row \in DocRow /\ row.version = n
    BY <1>0, <2>2 DEF DocRow
  <2>6. desk' = [desk EXCEPT !.at = "letter", !.row = row]
    BY <1>0, <2>1 DEF DeskRow
  <2> HIDE DEF row
  <2>7. desk' \in DeskRow /\ desk'.at = "letter" /\ desk'.row.version = n
    BY <1>0, <2>5, <2>6 DEF DeskRow, DeskSteps
  <2>8. versions' \in Seq(Formats) /\ Len(versions') = n
    BY <1>0, <2>1 DEF n
  <2>9. /\ paper.version <= Len(versions) /\ Len(letters) <= Len(versions) /\ paper.version \in Nat
        /\ n = Len(versions) + 1 /\ n <= MaxVersions
    BY <1>0, <2>2 DEF DocShape, n, DocRow
  <2>10. paper.version <= n /\ Len(letters) < n
    BY <1>0, <2>9
  <2> QED
    BY <1>0, <1>3, <2>4, <2>7, <2>8, <2>9, <2>10 DEF DocShape, RenderResume
<1>4. CASE RenderFails
  <2> DEFINE n == Len(versions) + 1
  <2>1. PICK left \in SUBSET Formats :
         /\ folder' = [file \in Files |->
              IF \E g \in left : file = ResumeFile[g] THEN Resume(n) ELSE folder[file]]
         /\ torn' = (torn \/ left # {})
    BY <1>4 DEF RenderFails
  <2>2. n \in 0..MaxVersions
    BY <1>0, <1>4 DEF RenderFails, DocShape
  <2>3. Resume(n) \in Contents
    BY <2>2, ContentTypes
  <2>4. n = Len(versions) + 1
    OBVIOUS
  <2> HIDE DEF n
  <2>5. folder' \in [Files -> Contents]
    BY <1>0, <2>1, <2>3
  <2>6. versions' \in Seq(Formats) /\ Len(versions') = n
    BY <1>0, <1>4, <2>4 DEF RenderFails, Formats
  <2>7. /\ paper' \in DocRow /\ desk' = Off /\ desk' \in DeskRow
        /\ paper'.version = desk.row.version /\ desk'.row.version = 0 /\ desk'.at = "idle"
    BY <1>4, CommitsKeepsShape DEF RenderFails, Statuses
  <2>8. desk.row.version <= n /\ Len(letters) <= n /\ 0 <= n /\ n <= MaxVersions
    <3>1. desk.row.version \in Nat /\ desk.row.version <= Len(versions) /\ Len(letters) <= Len(versions)
      BY <1>0 DEF DocShape, DocRow
    <3> QED
      BY <1>0, <2>2, <2>4, <3>1
  <2>9. Off' = Off /\ torn' \in BOOLEAN
    BY <1>0, <2>1 DEF Off
  <2> QED
    BY <1>0, <1>4, <2>5, <2>6, <2>7, <2>8, <2>9 DEF DocShape, RenderFails
<1>5. CASE WriteLetter
  <2>0. /\ UNCHANGED <<versions, paper, uploads, prefers, posted, torn>>
        /\ Len(letters) < Len(versions) /\ paper.version <= Len(versions)
        /\ desk.row.version <= Len(versions) /\ Len(versions) <= MaxVersions
    BY <1>5 DEF WriteLetter, DocShape
  <2>1. CASE \E f \in Formats :
          /\ folder' = [folder EXCEPT ![LetterFile[f]] = Letter(Len(letters) + 1)]
          /\ letters' = Append(letters, f)
          /\ desk' = [desk EXCEPT !.at = "finish", !.row.letter = Len(letters) + 1]
    <3> DEFINE n == Len(letters) + 1
    <3>1. PICK f \in Formats :
            /\ folder' = [folder EXCEPT ![LetterFile[f]] = Letter(n)]
            /\ letters' = Append(letters, f)
            /\ desk' = [desk EXCEPT !.at = "finish", !.row.letter = n]
      BY <2>1
    <3>2. n \in 0..MaxVersions /\ n <= Len(versions)
      BY <1>0, <2>0
    <3>3. letters' \in Seq(Formats) /\ Len(letters') = n
      BY <1>0, <3>1
    <3> HIDE DEF n
    <3>4. folder' \in [Files -> Contents]
      BY <1>a, <3>1, <3>2, ContentTypes, DocNumbers
    <3> DEFINE row == [desk.row EXCEPT !.letter = n]
    <3>5. row \in DocRow /\ row.version = desk.row.version
      BY <1>0, <3>2 DEF DocRow
    <3>6. desk' = [desk EXCEPT !.at = "finish", !.row = row]
      BY <1>0, <3>1 DEF DeskRow
    <3> HIDE DEF row
    <3>7. desk' \in DeskRow /\ desk'.at = "finish" /\ desk'.row.version = desk.row.version
      BY <1>0, <3>5, <3>6 DEF DeskRow, DeskSteps
    <3> QED
      BY <1>0, <2>0, <3>2, <3>3, <3>4, <3>7 DEF DocShape
  <2>2. CASE desk' = [desk EXCEPT !.at = "finish"] /\ UNCHANGED <<folder, letters>>
    <3>1. desk' \in DeskRow /\ desk'.at = "finish" /\ desk'.row = desk.row
      BY <1>0, <2>2 DEF DeskRow, DeskSteps
    <3> QED
      BY <1>0, <1>c, <2>0, <2>2, <3>1
  <2> QED
    BY <1>5, <2>1, <2>2 DEF WriteLetter
<1>6. CASE LetterFails
  BY <1>0, <1>6, <1>b DEF LetterFails, Statuses
<1>7. CASE EndPrepare
  <2>1. \E status \in Statuses : Commits(status)
    BY <1>7 DEF EndPrepare, Statuses
  <2> QED
    BY <1>0, <1>7, <1>b, <2>1 DEF EndPrepare
<1>8. CASE BeginSubmission
  <2>1. desk' \in DeskRow /\ desk'.at = "choose" /\ desk'.row = paper
    BY <1>0, <1>8, BlankRow DEF BeginSubmission, DeskRow, DeskSteps
  <2>2. paper.version <= Len(versions)
    BY DEF DocShape
  <2> QED
    BY <1>0, <1>8, <1>c, <2>1, <2>2 DEF BeginSubmission
<1>d. ASSUME NEW step \in DeskSteps, NEW file \in Files \cup {NoFile}, NEW upload \in 0..Len(Offered),
             desk' = [desk EXCEPT !.at = step, !.cv = file, !.row.upload = upload]
      PROVE  desk' \in DeskRow /\ desk'.at = step /\ desk'.row.version = desk.row.version
  <2> DEFINE row == [desk.row EXCEPT !.upload = upload]
  <2>1. row \in DocRow /\ row.version = desk.row.version
    BY <1>0 DEF DocRow
  <2>2. desk' = [desk EXCEPT !.at = step, !.cv = file, !.row = row]
    BY <1>0, <1>d DEF DeskRow
  <2> HIDE DEF row
  <2> QED
    BY <1>0, <2>1, <2>2 DEF DeskRow
<1>9. CASE ChooseMaster
  <2>1. Master \in Uploads /\ Offered[Master].name \in Files /\ Master \in 0..Len(Offered)
    BY <1>9, MasterIsLive, DocNumbers DEF ChooseMaster
  <2>2. folder' \in [Files -> Contents]
    BY <1>0, <1>9, <1>a, <2>1, ContentTypes DEF ChooseMaster
  <2>3. desk' \in DeskRow /\ desk'.at = "claim" /\ desk'.row.version = desk.row.version
    BY <1>9, <1>d, <2>1 DEF ChooseMaster, DeskSteps
  <2> QED
    BY <1>0, <1>9, <1>c, <2>2, <2>3 DEF ChooseMaster, DocShape
<1>10. CASE ChooseGenerated
  <2> DEFINE v == desk.row.version
             file == IF v = 0 THEN NoFile ELSE ResumeFile[versions[v]]
  <2>1. v \in 0..MaxVersions /\ (v # 0 => v \in DOMAIN versions)
    BY <1>0, DocNumbers DEF DocShape, DocRow
  <2>2. file \in Files \cup {NoFile} /\ 0 \in 0..Len(Offered)
    <3>1. v # 0 => versions[v] \in Formats
      BY <1>0, <2>1
    <3> QED
      BY <3>1, DocNumbers
  <2>3. PICK f \in Formats, chosen \in Files \cup {NoFile} :
           /\ desk' = [desk EXCEPT !.at = "cover", !.cv = chosen, !.row.upload = 0]
           /\ folder' = folder \/ folder' = [folder EXCEPT ![ResumeFile[f]] = Resume(v)]
    <3>1. CASE v = 0 \/ On(file)
      <4>1. /\ desk' = [desk EXCEPT !.at = "cover", !.cv = file, !.row.upload = 0]
            /\ folder' = folder
        BY <1>10, <3>1 DEF ChooseGenerated
      <4>2. \E f : f \in Formats
        BY DEF Formats
      <4> HIDE DEF file, v
      <4> QED
        BY <2>2, <4>1, <4>2
    <3>2. CASE ~(v = 0 \/ On(file))
      BY <1>10, <3>2, DocNumbers DEF ChooseGenerated
    <3> QED
      BY <3>1, <3>2
  <2> HIDE DEF v, file
  <2>4. folder' \in [Files -> Contents]
    BY <1>0, <1>a, <2>1, <2>3, ContentTypes, DocNumbers
  <2>5. desk' \in DeskRow /\ desk'.at = "cover" /\ desk'.row.version = desk.row.version
    BY <1>d, <2>2, <2>3 DEF DeskSteps
  <2> QED
    BY <1>0, <1>10, <1>c, <2>4, <2>5 DEF ChooseGenerated, DocShape
<1>11. CASE ChooseLetter
  <2>1. desk' \in DeskRow /\ desk'.at = "claim" /\ desk'.row = desk.row /\ folder' \in [Files -> Contents]
    <3>1. CASE desk' = [desk EXCEPT !.at = "claim"] /\ folder' = folder
      BY <1>0, <3>1 DEF DeskRow, DeskSteps
    <3>2. ASSUME NEW f \in Formats,
                 desk' = [desk EXCEPT !.at = "claim", !.cover = LetterFile[f]],
                 folder' = folder \/ folder' = [folder EXCEPT ![LetterFile[f]] = Letter(desk.row.letter)]
          PROVE  desk' \in DeskRow /\ desk'.at = "claim" /\ desk'.row = desk.row
                 /\ folder' \in [Files -> Contents]
      <4>1. LetterFile[f] \in Files /\ Letter(desk.row.letter) \in Contents
        BY <1>0, DocNumbers, ContentTypes DEF DocRow
      <4> QED
        BY <1>0, <1>a, <3>2, <4>1 DEF DeskRow, DeskSteps
    <3> QED
      BY <1>11, <3>1, <3>2 DEF ChooseLetter
  <2> QED
    BY <1>0, <1>11, <1>c, <2>1 DEF ChooseLetter, DocShape
<1>12. CASE ClaimOrRehearse
  <2>1. CASE Commits("ready")
    BY <1>0, <1>12, <1>b, <2>1 DEF ClaimOrRehearse, Statuses
  <2>2. CASE /\ paper' = [desk.row EXCEPT !.status = "submitting"]
             /\ desk' = [desk EXCEPT !.at = "send", !.row.status = "submitting"]
    <3> DEFINE row == [desk.row EXCEPT !.status = "submitting"]
    <3>1. row \in DocRow /\ row.version = desk.row.version
      BY <1>0 DEF DocRow, Statuses
    <3>2. desk' = [desk EXCEPT !.at = "send", !.row = row] /\ paper' = row
      BY <1>0, <2>2 DEF DeskRow
    <3> HIDE DEF row
    <3>3. desk' \in DeskRow /\ desk'.at = "send" /\ desk'.row = row
      BY <1>0, <3>1, <3>2 DEF DeskRow, DeskSteps
    <3> QED
      BY <1>0, <1>12, <1>c, <3>1, <3>2, <3>3 DEF ClaimOrRehearse, DocShape
  <2> QED
    BY <1>12, <2>1, <2>2 DEF ClaimOrRehearse
<1>13. CASE Post
  BY <1>0, <1>13, <1>b DEF Post, Statuses
<1>14. CASE NotPosted
  BY <1>0, <1>14, <1>b DEF NotPosted, Statuses
<1>15. CASE Resolved
  <2>1. paper' \in DocRow /\ paper'.version = paper.version
    BY <1>0, <1>15 DEF Resolved, DocRow, Statuses
  <2>2. Off' = Off
    BY DEF Off
  <2> QED
    BY <1>0, <1>15, <2>1, <2>2 DEF Resolved, DocShape
<1>16. CASE UploadsMaster
  <2>1. uploads' \in Seq(BOOLEAN) /\ Len(uploads') <= Len(Offered)
    BY <1>0, <1>16, DocNumbers DEF UploadsMaster
  <2>2. Off' = Off
    BY DEF Off
  <2> QED
    BY <1>0, <1>16, <2>1, <2>2 DEF UploadsMaster, DocShape
<1>17. CASE ChangesSource
  <2>1. uploads' \in Seq(BOOLEAN) /\ Len(uploads') = Len(uploads)
    <3>1. ASSUME Master # 0, uploads' = [uploads EXCEPT ![Master] = FALSE]
          PROVE  uploads' \in Seq(BOOLEAN) /\ Len(uploads') = Len(uploads)
      BY <1>0, <3>1, MasterIsLive
    <3> QED
      BY <1>0, <1>17, <3>1 DEF ChangesSource
  <2>2. prefers' \in {"generated", "master"}
    BY <1>0, <1>17 DEF ChangesSource
  <2>3. Off' = Off
    BY DEF Off
  <2> QED
    BY <1>0, <1>17, <2>1, <2>2, <2>3 DEF ChangesSource, DocShape
<1>18. CASE KilledAtDesk
  <2>1. Off' = Off /\ Off.at = "idle" /\ Off.row.version = 0 /\ torn' \in BOOLEAN
    BY <1>0, <1>18 DEF Off, KilledAtDesk
  <2> QED
    BY <1>0, <1>18, <2>1, BlankRow DEF KilledAtDesk, DocShape
<1>19. CASE Sweep
  <2>1. EmptyFolder \in [Files -> Contents]
    BY ContentTypes DEF EmptyFolder
  <2>2. Off' = Off
    BY DEF Off
  <2> QED
    BY <1>0, <1>19, <2>1, <2>2 DEF Sweep, DocShape
<1>20. CASE UNCHANGED docVars
  <2>1. Off' = Off
    BY DEF Off
  <2> QED
    BY <1>20, <2>1 DEF docVars, DocShape
<1> QED
  BY <1>1, <1>2, <1>3, <1>4, <1>5, <1>6, <1>7, <1>8, <1>9, <1>10, <1>11, <1>12, <1>13, <1>14, <1>15,
     <1>16, <1>17, <1>18, <1>19, <1>20 DEF DocNext

\* Rows, files and catalogue have their types, however many documents are generated.
THEOREM DocTypes == DocSpec => []DocTypeOK
<1>1. DocShape => DocTypeOK
  BY DEF DocShape, DocTypeOK, DocRow, DeskRow, Statuses
<1> QED
  BY <1>1, DocShapeInit, DocShapeStep, PTL DEF DocSpec

-----------------------------------------------------------------------------
(* The row and the directory.                                              *)

\* What the property leaves out: an upload under the name of a generated résumé, and two
\* uploads that agree in name and size.
NoCollision ==
  /\ \A u \in Uploads, f \in Formats : Offered[u].name # ResumeFile[f]
  /\ \A u, v \in Uploads : Offered[u] = Offered[v] => u = v

\* The file of a version is not there, or is the version.
Faithful(v) == v # 0 => folder[ResumeFile[versions[v]]] \in {Nothing, Resume(v)}
\* What the task has chosen is what its copy of the row names, as long as it is there.
Chosen ==
  IF desk.cv = NoFile THEN NamedBy(desk.row) = Nothing
  ELSE ~torn => folder[desk.cv] \in {Nothing, NamedBy(desk.row)}

CopyInv ==
  \A file \in Files : folder[file].what = "upload" =>
    folder[file].of \in Uploads /\ Offered[folder[file].of].name = file
RowInv == desk.at \notin {"letter", "finish"} /\ ~torn => Faithful(paper.version)
DeskInv ==
  /\ desk.at \in {"render", "choose", "cover", "claim", "send"} => desk.row.version = paper.version
  /\ desk.at \in {"letter", "finish"} => Faithful(desk.row.version)
  /\ desk.at \in {"cover", "claim", "send"} => Chosen
  /\ desk.at = "cover" =>
       /\ desk.row.upload = 0
       /\ desk.cv \in {NoFile} \cup {ResumeFile[f] : f \in Formats}
  /\ desk.at = "send" => paper.upload = desk.row.upload
PostInv ==
  posted # <<>> => desk.at = "idle" /\ paper.status = "submitted" /\ ResumeSentIsRecorded

DocInv == CopyInv /\ RowInv /\ DeskInv /\ PostInv

\* Names and contents are told apart.
LEMMA ContentsDiffer ==
  /\ \A n, m : Resume(n) # Nothing /\ Resume(n).what # "upload" /\ Letter(m).what # "upload"
  /\ Nothing.what # "upload"
  /\ \A u : Copy(u).what = "upload" /\ Copy(u).of = u
BY DEF Resume, Letter, Copy, Nothing

\* While nothing was sent, the history has nothing to say.
LEMMA PostKeeps ==
  ASSUME PostInv, posted' = posted, posted # <<>> => paper' = paper /\ desk' = desk
  PROVE  PostInv'
BY DEF PostInv, ResumeSentIsRecorded, Named, NamedBy, Copy, Resume, Nothing

LEMMA DocInvInit == DocInit => DocInv
<1> SUFFICES ASSUME DocInit PROVE DocInv
  OBVIOUS
<1>1. /\ \A file \in Files : folder[file] = Nothing
      /\ desk.at = "idle" /\ paper.version = 0 /\ posted = <<>>
  BY DEF DocInit, EmptyFolder, Off
<1> QED
  BY <1>1, ContentsDiffer DEF DocInv, CopyInv, RowInv, DeskInv, PostInv, Faithful

\* A directory that is as it was, or empty, keeps a row's file faithful.
LEMMA FaithfulKeeps ==
  ASSUME DocShape, NEW v, v \in 0..Len(versions), Faithful(v), UNCHANGED versions,
         \A f \in Formats : folder'[ResumeFile[f]] \in {folder[ResumeFile[f]], Nothing, Resume(v)}
  PROVE  Faithful(v)'
<1>1. v # 0 => versions[v] \in Formats
  BY DEF DocShape
<1>2. Nothing' = Nothing /\ Resume(v)' = Resume(v)
  BY DEF Nothing, Resume
<1> QED
  BY <1>1, <1>2 DEF Faithful

LEMMA DocInvStep ==
  ASSUME NoCollision PROVE DocShape /\ DocInv /\ [DocNext]_docVars => DocInv'
<1> SUFFICES ASSUME DocShape, DocInv, [DocNext]_docVars PROVE DocInv'
  OBVIOUS
<1>0. /\ folder \in [Files -> Contents] /\ versions \in Seq(Formats)
      /\ paper \in DocRow /\ desk \in DeskRow /\ desk.row \in DocRow
      /\ paper.version \in 0..Len(versions) /\ desk.row.version \in 0..Len(versions)
      /\ Len(versions) \in Nat /\ torn \in BOOLEAN
  BY DocNumbers DEF DocShape, DeskRow, DocRow
<1>1. /\ CopyInv /\ RowInv /\ DeskInv /\ PostInv
  BY DEF DocInv
<1>2. Off.at = "idle" /\ Off' = Off
  BY DEF Off
\* Before anything was sent the task at the desk is at work.
<1>3. desk.at # "idle" \/ paper.status # "submitted" => posted = <<>>
  BY <1>1 DEF PostInv
<1>4. PICK v : v = desk.row.version
  OBVIOUS
<1>5. v \in 0..Len(versions) /\ (v # 0 => versions[v] \in Formats)
  BY <1>0, <1>4
<1>6. \A row : NamedBy(row)' = NamedBy(row')
  BY DEF NamedBy, Copy, Resume, Nothing
\* The task gives up or is through, and its row is committed ...
<1>a. ASSUME NEW status \in Statuses, Commits(status), posted' = posted, desk.at # "idle",
             CopyInv', ~torn' => Faithful(v)'
      PROVE  DocInv'
  <2>1. desk' = Off /\ paper'.version = v
    BY <1>4, <1>a, CommitsKeepsShape
  <2>2. RowInv' /\ DeskInv'
    BY <1>2, <1>a, <2>1 DEF RowInv, DeskInv, Faithful
  <2> QED
    BY <1>1, <1>3, <1>a, <2>2, PostKeeps DEF DocInv
\* ... the directory being as it was.
<1>7. desk.at # "idle" /\ ~torn => Faithful(v)
  BY <1>0, <1>1, <1>4 DEF RowInv, DeskInv, DeskRow, DeskSteps
<1>b. ASSUME NEW status \in Statuses, Commits(status), UNCHANGED <<folder, versions, posted, torn>>,
             desk.at # "idle"
      PROVE  DocInv'
  <2>1. Faithful(v) => Faithful(v)'
    BY <1>b DEF Faithful, Resume, Nothing
  <2>2. CopyInv'
    BY <1>1, <1>b DEF CopyInv, Uploads
  <2> QED
    BY <1>7, <1>a, <1>b, <2>1, <2>2
\* Nothing this is about changes.
<1>c. ASSUME UNCHANGED <<folder, versions, paper, desk, posted, torn>> PROVE DocInv'
  BY <1>1, <1>c DEF DocInv, CopyInv, RowInv, DeskInv, PostInv, Faithful, Chosen, ResumeSentIsRecorded,
     Named, NamedBy, Copy, Resume, Nothing, Uploads
<1>8. CASE TakePrepare
  <2>1. /\ desk = Off /\ paper.status # "submitted"
        /\ paper' = [paper EXCEPT !.status = "preparing"]
        /\ desk' = [Off EXCEPT !.at = "render", !.row = paper']
        /\ UNCHANGED <<folder, versions, posted, torn>>
    BY <1>8 DEF TakePrepare
  <2>2. paper'.version = paper.version /\ desk'.at = "render" /\ desk'.row = paper'
    BY <1>0, <2>1 DEF DocRow, Off
  <2>3. RowInv' /\ DeskInv' /\ CopyInv'
    BY <1>1, <1>2, <2>1, <2>2 DEF RowInv, DeskInv, CopyInv, Faithful, Uploads, Resume, Nothing
  <2> QED
    BY <1>1, <1>3, <2>1, <2>3, PostKeeps DEF DocInv
<1>9. CASE TailorRefused
  <2>1. \E status \in Statuses : Commits(status)
    BY <1>9 DEF TailorRefused, Statuses
  <2> QED
    BY <1>9, <1>b, <2>1 DEF TailorRefused
<1>10. CASE RenderResume
  <2> DEFINE n == Len(versions) + 1
  <2>1. PICK left \in SUBSET Formats, f \in Formats :
         /\ f \in left
         /\ folder' = [file \in Files |->
              IF \E g \in left : file = ResumeFile[g] THEN Resume(n) ELSE folder[file]]
         /\ versions' = Append(versions, f)
         /\ desk' = [desk EXCEPT !.at = "letter", !.row.version = n]
    BY <1>10 DEF RenderResume
  <2>2. versions'[n] = f /\ UNCHANGED <<posted, torn, paper>> /\ desk.at = "render"
    BY <1>0, <1>10, <2>1 DEF RenderResume
  <2>3. desk'.at = "letter" /\ desk'.row.version = n
    BY <1>0, <2>1 DEF DeskRow, DocRow
  <2> HIDE DEF n
  <2>4. folder'[ResumeFile[f]] = Resume(n)
    BY <2>1, DocNumbers
  <2>5. CopyInv'
    BY <1>1, <2>1, ContentsDiffer DEF CopyInv, Uploads
  <2>6. RowInv' /\ DeskInv'
    BY <2>2, <2>3, <2>4 DEF RowInv, DeskInv, Faithful, Resume
  <2> QED
    BY <1>1, <1>3, <2>2, <2>5, <2>6, PostKeeps DEF DocInv
<1>11. CASE RenderFails
  <2> DEFINE n == Len(versions) + 1
  <2>1. PICK left \in SUBSET Formats :
         /\ folder' = [file \in Files |->
              IF \E g \in left : file = ResumeFile[g] THEN Resume(n) ELSE folder[file]]
         /\ torn' = (torn \/ left # {})
    BY <1>11 DEF RenderFails
  <2> HIDE DEF n
  <2>2. CopyInv'
    BY <1>1, <2>1, ContentsDiffer DEF CopyInv, Uploads
  <2>3. v # 0 => versions'[v] = versions[v]
    BY <1>0, <1>5, <1>11 DEF RenderFails
  <2>4. ASSUME ~torn' PROVE Faithful(v)'
    <3>1. ~torn /\ folder' = [file \in Files |-> folder[file]]
      BY <2>1, <2>4
    <3>2. Faithful(v) /\ folder' = folder
      BY <1>0, <1>7, <1>11, <3>1 DEF RenderFails
    <3> QED
      BY <2>3, <3>2 DEF Faithful, Resume, Nothing
  <2> QED
    BY <1>11, <1>a, <2>2, <2>4 DEF RenderFails, Statuses
\* A letter is no résumé, and no copy.
<1>d. ASSUME NEW f \in Formats, NEW m, folder' = [folder EXCEPT ![LetterFile[f]] = Letter(m)]
      PROVE  CopyInv' /\ \A g \in Formats : folder'[ResumeFile[g]] = folder[ResumeFile[g]]
  BY <1>0, <1>1, <1>d, ContentsDiffer, DocNumbers DEF CopyInv, Uploads
<1>12. CASE WriteLetter
  <2>1. /\ desk.at = "letter" /\ UNCHANGED <<versions, paper, posted, torn>>
    BY <1>12 DEF WriteLetter
  <2>2. CopyInv' /\ \A g \in Formats : folder'[ResumeFile[g]] = folder[ResumeFile[g]]
    <3>1. CASE folder' = folder
      BY <1>1, <3>1 DEF CopyInv, Uploads
    <3>2. CASE folder' # folder
      <4>1. PICK f \in Formats : folder' = [folder EXCEPT ![LetterFile[f]] = Letter(Len(letters) + 1)]
        BY <1>12, <3>2 DEF WriteLetter
      <4> QED
        BY <1>d, <4>1
    <3> QED
      BY <3>1, <3>2
  <2>3. desk'.at = "finish" /\ desk'.row.version = v
    <3>1. CASE desk' = [desk EXCEPT !.at = "finish"]
      BY <1>0, <1>4, <3>1 DEF DeskRow
    <3>2. CASE desk' = [desk EXCEPT !.at = "finish", !.row.letter = Len(letters) + 1]
      BY <1>0, <1>4, <3>2 DEF DeskRow, DocRow
    <3> QED
      BY <1>12, <3>1, <3>2 DEF WriteLetter
  <2>4. Faithful(v)
    BY <1>1, <1>4, <2>1 DEF DeskInv
  <2>5. Faithful(v)'
    BY <1>5, <2>1, <2>2, <2>4, FaithfulKeeps
  <2>6. RowInv' /\ DeskInv'
    BY <2>3, <2>5 DEF RowInv, DeskInv, Faithful
  <2> QED
    BY <1>1, <1>3, <2>1, <2>2, <2>6, PostKeeps DEF DocInv
<1>13. CASE LetterFails
  BY <1>13, <1>b DEF LetterFails, Statuses
<1>14. CASE EndPrepare
  <2>1. PICK status \in Statuses : Commits(status)
    BY <1>14 DEF EndPrepare, Statuses
  <2>2. Faithful(v)
    BY <1>1, <1>4, <1>14 DEF EndPrepare, DeskInv
  <2>3. Faithful(v)' /\ CopyInv'
    BY <1>1, <1>14, <2>2 DEF EndPrepare, Faithful, Resume, Nothing, CopyInv, Uploads
  <2> QED
    BY <1>14, <1>a, <2>1, <2>3 DEF EndPrepare
<1>15. CASE BeginSubmission
  <2>1. desk'.at = "choose" /\ desk'.row = paper /\ paper' = paper
    BY <1>15 DEF BeginSubmission, Off
  <2>2. desk.at = "idle" /\ posted = <<>> /\ UNCHANGED <<folder, versions, posted, torn>>
    BY <1>2, <1>3, <1>15 DEF BeginSubmission
  <2>3. CopyInv' /\ RowInv' /\ DeskInv'
    BY <1>1, <2>1, <2>2 DEF RowInv, DeskInv, CopyInv, Faithful, Uploads, Resume, Nothing
  <2> QED
    BY <1>1, <2>2, <2>3, PostKeeps DEF DocInv
<1>16. CASE ChooseMaster
  <2> DEFINE file == Offered[Master].name
  <2>1. Master \in Uploads /\ Master # 0 /\ file \in Files /\ file # NoFile
    BY <1>16, MasterIsLive, DocNumbers DEF ChooseMaster
  <2>2. PICK u : u = Master
    OBVIOUS
  <2>3. PICK name : name = file
    OBVIOUS
  <2>4. /\ desk' = [desk EXCEPT !.at = "claim", !.cv = name, !.row.upload = u]
        /\ desk.at = "choose" /\ UNCHANGED <<versions, paper, posted, torn>>
        /\ name \in Files /\ name # NoFile /\ u \in Uploads /\ u # 0 /\ name = Offered[u].name
    BY <1>16, <2>1, <2>2, <2>3 DEF ChooseMaster
  <2>5. /\ folder'[name] = Copy(u)
        /\ \A other \in Files \ {name} : folder'[other] = folder[other]
    <3>1. CASE On(name) /\ folder[name].what = "upload" /\ SizeOf(folder[name]) = Offered[u].size
      <4>1. folder' = folder
        BY <1>16, <2>2, <2>3, <3>1 DEF ChooseMaster
      <4>2. folder[name].of \in Uploads /\ Offered[folder[name].of].name = name
        BY <1>1, <2>4, <3>1 DEF CopyInv
      <4>3. Offered[folder[name].of] = Offered[u]
        <5>1. \A w \in Uploads : Offered[w] \in [name : STRING, size : Nat]
          <6> DEFINE M == [name : STRING, size : Nat]
          <6>1. Offered \in Seq(M)
            BY DocumentsAssumption
          <6> HIDE DEF M
          <6>2. \A w \in Uploads : Offered[w] \in M
            BY <6>1 DEF Uploads
          <6> QED
            BY <6>2 DEF M
        <5> QED
          BY <2>4, <3>1, <4>2, <5>1 DEF SizeOf
      <4>4. folder[name].of = u
        BY <2>4, <4>2, <4>3 DEF NoCollision
      <4>5. folder[name] = Copy(u)
        BY <1>0, <2>4, <3>1, <4>4 DEF Contents, Copy
      <4> QED
        BY <4>1, <4>5
    <3>2. CASE ~(On(name) /\ folder[name].what = "upload" /\ SizeOf(folder[name]) = Offered[u].size)
      <4>1. folder' = [folder EXCEPT ![name] = Copy(u)]
        BY <1>16, <2>2, <2>3, <3>2 DEF ChooseMaster
      <4> QED
        BY <1>0, <2>4, <4>1
    <3> QED
      BY <3>1, <3>2
  <2>6. /\ desk'.at = "claim" /\ desk'.cv = name /\ desk'.row.version = v /\ desk'.row.upload = u
    BY <1>0, <1>4, <2>4 DEF DeskRow, DocRow
  <2>7. CopyInv'
    BY <1>1, <2>4, <2>5, ContentsDiffer DEF CopyInv, Uploads
  <2>8. v = paper.version
    BY <1>1, <1>4, <2>4 DEF DeskInv
  <2>9. ASSUME ~torn' PROVE Faithful(v)'
    <3>1. \A f \in Formats : folder'[ResumeFile[f]] = folder[ResumeFile[f]]
      BY <2>4, <2>5, DocNumbers DEF NoCollision
    <3>2. Faithful(v)
      BY <1>7, <2>4, <2>9
    <3> QED
      BY <1>5, <2>4, <3>1, <3>2, FaithfulKeeps
  <2>10. Chosen'
    BY <2>4, <2>5, <2>6 DEF Chosen, NamedBy, Copy
  <2>11. RowInv' /\ DeskInv'
    BY <2>4, <2>6, <2>8, <2>9, <2>10 DEF RowInv, DeskInv, Faithful
  <2> QED
    BY <1>1, <1>3, <2>4, <2>7, <2>11, PostKeeps DEF DocInv
<1>17. CASE ChooseGenerated
  <2> DEFINE file == IF v = 0 THEN NoFile ELSE ResumeFile[versions[v]]
  <2>1. desk.at = "choose" /\ UNCHANGED <<versions, paper, posted, torn>> /\ v = paper.version
    BY <1>1, <1>4, <1>17 DEF ChooseGenerated, DeskInv
  <2>2. PICK chosen \in {NoFile} \cup {ResumeFile[f] : f \in Formats} :
          /\ desk' = [desk EXCEPT !.at = "cover", !.cv = chosen, !.row.upload = 0]
          /\ \/ chosen = file /\ folder' = folder
             \/ \E f \in Formats : /\ chosen = ResumeFile[f] /\ v # 0
                                   /\ folder' = [folder EXCEPT ![ResumeFile[f]] = Resume(v)]
    <3>1. file \in {NoFile} \cup {ResumeFile[f] : f \in Formats}
      BY <1>5
    <3>2. CASE v = 0 \/ On(file)
      <4>1. desk' = [desk EXCEPT !.at = "cover", !.cv = file, !.row.upload = 0] /\ folder' = folder
        BY <1>4, <1>17, <3>2 DEF ChooseGenerated
      <4> HIDE DEF file
      <4> QED
        BY <3>1, <4>1
    <3>3. CASE ~(v = 0 \/ On(file))
      <4>1. PICK f \in Formats :
              /\ folder' = [folder EXCEPT ![ResumeFile[f]] = Resume(v)]
              /\ desk' = [desk EXCEPT !.at = "cover", !.cv = ResumeFile[f], !.row.upload = 0]
        BY <1>4, <1>17, <3>3 DEF ChooseGenerated
      <4> QED
        BY <3>3, <4>1
    <3> QED
      BY <3>2, <3>3
  <2>3. desk'.at = "cover" /\ desk'.cv = chosen /\ desk'.row.upload = 0 /\ desk'.row.version = v
    BY <1>0, <1>4, <2>2 DEF DeskRow, DocRow
  <2>4. \A g \in Formats : folder'[ResumeFile[g]] \in {folder[ResumeFile[g]], Resume(v)}
    BY <1>0, <2>2, DocNumbers
  <2>5. CopyInv'
    <3>1. CASE folder' = folder
      BY <1>1, <3>1 DEF CopyInv, Uploads
    <3>2. CASE folder' # folder
      <4>1. PICK f \in Formats : folder' = [folder EXCEPT ![ResumeFile[f]] = Resume(v)]
        BY <2>2, <3>2
      <4>2. \A other \in Files : folder'[other] = folder[other] \/ folder'[other] = Resume(v)
        BY <1>0, <4>1
      <4> QED
        BY <1>1, <4>2, ContentsDiffer DEF CopyInv, Uploads
    <3> QED
      BY <3>1, <3>2
  <2>6. ASSUME ~torn' PROVE Faithful(v)'
    <3>1. Faithful(v)
      BY <1>7, <2>1, <2>6
    <3> QED
      BY <1>5, <2>1, <2>4, <3>1, FaithfulKeeps
  <2>7. NamedBy(desk'.row) = IF v = 0 THEN Nothing ELSE Resume(v)
    BY <2>3 DEF NamedBy
  <2>8. Chosen'
    <3>1. CASE chosen = file /\ folder' = folder
      <4>1. CASE v = 0
        BY <1>6, <2>3, <2>7, <3>1, <4>1 DEF Chosen, NoFile, Nothing
      <4>2. CASE v # 0
        <5>1. ~torn => folder[file] \in {Nothing, Resume(v)} /\ file # NoFile
          BY <1>5, <1>7, <2>1, <4>2, DocNumbers DEF Faithful
        <5>2. file # NoFile
          BY <1>5, <4>2, DocNumbers
        <5> HIDE DEF file
        <5> QED
          BY <1>6, <2>1, <2>3, <2>7, <3>1, <4>2, <5>1, <5>2 DEF Chosen, NoFile, Nothing
      <4> QED
        BY <4>1, <4>2
    <3>2. CASE \E f \in Formats : /\ chosen = ResumeFile[f] /\ v # 0
                                  /\ folder' = [folder EXCEPT ![ResumeFile[f]] = Resume(v)]
      <4>1. folder'[chosen] = Resume(v) /\ chosen # NoFile /\ v # 0
        BY <1>0, <3>2, DocNumbers
      <4> QED
        BY <1>6, <2>3, <2>7, <4>1 DEF Chosen, NoFile
    <3> QED
      BY <2>2, <3>1, <3>2
  <2>9. RowInv' /\ DeskInv'
    BY <2>1, <2>2, <2>3, <2>6, <2>8 DEF RowInv, DeskInv, Faithful, NoFile, ResumeFile, Formats
  <2> QED
    BY <1>1, <1>3, <2>1, <2>5, <2>9, PostKeeps DEF DocInv
<1>18. CASE ChooseLetter
  <2>1. /\ desk.at = "cover" /\ UNCHANGED <<versions, paper, posted, torn>> /\ v = paper.version
        /\ Chosen /\ desk.cv \in {NoFile} \cup {ResumeFile[f] : f \in Formats}
    BY <1>1, <1>4, <1>18 DEF ChooseLetter, DeskInv
  <2>2. desk'.at = "claim" /\ desk'.row = desk.row /\ desk'.cv = desk.cv
    BY <1>0, <1>18 DEF ChooseLetter, DeskRow
  <2>3. CopyInv' /\ \A g \in Formats : folder'[ResumeFile[g]] = folder[ResumeFile[g]]
    <3>1. CASE folder' = folder
      BY <1>1, <3>1 DEF CopyInv, Uploads
    <3>2. CASE folder' # folder
      <4>1. PICK f \in Formats : folder' = [folder EXCEPT ![LetterFile[f]] = Letter(desk.row.letter)]
        BY <1>18, <3>2 DEF ChooseLetter
      <4>2. PICK m : m = desk.row.letter
        OBVIOUS
      <4> QED
        BY <1>d, <4>1, <4>2
    <3> QED
      BY <3>1, <3>2
  <2>4. ASSUME ~torn' PROVE Faithful(v)'
    <3>1. Faithful(v)
      BY <1>7, <2>1, <2>4
    <3> QED
      BY <1>5, <2>1, <2>3, <3>1, FaithfulKeeps
  <2>5. Chosen'
    BY <1>6, <2>1, <2>2, <2>3 DEF Chosen, NoFile, Nothing
  <2>6. RowInv' /\ DeskInv'
    BY <1>4, <2>1, <2>2, <2>4, <2>5 DEF RowInv, DeskInv, Faithful
  <2> QED
    BY <1>1, <1>3, <2>1, <2>3, <2>6, PostKeeps DEF DocInv
<1>19. CASE ClaimOrRehearse
  <2>1. CASE Commits("ready")
    BY <1>19, <1>b, <2>1 DEF ClaimOrRehearse, Statuses
  <2>2. CASE /\ paper' = [desk.row EXCEPT !.status = "submitting"]
             /\ desk' = [desk EXCEPT !.at = "send", !.row.status = "submitting"]
    <3>1. desk.at = "claim" /\ UNCHANGED <<folder, versions, posted, torn>> /\ v = paper.version /\ Chosen
      BY <1>1, <1>4, <1>19 DEF ClaimOrRehearse, DeskInv
    <3>2. /\ desk'.at = "send" /\ desk'.cv = desk.cv /\ desk'.row.version = v /\ paper'.version = v
          /\ desk'.row.upload = desk.row.upload /\ paper'.upload = desk.row.upload
      BY <1>0, <1>4, <2>2 DEF DeskRow, DocRow
    <3>3. Chosen'
      BY <1>4, <1>6, <3>1, <3>2 DEF Chosen, NamedBy, NoFile, Nothing, Copy, Resume
    <3>4. CopyInv' /\ (~torn' => Faithful(v)')
      BY <1>1, <1>7, <3>1 DEF CopyInv, Uploads, Faithful, Nothing, Resume
    <3>5. RowInv' /\ DeskInv'
      BY <3>2, <3>3, <3>4 DEF RowInv, DeskInv, Faithful
    <3> QED
      BY <1>1, <1>3, <3>1, <3>4, <3>5, PostKeeps DEF DocInv
  <2> QED
    BY <1>19, <2>1, <2>2 DEF ClaimOrRehearse
<1>20. CASE Post
  <2>1. /\ desk.at = "send" /\ UNCHANGED <<folder, versions, torn>> /\ v = paper.version /\ Chosen
        /\ Commits("submitted") /\ "submitted" \in Statuses
    BY <1>1, <1>4, <1>20 DEF Post, DeskInv, Statuses
  <2>2. /\ desk' = Off /\ paper'.version = v /\ paper'.upload = desk.row.upload
        /\ paper'.status = "submitted"
    BY <1>4, <2>1, CommitsKeepsShape
  <2>3. CopyInv' /\ (~torn' => Faithful(v)')
    BY <1>1, <1>7, <2>1 DEF CopyInv, Uploads, Faithful, Nothing, Resume
  <2>4. RowInv' /\ DeskInv'
    BY <1>2, <2>2, <2>3 DEF RowInv, DeskInv, Faithful
  <2>5. PICK sent : posted' = <<sent>> /\ sent.torn = torn
                    /\ sent.cv = IF desk.cv = NoFile THEN Nothing ELSE folder[desk.cv]
    BY <1>20 DEF Post
  <2>6. Named' = NamedBy(desk.row)
    BY <1>4, <2>2 DEF Named, NamedBy, Copy, Resume, Nothing
  <2>7. ~torn => sent.cv = NamedBy(desk.row)
    <3>1. desk.cv # NoFile => On(desk.cv)
      BY <1>20 DEF Post
    <3> QED
      BY <2>1, <2>5, <3>1 DEF Chosen, On
  <2>8. ResumeSentIsRecorded'
    BY <2>5, <2>6, <2>7 DEF ResumeSentIsRecorded
  <2> QED
    BY <1>2, <2>2, <2>3, <2>4, <2>8 DEF DocInv, PostInv
<1>21. CASE NotPosted
  BY <1>21, <1>b DEF NotPosted, Statuses
<1>22. CASE Resolved
  <2>1. desk = Off /\ UNCHANGED <<folder, versions, desk, posted, torn>> /\ paper.status = "needs_review"
        /\ paper'.version = paper.version
    BY <1>0, <1>22 DEF Resolved, DocRow
  <2>2. CopyInv' /\ RowInv' /\ DeskInv'
    BY <1>1, <1>2, <2>1 DEF CopyInv, RowInv, DeskInv, Faithful, Nothing, Resume, Uploads
  <2> QED
    BY <1>1, <1>3, <2>1, <2>2, PostKeeps DEF DocInv
<1>23. CASE UploadsMaster
  BY <1>23, <1>c DEF UploadsMaster
<1>24. CASE ChangesSource
  BY <1>24, <1>c DEF ChangesSource
<1>25. CASE KilledAtDesk
  <2>1. /\ desk' = Off /\ desk.at # "idle" /\ UNCHANGED <<folder, versions, paper, posted>>
        /\ torn' = (torn \/ desk.at \in {"letter", "finish"})
    BY <1>25 DEF KilledAtDesk
  <2>2. CopyInv' /\ RowInv' /\ DeskInv'
    BY <1>1, <1>2, <2>1 DEF CopyInv, RowInv, DeskInv, Faithful, Nothing, Resume, Uploads
  <2> QED
    BY <1>1, <1>3, <2>1, <2>2, PostKeeps DEF DocInv
<1>26. CASE Sweep
  <2>1. /\ \A file \in Files : folder'[file] = Nothing
        /\ UNCHANGED <<versions, paper, desk, posted>>
    BY <1>26 DEF Sweep, EmptyFolder
  <2>2. Nothing' = Nothing
    BY DEF Nothing
  <2>3. \A n \in 0..Len(versions) : n # 0 => folder'[ResumeFile[versions[n]]] = Nothing
    BY <1>0, <2>1, DocNumbers
  <2>4. Faithful(paper.version)' /\ Faithful(desk.row.version)'
    BY <1>0, <2>1, <2>2, <2>3 DEF Faithful
  <2>5. Chosen => Chosen'
    <3>1. desk.cv \in Files \cup {NoFile}
      BY <1>0 DEF DeskRow
    <3>2. NamedBy(desk.row)' = NamedBy(desk.row)
      BY <2>1 DEF NamedBy, Copy, Resume, Nothing
    <3> QED
      BY <2>1, <2>2, <3>1, <3>2 DEF Chosen
  <2>6. CopyInv' /\ RowInv' /\ DeskInv'
    BY <1>1, <2>1, <2>4, <2>5, ContentsDiffer DEF CopyInv, RowInv, DeskInv, Uploads
  <2> QED
    BY <1>1, <2>1, <2>6, PostKeeps DEF DocInv
<1>27. CASE UNCHANGED docVars
  BY <1>27, <1>c DEF docVars
<1> QED
  BY <1>8, <1>9, <1>10, <1>11, <1>12, <1>13, <1>14, <1>15, <1>16, <1>17, <1>18, <1>19, <1>20, <1>21,
     <1>22, <1>23, <1>24, <1>25, <1>26, <1>27 DEF DocNext

\* The application's row names the résumé the employer received, however many documents are
\* generated and uploaded and in whatever order attempts fail, are rehearsed or killed, the
\* source is changed and the directory swept (pipeline.py, _materialize_documents): provided
\* no upload collides with a generated file or with another upload.
THEOREM SentResumeIsNamed ==
  ASSUME NoCollision PROVE DocSpec => []ResumeSentIsRecorded
<1>1. DocInv => ResumeSentIsRecorded
  BY DEF DocInv, PostInv, ResumeSentIsRecorded
<1> QED
  BY <1>1, DocShapeInit, DocShapeStep, DocInvInit, DocInvStep, PTL DEF DocSpec

-----------------------------------------------------------------------------
(* Tailoring.                                                              *)

Revision == [fact : Facts, rev : Nat]
Line == [fact : Facts, rev : Nat, text : {"own", "faithful"}, under : Headings]
Read(f, r) == [fact |-> f, rev |-> r]

\* What a search found: each fact in one revision.
IsBasis(basis) ==
  /\ basis \subseteq Revision /\ IsFiniteSet(basis)
  /\ \A x, y \in basis : x.fact = y.fact => x = y

\* Lines that are facts of the basis, each once.
Drawn(bullets, basis) ==
  /\ bullets \in Seq(Line)
  /\ \A i \in DOMAIN bullets : [fact |-> bullets[i].fact, rev |-> bullets[i].rev] \in basis
  /\ \A i, j \in DOMAIN bullets : bullets[i].fact = bullets[j].fact => i = j

Sections(bullets) == {bullets[i].under : i \in DOMAIN bullets}
Fits(bullets) == Len(bullets) <= MaxBullets \/ Len(bullets) = Cardinality(Sections(bullets))

\* Numbers of the posting and of the facts of the basis.
Sourced(numbers, basis) == \A n \in numbers : n = OfPosting \/ Read(n.of, n.rev) \in basis

\* A résumé as it is made from what was found.
Genuine(cv, basis) ==
  /\ basis \subseteq Revision
  /\ Drawn(cv.bullets, basis) /\ Fits(cv.bullets)
  /\ Sourced(cv.summary, basis) /\ Sourced(cv.details, basis)

\* No fact of the basis was read in a later revision than the one of now.
NoLater(basis, now) == \A x \in basis : \E k \in now : k.fact = x.fact /\ x.rev <= k.rev
NotAhead(basis) == \A x \in basis : x.rev <= known[x.fact].rev

\* What is delivered was made from what was found for it or, when it was cached, from the
\* same facts at that time or before; a letter, and what is cached of one, states numbers
\* of the résumé it goes with.
CvInv(cv, basis, fresh) ==
  \E from : Genuine(cv, from) /\ NoLater(from, basis) /\ (fresh => from \subseteq basis)
EntryInv(c) == \E from : Genuine(c.cv, from) /\ IdsOf(from) \subseteq c.key /\ NotAhead(from)
TailorInv ==
  /\ known \in [Facts -> [rev : Nat, live : BOOLEAN]]
  /\ session.at = "asked" => IsBasis(session.basis) /\ NotAhead(session.basis)
  /\ delivered.basis \subseteq Revision
  /\ CvInv(delivered.cv, delivered.basis, delivered.fresh)
  /\ \A c \in cachedCv : EntryInv(c)
  /\ \A c \in cachedLtr : c.states \subseteq Supported(c.key)
  /\ letter \subseteq Supported(delivered.cv)

\* The budget of a document is a number, and the facts are finitely many.
LEMMA TailorNumbers ==
  /\ Impact \in [Facts -> Nat] /\ IsFiniteSet(Facts) /\ Retrievable \subseteq SUBSET Facts
  /\ MaxBullets \in Nat /\ MaxBullets > 0 /\ ReplyLimit \in Nat
BY TailoringAssumption

\* Bullets are dropped in a strict order.
LEMMA WeakerOrders ==
  ASSUME NEW bullets \in Seq(Line)
  PROVE  /\ \A i, j \in DOMAIN bullets : i = j \/ Weaker(bullets, i, j) \/ Weaker(bullets, j, i)
         /\ \A i \in DOMAIN bullets : ~Weaker(bullets, i, i)
         /\ \A i, j, k \in DOMAIN bullets :
              Weaker(bullets, i, j) /\ Weaker(bullets, j, k) => Weaker(bullets, i, k)
<1> DEFINE imp == [i \in DOMAIN bullets |-> Impact[bullets[i].fact]]
<1>1. DOMAIN bullets \subseteq Int
  OBVIOUS
<1>2. \A i \in DOMAIN bullets : imp[i] \in Int
  <2>1. \A i \in DOMAIN bullets : bullets[i] \in Line
    OBVIOUS
  <2>2. \A i \in DOMAIN bullets : bullets[i].fact \in Facts
    BY <2>1 DEF Line
  <2> QED
    BY <2>2, TailorNumbers
<1>3. \A i, j \in DOMAIN bullets :
        Weaker(bullets, i, j) <=> (imp[i] < imp[j] \/ (imp[i] = imp[j] /\ i > j))
  BY DEF Weaker
<1> HIDE DEF imp
<1> QED
  BY <1>1, <1>2, <1>3

\* The bullets that stay within the budget, or one bullet of each section.
LEMMA BudgetKept ==
  ASSUME NEW bullets \in Seq(Line)
  PROVE  LET positions == DOMAIN bullets \ Doomed(bullets)
         IN Cardinality(positions) <= MaxBullets
            \/ Cardinality(positions) = Cardinality({bullets[i].under : i \in positions})
<1> DEFINE D == DOMAIN bullets
           F == Floor(bullets)
           S == D \ F
           excess == Len(bullets) - MaxBullets
           below == [i \in S |-> {j \in S : Weaker(bullets, j, i)}]
           doomed == Doomed(bullets)
           positions == D \ doomed
<1>1. IsFiniteSet(D) /\ Cardinality(D) = Len(bullets) /\ Len(bullets) \in Nat
  BY PositionsOf
<1>2. F \subseteq D /\ S \subseteq D /\ D \ S = F
  BY DEF Floor
<1>3. doomed = {i \in S : Cardinality(below[i]) < excess}
  <2>1. \A i \in S : below[i] = {j \in S : Weaker(bullets, j, i)}
    OBVIOUS
  <2> HIDE DEF below
  <2> QED
    BY <2>1 DEF Doomed
<1>4. /\ below \in [S -> SUBSET S]
      /\ \A i, j \in S : i = j \/ i \in below[j] \/ j \in below[i]
      /\ \A i \in S : i \notin below[i]
      /\ \A i, j, k \in S : i \in below[j] /\ j \in below[k] => i \in below[k]
  <2>1. \A i, j \in S : i \in below[j] <=> Weaker(bullets, i, j)
    OBVIOUS
  <2>2. below \in [S -> SUBSET S]
    OBVIOUS
  <2> HIDE DEF below, S
  <2> QED
    BY <1>2, <2>1, <2>2, WeakerOrders
<1> HIDE DEF D, F, S, below, doomed
<1>5. IsFiniteSet(S) /\ Cardinality(S) \in Nat
  BY <1>1, <1>2, RestOf
<1>6. doomed \subseteq S /\ doomed \subseteq D
  BY <1>2, <1>3
<1>7. Cardinality(positions) = Len(bullets) - Cardinality(doomed) /\ Cardinality(doomed) \in Nat
  BY <1>1, <1>6, RestOf
<1>8. CASE excess <= 0
  BY <1>1, <1>7, <1>8, TailorNumbers DEF D, doomed
<1>9. CASE excess > 0
  <2>1. excess \in Nat
    BY <1>1, <1>9, TailorNumbers
  <2> HIDE DEF excess
  <2>2. Cardinality(doomed) = IF excess < Cardinality(S) THEN excess ELSE Cardinality(S)
    BY <1>3, <1>4, <1>5, <2>1, FirstOnes
  <2>3. CASE excess < Cardinality(S)
    <3>1. Cardinality(positions) = Len(bullets) - excess
      BY <1>7, <2>2, <2>3
    <3> QED
      BY <1>1, <3>1, TailorNumbers DEF excess, D, doomed
  <2>4. CASE ~(excess < Cardinality(S))
    <3>1. doomed = S
      BY <1>5, <1>6, <2>2, <2>4, FS_Subset
    <3>2. positions = F
      BY <1>2, <3>1
    <3> DEFINE heading == [i \in F |-> bullets[i].under]
               T == {bullets[i].under : i \in F}
    <3>3. heading \in [F -> T] /\ \A t \in T : \E i \in F : heading[i] = t
      OBVIOUS
    <3>4. ASSUME NEW i \in F, NEW j \in F, heading[i] = heading[j] PROVE i = j
      <4>1. bullets[i].under = bullets[j].under
        BY <3>4
      <4>2. i \in InSection(bullets, bullets[j].under)
            /\ j \in InSection(bullets, bullets[i].under)
        BY <1>2, <4>1 DEF InSection, D
      <4>3. ~Weaker(bullets, i, j) /\ ~Weaker(bullets, j, i)
        BY <4>2 DEF F, Floor
      <4> QED
        BY <1>2, <4>3, WeakerOrders DEF D
    <3>5. IsFiniteSet(F)
      BY <1>1, <1>2, RestOf
    <3> HIDE DEF heading, T
    <3>6. Cardinality(T) = Cardinality(F)
      BY <3>3, <3>4, <3>5, SameCount
    <3> QED
      BY <3>2, <3>6 DEF T, D, doomed
  <2> QED
    BY <2>3, <2>4
<1> QED
  BY <1>1, <1>8, <1>9, TailorNumbers

\* What is left when the budget is enforced is drawn from what was proposed, and fits.
LEMMA EnforcedIs ==
  ASSUME NEW basis, NEW bullets, Drawn(bullets, basis)
  PROVE  Drawn(EnforceBudget(bullets), basis) /\ Fits(EnforceBudget(bullets))
<1> DEFINE P == DOMAIN bullets \ Doomed(bullets)
           kept == EnforceBudget(bullets)
<1>1. /\ bullets \in Seq(Line) /\ P \subseteq DOMAIN bullets
      /\ \A i \in DOMAIN bullets : [fact |-> bullets[i].fact, rev |-> bullets[i].rev] \in basis
      /\ \A i, j \in DOMAIN bullets : bullets[i].fact = bullets[j].fact => i = j
  BY DEF Drawn
<1>2. kept = Subsequence(bullets, P)
  BY DEF EnforceBudget
<1>3. Cardinality(P) <= MaxBullets
      \/ Cardinality(P) = Cardinality({bullets[i].under : i \in P})
  BY <1>1, BudgetKept
<1> HIDE DEF P, kept
<1>4. /\ kept \in Seq(Line) /\ Len(kept) = Cardinality(P) /\ DOMAIN kept = 1 .. Cardinality(P)
      /\ \A n \in DOMAIN kept : \E i \in P : kept[n] = bullets[i]
      /\ \A i \in P : \E n \in DOMAIN kept : kept[n] = bullets[i]
      /\ \A m, n \in DOMAIN kept : kept[m] = kept[n] => m = n
  <2>1. \A i, j \in P : bullets[i] = bullets[j] => i = j
    BY <1>1
  <2> DEFINE sub == Subsequence(bullets, P)
  <2>2. /\ sub \in Seq(Line) /\ Len(sub) = Cardinality(P) /\ DOMAIN sub = 1 .. Cardinality(P)
        /\ \A n \in 1 .. Cardinality(P) : \E i \in P : sub[n] = bullets[i]
        /\ \A i \in P : \E n \in 1 .. Cardinality(P) : sub[n] = bullets[i]
        /\ \A m, n \in 1 .. Cardinality(P) : sub[m] = sub[n] => m = n
    BY <1>1, <2>1, SubsequenceIs
  <2>3. kept = sub
    BY <1>2
  <2> HIDE DEF sub
  <2> QED
    BY <2>2, <2>3
<1>5. \A n \in DOMAIN kept : [fact |-> kept[n].fact, rev |-> kept[n].rev] \in basis
  BY <1>1, <1>4
<1>6. \A m, n \in DOMAIN kept : kept[m].fact = kept[n].fact => m = n
  <2> SUFFICES ASSUME NEW m \in DOMAIN kept, NEW n \in DOMAIN kept, kept[m].fact = kept[n].fact
               PROVE  m = n
    OBVIOUS
  <2>1. PICK i \in P : kept[m] = bullets[i]
    BY <1>4
  <2>2. PICK j \in P : kept[n] = bullets[j]
    BY <1>4
  <2>3. i = j
    BY <1>1, <2>1, <2>2
  <2> QED
    BY <1>4, <2>1, <2>2, <2>3
<1>7. Sections(kept) = {bullets[i].under : i \in P}
  BY <1>4 DEF Sections
<1> QED
  BY <1>3, <1>4, <1>5, <1>6, <1>7 DEF Drawn, Fits, kept

\* Whatever the model replies, what validation leaves of it is drawn from what was found.
LEMMA ValidatedIs ==
  ASSUME NEW basis, IsBasis(basis), NEW reply \in RawReplies
  PROVE  Drawn(Validate(reply, basis), basis)
<1> DEFINE P == Traced(reply, basis)
           used == Subsequence(reply, P)
           v == Validate(reply, basis)
<1>1. reply \in Seq(RawBullets) /\ DOMAIN reply \subseteq Nat
  <2>1. PICK n \in Nat : reply \in [1 .. n -> RawBullets]
    BY TailorNumbers DEF RawReplies
  <2> QED
    BY <2>1
<1>2. /\ P \subseteq DOMAIN reply
      /\ \A i \in P : reply[i].id \in IdsOf(basis)
      /\ \A i, j \in P : reply[i].id = reply[j].id => i = j
  <2>1. P \subseteq DOMAIN reply /\ \A i \in P : reply[i].id \in IdsOf(basis)
    BY DEF Traced
  <2>2. ASSUME NEW i \in P, NEW j \in P, reply[i].id = reply[j].id PROVE i = j
    <3>1. i \in Nat /\ j \in Nat /\ i >= 1 /\ j >= 1
      BY <1>1, <2>1
    <3>2. ~(i < j) /\ ~(j < i)
      BY <2>2, <3>1 DEF Traced
    <3> QED
      BY <3>1, <3>2
  <2> QED
    BY <2>1, <2>2
<1>3. v = [k \in DOMAIN used |-> Validated(used[k], basis)]
  BY DEF Validate
<1> HIDE DEF P
<1>4. /\ Cardinality(P) \in Nat /\ used \in Seq(RawBullets) /\ DOMAIN used = 1 .. Cardinality(P)
      /\ \A n \in DOMAIN used : \E i \in P : used[n] = reply[i]
      /\ \A m, n \in DOMAIN used : used[m] = used[n] => m = n
  <2> DEFINE sub == Subsequence(reply, P)
             c == Cardinality(P)
  <2>1. \A i, j \in P : reply[i] = reply[j] => i = j
    BY <1>2
  <2>2. reply \in Seq(RawBullets) /\ P \subseteq DOMAIN reply
    BY <1>1, <1>2
  <2>3. /\ c \in Nat /\ sub \in Seq(RawBullets) /\ DOMAIN sub = 1 .. c
        /\ \A n \in 1 .. c : \E i \in P : sub[n] = reply[i]
        /\ \A m, n \in 1 .. c : sub[m] = sub[n] => m = n
    BY <2>1, <2>2, SubsequenceIs
  <2> HIDE DEF sub
  <2> QED
    BY <2>3 DEF sub, used
<1> HIDE DEF used, v
<1>5. ASSUME NEW k \in DOMAIN used
      PROVE  /\ v[k] \in Line /\ v[k].fact = used[k].id
             /\ [fact |-> v[k].fact, rev |-> v[k].rev] \in basis
  <2> DEFINE raw == used[k]
             b == CHOOSE x \in basis : x.fact = raw.id
  <2>1. raw \in RawBullets /\ raw.id \in IdsOf(basis)
    BY <1>2, <1>4
  <2>2. b \in basis /\ b.fact = raw.id
    BY <2>1 DEF IdsOf
  <2>3. v[k] = [fact |-> raw.id, rev |-> b.rev, text |-> IF raw.text = "refused" THEN "own" ELSE raw.text,
             under |-> IF raw.id \in Movable THEN raw.under ELSE HeadingOf[raw.id]]
    BY <1>3 DEF Validated
  <2> HIDE DEF b
  <2>4. b \in Revision
    BY <2>2 DEF IsBasis
  <2>5. [fact |-> b.fact, rev |-> b.rev] = b /\ b.fact \in Facts /\ b.rev \in Nat
    BY <2>4 DEF Revision
  <2>6. raw.text \in {"refused", "faithful"} /\ raw.under \in Headings
        /\ (raw.id \in Facts => HeadingOf[raw.id] \in Headings)
    BY <2>1 DEF RawBullets, Proposals, Headings
  <2> HIDE DEF raw
  <2> QED
    BY <2>2, <2>3, <2>5, <2>6 DEF Line, raw
<1>6. v \in Seq(Line) /\ DOMAIN v = DOMAIN used
  <2>1. v \in [1 .. Cardinality(P) -> Line]
    BY <1>3, <1>4, <1>5
  <2> QED
    BY <1>4, <2>1
<1>7. \A m, n \in DOMAIN v : v[m].fact = v[n].fact => m = n
  <2> SUFFICES ASSUME NEW m \in DOMAIN used, NEW n \in DOMAIN used, v[m].fact = v[n].fact
               PROVE  m = n
    BY <1>6
  <2>1. PICK i \in P : used[m] = reply[i]
    BY <1>4
  <2>2. PICK j \in P : used[n] = reply[j]
    BY <1>4
  <2>3. used[m].id = used[n].id
    BY <1>5
  <2>4. i = j
    BY <1>2, <2>1, <2>2, <2>3
  <2> QED
    BY <1>4, <2>1, <2>2, <2>4
<1> QED
  BY <1>5, <1>6, <1>7 DEF Drawn, v

\* The numbers of facts read as found are sourced.
LEMMA NumbersSourced ==
  ASSUME NEW basis, NEW bullets, Drawn(bullets, basis), NEW in
  PROVE  Sourced(NumbersOf(bullets, in), basis)
<1>1. ASSUME NEW n \in NumbersOf(bullets, in) PROVE Read(n.of, n.rev) \in basis
  <2>1. PICK i \in DOMAIN bullets : n = Number(bullets[i].fact, bullets[i].rev, in)
    BY DEF NumbersOf, ToSet
  <2>2. n.of = bullets[i].fact /\ n.rev = bullets[i].rev
    BY <2>1 DEF Number
  <2> QED
    BY <2>2 DEF Drawn, Read
<1> QED
  BY <1>1 DEF Sourced

\* A document assembled from what was found is genuine, whatever summary is proposed.
LEMMA AssembledIs ==
  ASSUME NEW basis, basis \subseteq Revision, NEW bullets, Drawn(bullets, basis),
         NEW summary, Sourced(summary, basis)
  PROVE  Genuine(Assemble(bullets, summary), basis)
<1>1. /\ Assemble(bullets, summary).bullets = EnforceBudget(bullets)
      /\ Assemble(bullets, summary).summary = summary
      /\ Assemble(bullets, summary).details = NumbersOf(bullets, "detail")
  BY DEF Assemble
<1>2. Drawn(EnforceBudget(bullets), basis) /\ Fits(EnforceBudget(bullets))
  BY EnforcedIs
<1>3. Sourced(NumbersOf(bullets, "detail"), basis)
  BY NumbersSourced
<1> QED
  BY <1>1, <1>2, <1>3 DEF Genuine

LEMMA SummarySourced ==
  ASSUME NEW basis, NEW bullets, Drawn(bullets, basis), NEW cited
  PROVE  Sourced(Summary(cited, bullets), basis)
<1>1. Sourced(NumbersOf(bullets, "text"), basis) /\ Sourced(NumbersOf(bullets, "detail"), basis)
  BY NumbersSourced
<1> QED
  BY <1>1 DEF Summary, Sourced

\* So are the facts in their own words, as the retrieval ranked them.
LEMMA OwnWords ==
  ASSUME NEW basis, IsBasis(basis), NEW ranked \in Rankings(basis)
  PROVE  Drawn([k \in DOMAIN ranked |->
                  [fact |-> ranked[k].fact, rev |-> ranked[k].rev, text |-> "own",
                   under |-> HeadingOf[ranked[k].fact]]], basis)
<1> DEFINE own == [k \in DOMAIN ranked |->
                     [fact |-> ranked[k].fact, rev |-> ranked[k].rev, text |-> "own",
                      under |-> HeadingOf[ranked[k].fact]]]
           c == Cardinality(basis)
<1>1. c \in Nat
  BY FS_CardinalityType DEF IsBasis
<1>2. ranked \in [1 .. c -> basis] /\ \A m, n \in 1 .. c : ranked[m] = ranked[n] => m = n
  BY DEF Rankings, IsInjective
<1> HIDE DEF c
<1>3. ASSUME NEW k \in 1 .. c
      PROVE  ranked[k] \in basis /\ ranked[k] \in Revision
             /\ [fact |-> ranked[k].fact, rev |-> ranked[k].rev] = ranked[k]
  <2>1. ranked[k] \in basis /\ ranked[k] \in Revision
    BY <1>2 DEF IsBasis
  <2> QED
    BY <2>1 DEF Revision
<1>4. DOMAIN own = 1 .. c /\ \A k \in 1 .. c :
        own[k] \in Line /\ own[k].fact = ranked[k].fact /\ own[k].rev = ranked[k].rev
  <2>1. DOMAIN own = 1 .. c
    BY <1>2
  <2>2. ASSUME NEW k \in 1 .. c
        PROVE  own[k] \in Line /\ own[k].fact = ranked[k].fact /\ own[k].rev = ranked[k].rev
    <3>1. own[k] = [fact |-> ranked[k].fact, rev |-> ranked[k].rev, text |-> "own",
                      under |-> HeadingOf[ranked[k].fact]]
      BY <1>2
    <3>2. ranked[k].fact \in Facts /\ ranked[k].rev \in Nat
      BY <1>3 DEF Revision
    <3>3. HeadingOf[ranked[k].fact] \in Headings
      BY <3>2 DEF Headings
    <3> QED
      BY <3>1, <3>2, <3>3 DEF Line
  <2> QED
    BY <2>1, <2>2
<1>5. own \in Seq(Line)
  BY <1>1, <1>4
<1> HIDE DEF own
<1>7. \A i, j \in DOMAIN own : own[i].fact = own[j].fact => i = j
  <2> SUFFICES ASSUME NEW i \in 1 .. c, NEW j \in 1 .. c, ranked[i].fact = ranked[j].fact
               PROVE  i = j
    BY <1>4
  <2>1. ranked[i] = ranked[j]
    BY <1>3 DEF IsBasis
  <2> QED
    BY <1>2, <2>1
<1>8. \A i \in DOMAIN own : [fact |-> own[i].fact, rev |-> own[i].rev] \in basis
  BY <1>3, <1>4
<1>9. Drawn(own, basis)
  BY <1>5, <1>7, <1>8 DEF Drawn
<1> QED
  BY <1>9 DEF own

\* So is what is written without a model.
LEMMA FallbackIs ==
  ASSUME NEW basis, IsBasis(basis), NEW ranked \in Rankings(basis)
  PROVE  Genuine(Fallback(ranked), basis)
<1> DEFINE own == [k \in DOMAIN ranked |->
                     [fact |-> ranked[k].fact, rev |-> ranked[k].rev, text |-> "own",
                      under |-> HeadingOf[ranked[k].fact]]]
<1>1. Drawn(own, basis)
  BY OwnWords
<1>2. Fallback(ranked) = Assemble(own, {})
  BY DEF Fallback
<1> HIDE DEF own
<1> QED
  BY <1>1, <1>2, AssembledIs DEF IsBasis, Sourced

\* A search finds each fact in the one revision it has.
LEMMA BasisIs ==
  ASSUME known \in [Facts -> [rev : Nat, live : BOOLEAN]], NEW found \in Retrievable
  PROVE  IsBasis(BasisOf(found))
<1> DEFINE L == {g \in found : known[g].live}
           B == BasisOf(found)
           at == [f \in L |-> [fact |-> f, rev |-> known[f].rev]]
<1>1. L \subseteq Facts
  BY TailorNumbers
<1>2. IsFiniteSet(L)
  BY <1>1, TailorNumbers, RestOf
<1>3. B = {[fact |-> f, rev |-> known[f].rev] : f \in L}
  BY DEF BasisOf
<1> HIDE DEF L, B
<1>4. \A f \in L : [fact |-> f, rev |-> known[f].rev] \in Revision
  BY <1>1 DEF Revision
<1>5. /\ at \in [L -> B] /\ \A x \in B : \E f \in L : at[f] = x
      /\ \A f, g \in L : at[f] = at[g] => f = g
  <2>1. \A f \in L : at[f] = [fact |-> f, rev |-> known[f].rev] /\ at[f].fact = f
    OBVIOUS
  <2>2. at \in [L -> B]
    BY <1>3
  <2> HIDE DEF at
  <2> QED
    BY <1>3, <2>1, <2>2
<1> HIDE DEF at
<1>6. IsFiniteSet(B)
  BY <1>2, <1>5, SameCount
<1>7. B \subseteq Revision
  BY <1>3, <1>4
<1>8. \A x, y \in B : x.fact = y.fact => x = y
  BY <1>3
<1> QED
  BY <1>6, <1>7, <1>8 DEF IsBasis, B

\* A search is not ahead of what is known, and has every fact it found as it is known.
LEMMA BasisIsNow ==
  ASSUME NEW found
  PROVE  \A x \in BasisOf(found) : x.rev = known[x.fact].rev
BY DEF BasisOf

\* What was not ahead stays so: revisions only grow.
LEMMA KnownGrows ==
  ASSUME NEW basis, basis \subseteq Revision, NotAhead(basis),
         known \in [Facts -> [rev : Nat, live : BOOLEAN]],
         known' \in [Facts -> [rev : Nat, live : BOOLEAN]],
         \A f \in Facts : known[f].rev <= known'[f].rev
  PROVE  NotAhead(basis)'
<1>1. ASSUME NEW x \in basis PROVE x.rev <= known'[x.fact].rev
  <2>1. x.fact \in Facts /\ x.rev \in Nat
    BY DEF Revision
  <2>2. known[x.fact].rev \in Nat /\ known'[x.fact].rev \in Nat
    BY <2>1
  <2>3. x.rev <= known[x.fact].rev /\ known[x.fact].rev <= known'[x.fact].rev
    BY <2>1 DEF NotAhead
  <2> QED
    BY <2>1, <2>2, <2>3
<1> QED
  BY <1>1 DEF NotAhead

\* A person's change leaves the rest as it was.
LEMMA ChangeKeeps ==
  ASSUME TailorInv, known' \in [Facts -> [rev : Nat, live : BOOLEAN]],
         \A f \in Facts : known[f].rev <= known'[f].rev,
         UNCHANGED <<cachedCv, cachedLtr, session, delivered, letter>>
  PROVE  TailorInv'
<1>1. session.at = "asked" => NotAhead(session.basis)'
  <2> SUFFICES ASSUME session.at = "asked" PROVE NotAhead(session.basis)'
    OBVIOUS
  <2> DEFINE now == session.basis
  <2>1. now \subseteq Revision /\ NotAhead(now)
    BY DEF TailorInv, IsBasis
  <2> HIDE DEF now
  <2>2. \A x \in now : x.rev <= known'[x.fact].rev
    <3> SUFFICES ASSUME NEW x \in now PROVE x.rev <= known'[x.fact].rev
      OBVIOUS
    <3>1. x.fact \in Facts /\ x.rev \in Nat
      BY <2>1 DEF Revision
    <3>2. known[x.fact].rev \in Nat /\ known'[x.fact].rev \in Nat
      BY <3>1 DEF TailorInv
    <3>3. x.rev <= known[x.fact].rev /\ known[x.fact].rev <= known'[x.fact].rev
      BY <2>1, <3>1 DEF NotAhead
    <3> QED
      BY <3>1, <3>2, <3>3
  <2> QED
    BY <2>2 DEF NotAhead, now
<1>2. ASSUME NEW c \in cachedCv PROVE EntryInv(c)'
  <2>1. PICK from : Genuine(c.cv, from) /\ IdsOf(from) \subseteq c.key /\ NotAhead(from)
    BY DEF TailorInv, EntryInv
  <2>2. from \subseteq Revision
    BY <2>1 DEF Genuine
  <2>3. NotAhead(from)'
    BY <2>1, <2>2, KnownGrows DEF TailorInv
  <2> QED
    BY <2>1, <2>3 DEF EntryInv
<1> QED
  BY <1>1, <1>2 DEF TailorInv

\* A résumé is returned as it was made, without a letter.
LEMMA ReturnKeeps ==
  ASSUME NEW cv, NEW basis, NEW fresh, Returns(cv, basis, fresh),
         basis \subseteq Revision, CvInv(cv, basis, fresh)
  PROVE  /\ delivered'.basis \subseteq Revision
         /\ CvInv(delivered'.cv, delivered'.basis, delivered'.fresh)
         /\ letter' \subseteq Supported(delivered'.cv)
<1>1. delivered'.cv = cv /\ delivered'.basis = basis /\ delivered'.fresh = fresh /\ letter' = {}
  BY DEF Returns
<1> QED
  BY <1>1

\* What was just made is.
LEMMA FreshIs ==
  ASSUME NEW cv, NEW basis, Genuine(cv, basis)
  PROVE  CvInv(cv, basis, TRUE)
<1>1. NoLater(basis, basis)
  <2>1. \A x \in basis : x.rev \in Nat
    BY DEF Genuine, Revision
  <2>2. \A x \in basis : x.rev <= x.rev
    BY <2>1
  <2> QED
    BY <2>2 DEF NoLater
<1> QED
  BY <1>1 DEF CvInv

\* What was cached for the facts found now is of these facts, and not ahead of them.
LEMMA CachedIs ==
  ASSUME TailorInv, NEW c \in cachedCv, NEW found \in Retrievable, c.key = IdsOf(BasisOf(found))
  PROVE  CvInv(c.cv, BasisOf(found), FALSE)
<1> DEFINE now == BasisOf(found)
<1>1. PICK from : Genuine(c.cv, from) /\ IdsOf(from) \subseteq c.key /\ NotAhead(from)
  BY DEF TailorInv, EntryInv
<1>2. \A x \in now : x.rev = known[x.fact].rev
  BY BasisIsNow
<1> HIDE DEF now
<1>3. ASSUME NEW x \in from PROVE \E k \in now : k.fact = x.fact /\ x.rev <= k.rev
  <2>1. x.fact \in IdsOf(now)
    BY <1>1 DEF IdsOf, now
  <2>2. PICK k \in now : k.fact = x.fact
    BY <2>1 DEF IdsOf
  <2> QED
    BY <1>1, <1>2, <2>2 DEF NotAhead
<1> QED
  BY <1>1, <1>3 DEF CvInv, NoLater, now

\* An empty résumé invents nothing.
LEMMA NothingPrinted == Genuine(NoCv, {})
<1>1. NoCv.bullets = <<>> /\ Len(<<>>) = 0 /\ DOMAIN <<>> = {} /\ <<>> \in Seq(Line)
      /\ NoCv.summary = {} /\ NoCv.details = {}
  BY DEF NoCv
<1>2. Drawn(NoCv.bullets, {}) /\ Fits(NoCv.bullets)
  BY <1>1, TailorNumbers DEF Drawn, Fits
<1> QED
  BY <1>1, <1>2 DEF Genuine, Sourced

\* What holds before the first search.
LEMMA TailorInvInit == TailorInit => TailorInv
<1> SUFFICES ASSUME TailorInit PROVE TailorInv
  OBVIOUS
<1>1. known \in [Facts -> [rev : Nat, live : BOOLEAN]]
  BY DEF TailorInit
<1>2. session.at # "asked"
  BY DEF TailorInit, NothingAsked
<1>3. delivered.cv = NoCv /\ delivered.basis = {} /\ delivered.fresh = TRUE
  BY DEF TailorInit
<1>4. CvInv(delivered.cv, delivered.basis, delivered.fresh)
  BY <1>3, NothingPrinted, FreshIs
<1>5. letter = {} /\ cachedCv = {} /\ cachedLtr = {}
  BY DEF TailorInit
<1> QED
  BY <1>1, <1>2, <1>3, <1>4, <1>5 DEF TailorInv

\* A session that ends in the fallback keeps the invariant.
LEMMA FallsBackKeeps ==
  ASSUME TailorInv, session.at = "asked", FallsBack(session.basis), session' = NothingAsked,
         UNCHANGED <<known, cachedLtr>>
  PROVE  TailorInv'
<1>1. PICK ranked \in Rankings(session.basis) : Returns(Fallback(ranked), session.basis, TRUE)
  BY DEF FallsBack
<1>2. session'.at # "asked" /\ UNCHANGED <<known, cachedCv, cachedLtr>>
  BY DEF FallsBack, NothingAsked
<1>3. session.basis \subseteq Revision /\ Genuine(Fallback(ranked), session.basis)
  BY FallbackIs DEF TailorInv, IsBasis
<1>4. CvInv(Fallback(ranked), session.basis, TRUE)
  BY <1>3, FreshIs
<1>5. /\ delivered'.basis \subseteq Revision
      /\ CvInv(delivered'.cv, delivered'.basis, delivered'.fresh)
      /\ letter' \subseteq Supported(delivered'.cv)
  BY <1>1, <1>3, <1>4, ReturnKeeps
<1> QED
  BY <1>2, <1>5 DEF TailorInv, EntryInv, NotAhead

\* Every step of a generation keeps the invariant.
LEMMA TailorInvStep == TailorInv /\ [TailorNext]_tailorVars => TailorInv'
<1> SUFFICES ASSUME TailorInv, [TailorNext]_tailorVars PROVE TailorInv'
  OBVIOUS
<1>0. known \in [Facts -> [rev : Nat, live : BOOLEAN]]
  BY DEF TailorInv
<1>1. ASSUME NEW f \in Facts, Rewords(f) PROVE TailorInv'
  <2>1. /\ known' \in [Facts -> [rev : Nat, live : BOOLEAN]]
        /\ \A g \in Facts : known[g].rev <= known'[g].rev
    BY <1>0, <1>1 DEF Rewords
  <2>2. UNCHANGED <<cachedCv, cachedLtr, session, delivered, letter>>
    BY <1>1 DEF Rewords
  <2> QED
    BY <2>1, <2>2, ChangeKeeps
<1>2. ASSUME NEW f \in Facts, Retires(f) PROVE TailorInv'
  <2>1. /\ known' \in [Facts -> [rev : Nat, live : BOOLEAN]]
        /\ \A g \in Facts : known[g].rev <= known'[g].rev
    <3> DEFINE r == [known[f] EXCEPT !.live = FALSE]
    <3>1. known' = [known EXCEPT ![f] = r]
      BY <1>2 DEF Retires
    <3>2. r \in [rev : Nat, live : BOOLEAN] /\ r.rev = known[f].rev
      BY <1>0
    <3> HIDE DEF r
    <3>3. \A g \in Facts : known'[g].rev = known[g].rev /\ known[g].rev \in Nat
      BY <1>0, <3>1, <3>2
    <3>4. \A g \in Facts : known[g].rev <= known'[g].rev
      BY <3>3
    <3> QED
      BY <1>0, <3>1, <3>2, <3>4
  <2>2. UNCHANGED <<cachedCv, cachedLtr, session, delivered, letter>>
    BY <1>2 DEF Retires
  <2> QED
    BY <2>1, <2>2, ChangeKeeps
<1>3. ASSUME Retrieve PROVE TailorInv'
  <2>1. PICK found \in Retrievable :
          LET basis == BasisOf(found) IN
          \/ basis = {} /\ Returns(NoCv, {}, TRUE) /\ session' = session
          \/ \E c \in cachedCv :
               c.key = IdsOf(basis) /\ Returns(c.cv, basis, FALSE) /\ session' = session
          \/ /\ basis # {} /\ session' = [at |-> "asked", basis |-> basis]
             /\ UNCHANGED <<delivered, letter>>
    BY <1>3, Zenon DEF Retrieve
  <2> DEFINE now == BasisOf(found)
  <2>2. UNCHANGED <<known, cachedCv, cachedLtr>>
    BY <1>3, Zenon DEF Retrieve
  <2>3. IsBasis(now) /\ now \subseteq Revision
    BY <1>0, BasisIs DEF IsBasis
  <2>4. CASE Returns(NoCv, {}, TRUE) /\ session' = session
    <3>1. CvInv(NoCv, {}, TRUE)
      BY NothingPrinted, FreshIs
    <3>2. /\ delivered'.basis \subseteq Revision
          /\ CvInv(delivered'.cv, delivered'.basis, delivered'.fresh)
          /\ letter' \subseteq Supported(delivered'.cv)
      <4>1. /\ delivered'.cv = NoCv /\ delivered'.basis = {} /\ delivered'.fresh = TRUE
            /\ letter' = {}
        BY <2>4 DEF Returns
      <4> QED
        BY <3>1, <4>1
    <3> QED
      BY <2>2, <2>4, <3>2 DEF TailorInv, EntryInv, NotAhead
  <2>5. CASE \E c \in cachedCv :
               c.key = IdsOf(now) /\ Returns(c.cv, now, FALSE) /\ session' = session
    <3>1. PICK c \in cachedCv : c.key = IdsOf(now) /\ Returns(c.cv, now, FALSE) /\ session' = session
      BY <2>5
    <3>2. CvInv(c.cv, now, FALSE)
      BY <3>1, CachedIs
    <3>3. /\ delivered'.basis \subseteq Revision
          /\ CvInv(delivered'.cv, delivered'.basis, delivered'.fresh)
          /\ letter' \subseteq Supported(delivered'.cv)
      BY <2>3, <3>1, <3>2, ReturnKeeps
    <3> QED
      BY <2>2, <3>1, <3>3 DEF TailorInv, EntryInv, NotAhead
  <2>6. CASE session' = [at |-> "asked", basis |-> now] /\ UNCHANGED <<delivered, letter>>
    <3>1. \A x \in now : x.rev <= known'[x.fact].rev
      <4> SUFFICES ASSUME NEW x \in now PROVE x.rev <= known'[x.fact].rev
        OBVIOUS
      <4>1. x.rev = known[x.fact].rev /\ x \in Revision
        BY <2>3, BasisIsNow
      <4> HIDE DEF now
      <4> QED
        BY <2>2, <4>1 DEF Revision
    <3>2. session'.basis = now
      BY <2>6
    <3> HIDE DEF now
    <3>3. IsBasis(session.basis)' /\ NotAhead(session.basis)'
      BY <2>3, <3>1, <3>2 DEF NotAhead, IsBasis
    <3> QED
      BY <2>2, <2>6, <3>3 DEF TailorInv, EntryInv, NotAhead
  <2> QED
    BY <2>1, <2>4, <2>5, <2>6, Zenon
<1>4. ASSUME Answered PROVE TailorInv'
  <2>1. session.at = "asked" /\ session' = NothingAsked /\ UNCHANGED <<known, cachedLtr>>
    BY <1>4, Zenon DEF Answered
  <2>2. PICK reply \in RawReplies :
          LET bullets == Validate(reply, session.basis) IN
          \/ bullets = <<>> /\ FallsBack(session.basis)
          \/ /\ bullets # <<>>
             /\ \E summary \in {Summary(cited, bullets) : cited \in Citations} :
                  LET cv  == Assemble(bullets, summary)
                      key == IdsOf(session.basis)
                  IN /\ Returns(cv, session.basis, TRUE)
                     /\ cachedCv' = {c \in cachedCv : c.key # key} \cup {[key |-> key, cv |-> cv]}
    BY <1>4, Zenon DEF Answered
  <2> DEFINE bullets == Validate(reply, session.basis)
             key == IdsOf(session.basis)
  <2>3. CASE FallsBack(session.basis)
    BY <2>1, <2>3, FallsBackKeeps
  <2>4. ASSUME NEW cited \in Citations,
               LET cv == Assemble(bullets, Summary(cited, bullets))
               IN /\ Returns(cv, session.basis, TRUE)
                  /\ cachedCv' = {c \in cachedCv : c.key # key} \cup {[key |-> key, cv |-> cv]}
        PROVE  TailorInv'
    <3> DEFINE cv == Assemble(bullets, Summary(cited, bullets))
               entry == [key |-> key, cv |-> cv]
    <3>1. IsBasis(session.basis) /\ session.basis \subseteq Revision /\ NotAhead(session.basis)
      BY <2>1 DEF TailorInv, IsBasis
    <3>2. Drawn(bullets, session.basis)
      BY <3>1, ValidatedIs
    <3>3. Genuine(cv, session.basis)
      <4> HIDE DEF bullets
      <4> QED
        BY <3>1, <3>2, SummarySourced, AssembledIs
    <3>4. Returns(cv, session.basis, TRUE)
          /\ cachedCv' = {c \in cachedCv : c.key # key} \cup {entry}
      BY <2>4
    <3>5. entry.cv = cv /\ entry.key = IdsOf(session.basis)
      OBVIOUS
    <3> HIDE DEF bullets, key, cv, entry
    <3>6. CvInv(cv, session.basis, TRUE)
      BY <3>3, FreshIs
    <3>7. /\ delivered'.basis \subseteq Revision
          /\ CvInv(delivered'.cv, delivered'.basis, delivered'.fresh)
          /\ letter' \subseteq Supported(delivered'.cv)
      BY <3>1, <3>4, <3>6, ReturnKeeps
    <3>8. ASSUME NEW c \in cachedCv' PROVE EntryInv(c)'
      <4>1. EntryInv(entry)
        BY <3>1, <3>3, <3>5 DEF EntryInv
      <4>2. EntryInv(c)
        BY <3>4, <4>1 DEF TailorInv
      <4> QED
        BY <2>1, <4>2 DEF EntryInv, NotAhead
    <3>9. session'.at # "asked"
      BY <2>1 DEF NothingAsked
    <3> QED
      BY <1>0, <2>1, <3>7, <3>8, <3>9 DEF TailorInv
  <2> HIDE DEF bullets, key
  <2>5. \/ FallsBack(session.basis)
        \/ \E cited \in Citations :
             LET cv == Assemble(bullets, Summary(cited, bullets))
             IN /\ Returns(cv, session.basis, TRUE)
                /\ cachedCv' = {c \in cachedCv : c.key # key} \cup {[key |-> key, cv |-> cv]}
    BY <2>2, Zenon DEF bullets, key
  <2> QED
    BY <2>3, <2>4, <2>5, Zenon
<1>5. ASSUME Unanswered PROVE TailorInv'
  BY <1>5, FallsBackKeeps DEF Unanswered
<1>6. ASSUME WriteCoverLetter PROVE TailorInv'
  <2> DEFINE cv == delivered.cv
             S == Supported(cv)
  <2>1. UNCHANGED <<known, cachedCv, session, delivered>>
    BY <1>6, Zenon DEF WriteCoverLetter
  <2>2. \/ \E c \in cachedLtr : c.key = cv /\ letter' = c.states /\ cachedLtr' = cachedLtr
        \/ \E cited \in Citations :
             /\ letter' = cited \cap S
             /\ cachedLtr' = {c \in cachedLtr : c.key # cv} \cup
                               {[key |-> cv, states |-> cited \cap S]}
        \/ letter' = S /\ cachedLtr' = cachedLtr
    BY <1>6, Zenon DEF WriteCoverLetter, LetterKey
  <2>3. \A c \in cachedLtr : c.states \subseteq Supported(c.key)
    BY DEF TailorInv
  <2>4. letter' \subseteq S /\ \A c \in cachedLtr' : c.states \subseteq Supported(c.key)
    <3>1. ASSUME NEW c \in cachedLtr, c.key = cv, letter' = c.states, cachedLtr' = cachedLtr
          PROVE  letter' \subseteq S /\ \A d \in cachedLtr' : d.states \subseteq Supported(d.key)
      BY <2>3, <3>1
    <3>2. ASSUME NEW cited \in Citations, letter' = cited \cap S,
                 cachedLtr' = {c \in cachedLtr : c.key # cv} \cup
                               {[key |-> cv, states |-> cited \cap S]}
          PROVE  letter' \subseteq S /\ \A d \in cachedLtr' : d.states \subseteq Supported(d.key)
      BY <2>3, <3>2
    <3>3. ASSUME letter' = S, cachedLtr' = cachedLtr
          PROVE  letter' \subseteq S /\ \A d \in cachedLtr' : d.states \subseteq Supported(d.key)
      BY <2>3, <3>3
    <3> QED
      BY <2>2, <3>1, <3>2, <3>3
  <2>5. delivered'.cv = cv
    BY <2>1
  <2> HIDE DEF S, cv
  <2>6. letter' \subseteq Supported(delivered'.cv)
    BY <2>4, <2>5 DEF S
  <2> QED
    BY <2>1, <2>4, <2>6 DEF TailorInv, EntryInv, NotAhead
<1>7. ASSUME Expires PROVE TailorInv'
  <2>1. cachedCv' = {} /\ cachedLtr' = {} /\ UNCHANGED <<known, session, delivered, letter>>
    BY <1>7 DEF Expires
  <2> QED
    BY <2>1 DEF TailorInv, NotAhead
<1>8. ASSUME UNCHANGED tailorVars PROVE TailorInv'
  BY <1>8 DEF tailorVars, TailorInv, EntryInv, NotAhead
<1> QED
  BY <1>1, <1>2, <1>3, <1>4, <1>5, <1>6, <1>7, <1>8 DEF TailorNext

\* Whatever the model replies and whatever was cached, a bullet prints a fact that was retrieved,
\* in the revision retrieved or, from the cache, an earlier one, once and within the budget;
\* every number printed is the posting's or a retrieved fact's; and the letter states numbers
\* of the posting and of the résumé it is sent with.
THEOREM NothingInvented == TailorSpec => []NothingIsInvented
<1>1. TailorInv => NothingIsInvented
  <2> SUFFICES ASSUME TailorInv PROVE NothingIsInvented
    OBVIOUS
  <2> DEFINE cv == delivered.cv
             bullets == cv.bullets
  <2>1. PICK from : /\ Genuine(cv, from) /\ NoLater(from, delivered.basis)
                    /\ (delivered.fresh => from \subseteq delivered.basis)
    BY DEF TailorInv, CvInv
  <2>2. ASSUME NEW x \in from PROVE Traces(x.fact, x.rev)
    <3>1. PICK k \in delivered.basis : k.fact = x.fact /\ x.rev <= k.rev
      BY <2>1 DEF NoLater
    <3>2. x.rev \in Nat /\ k.rev \in Nat
      BY <2>1 DEF Genuine, TailorInv, Revision
    <3>3. CASE delivered.fresh
      BY <2>1, <3>3 DEF Traces
    <3>4. CASE ~delivered.fresh
      BY <3>1, <3>2, <3>4 DEF Traces
    <3> QED
      BY <3>3, <3>4
  <2>3. \A i \in DOMAIN bullets : Read(bullets[i].fact, bullets[i].rev) \in from
    BY <2>1 DEF Genuine, Drawn, Read
  <2>4. \A f, r : Read(f, r) \in from => Traces(f, r)
    <3> SUFFICES ASSUME NEW f, NEW r, Read(f, r) \in from PROVE Traces(f, r)
      OBVIOUS
    <3>1. Traces(Read(f, r).fact, Read(f, r).rev)
      BY <2>2
    <3> QED
      BY <3>1 DEF Read
  <2>5. \A b \in ToSet(bullets) : Traces(b.fact, b.rev)
    BY <2>3, <2>4 DEF ToSet
  <2>6. \A n \in Printed(cv) : n = OfPosting \/ Traces(n.of, n.rev)
    <3>1. Sourced(cv.summary, from) /\ Sourced(cv.details, from)
          /\ Sourced(NumbersOf(bullets, "text"), from)
      BY <2>1, NumbersSourced DEF Genuine
    <3>2. Sourced(Printed(cv), from)
      BY <3>1 DEF Sourced, Printed
    <3> QED
      BY <2>4, <3>2 DEF Sourced
  <2>7. /\ \A i, j \in DOMAIN bullets : bullets[i].fact = bullets[j].fact => i = j
        /\ Fits(bullets)
    BY <2>1 DEF Genuine, Drawn
  <2>8. {b.under : b \in ToSet(bullets)} = Sections(bullets)
    BY DEF Sections, ToSet
  <2>9. letter \subseteq Supported(cv)
    BY DEF TailorInv
  <2> QED
    BY <2>5, <2>6, <2>7, <2>8, <2>9 DEF NothingIsInvented, Fits
<1> QED
  BY <1>1, TailorInvInit, TailorInvStep, PTL DEF TailorSpec

-----------------------------------------------------------------------------
(* Embeddings.                                                             *)

Founds == UNION {[D -> AnyVector] : D \in SUBSET Words}
Request ==
  [at : {"idle", "embed", "done", "failed"}, texts : Inputs \cup {<<>>}, found : Founds,
   misses : Seq(Words), fresh : Seq(AnyVector), tries : 1 .. Attempts, result : Seq(AnyVector)]

\* The vector of w by the model with identity by.
VectorBy(by, w) == [by |-> by, of |-> w]

\* While a call is answered, its words are those found and those missing, each missing word
\* is missing once, and the vectors so far are those of the first of them.
Serves(req, by) ==
  /\ req.texts \in Inputs
  /\ \A m, n \in DOMAIN req.misses : req.misses[m] = req.misses[n] => m = n
  /\ DOMAIN req.found \cup ToSet(req.misses) = WordsIn(req.texts)
  /\ \A w \in DOMAIN req.found : req.found[w] = VectorBy(by, w)
  /\ Len(req.fresh) <= Len(req.misses)
  /\ \A n \in 1 .. Len(req.fresh) : req.fresh[n] = VectorBy(by, req.misses[n])
ServedAs(req, by) ==
  /\ DOMAIN req.result = DOMAIN req.texts
  /\ \A i \in DOMAIN req.texts :
       req.result[i] = IF req.texts[i] = NoText THEN Zero ELSE VectorBy(by, req.texts[i])

\* Whatever the cache holds is filed under the words and the model it is of.
EmbedInv ==
  /\ settings \in Settings /\ restarts \in 0 .. MaxRestarts
  /\ DOMAIN vectorCache \subseteq Keys
  /\ \A k \in DOMAIN vectorCache : k.by \in Identities /\ vectorCache[k] = k
  /\ embedding \in [EmbedCalls -> Request]
  /\ \A c \in EmbedCalls :
       /\ embedding[c].at = "embed" => Serves(embedding[c], Identity)
       /\ embedding[c].at = "done" => ServedAs(embedding[c], Identity)

\* A batch holds something, and a request is made at least once.
LEMMA EmbedNumbers ==
  /\ BatchSize \in Nat /\ BatchSize > 0 /\ Attempts \in Nat /\ Attempts > 0
  /\ MaxRestarts \in Nat /\ Inputs \subseteq Seq(STRING)
<1> QED
  BY EmbeddingsAssumption

\* A call that is idle, or failed, is a request that holds nothing.
LEMMA QuietIs ==
  /\ Quiet \in Request /\ [Quiet EXCEPT !.at = "failed"] \in Request
  /\ Quiet.at = "idle" /\ [Quiet EXCEPT !.at = "failed"].at = "failed"
<1>1. <<>> \in Founds
  <2>1. <<>> \in [{} -> AnyVector]
    OBVIOUS
  <2> QED
    BY <2>1 DEF Founds
<1>2. 1 \in 1 .. Attempts
  BY EmbedNumbers
<1>3. Quiet \in Request /\ Quiet.at = "idle"
  BY <1>1, <1>2 DEF Quiet, Request
<1> DEFINE failed == [Quiet EXCEPT !.at = "failed"]
<1>4. failed \in Request /\ failed.at = "failed"
  BY <1>3 DEF Request
<1> QED
  BY <1>3, <1>4

\* What the settings select is one of the models.
LEMMA IdentityIs == settings \in Settings => Identity \in Identities
<1> SUFFICES ASSUME settings \in Settings PROVE Identity \in Identities
  OBVIOUS
<1>1. CASE Provider = "hashing"
  BY <1>1 DEF Identity, Identities
<1>2. CASE Provider # "hashing"
  <2>1. Provider = settings.provider
    BY <1>2 DEF Provider
  <2> QED
    BY <1>2, <2>1 DEF Identity, Identities
<1> QED
  BY <1>1, <1>2

\* A word is in a list where it occurs first.
LEMMA FirstOccurrences ==
  ASSUME NEW texts \in Seq(STRING)
  PROVE  /\ Distinct(texts) \subseteq DOMAIN texts
         /\ \A i \in Distinct(texts) : texts[i] \in WordsIn(texts)
         /\ \A w \in WordsIn(texts) : \E i \in Distinct(texts) : texts[i] = w
         /\ \A i, j \in Distinct(texts) : texts[i] = texts[j] => i = j
<1>0. DOMAIN texts = 1 .. Len(texts) /\ Len(texts) \in Nat
  OBVIOUS
<1>1. Distinct(texts) \subseteq DOMAIN texts /\ \A i \in Distinct(texts) : texts[i] \in WordsIn(texts)
  BY DEF Distinct, WordsIn, ToSet
<1>2. ASSUME NEW w \in WordsIn(texts) PROVE \E i \in Distinct(texts) : texts[i] = w
  <2> DEFINE S == {i \in DOMAIN texts : texts[i] = w}
  <2>1. S \subseteq Nat /\ S # {} /\ w # NoText
    BY <1>0 DEF WordsIn, ToSet
  <2>2. PICK m \in S : \A k \in S : m <= k
    <3> HIDE DEF S
    <3> QED
      BY <2>1, SmallestIn
  <2>3. ASSUME NEW j \in 1 .. (m - 1), texts[j] = w PROVE FALSE
    <3>1. j \in S /\ m \in 1 .. Len(texts)
      BY <1>0, <2>2, <2>3
    <3> QED
      BY <2>2, <2>3, <3>1
  <2> QED
    BY <2>1, <2>2, <2>3 DEF Distinct
<1>3. ASSUME NEW i \in Distinct(texts), NEW j \in Distinct(texts), texts[i] = texts[j]
      PROVE  i = j
  <2>1. i \in 1 .. Len(texts) /\ j \in 1 .. Len(texts)
    BY <1>0, <1>1
  <2>2. ~(i < j) /\ ~(j < i)
    BY <1>3, <2>1 DEF Distinct
  <2> QED
    BY <2>1, <2>2
<1> QED
  BY <1>1, <1>2, <1>3

\* However an endpoint orders its answer, the vectors are read in the order of the texts.
LEMMA ReadInOrder ==
  ASSUME NEW window \in Seq(Words), NEW answer \in EmbedReplies(window)
  PROVE  ReadVectors(answer) = [n \in DOMAIN window |-> VectorBy(Identity, window[n])]
<1> DEFINE D == DOMAIN window
<1>0. Len(window) \in Nat /\ D = 1 .. Len(window)
  OBVIOUS
<1>1. PICK p \in Orders(window) :
        answer = [i \in D |-> [index |-> p[i], vector |-> Vector(window[p[i]])]]
  BY DEF EmbedReplies
<1>2. p \in Injection(D, D)
  BY <1>1 DEF Orders, Injection, IsInjective
<1>3. IsFiniteSet(D) /\ Cardinality(D) = Len(window)
  <2>1. \A n \in Nat : IsFiniteSet(1 .. n) /\ Cardinality(1 .. n) = IF 1 > n THEN 0 ELSE n - 1 + 1
    BY FS_Interval
  <2> QED
    BY <1>0, <2>1
<1> HIDE DEF D
<1>4. p \in [D -> D] /\ \A n \in D : \E i \in D : p[i] = n
  <2>1. p \in Surjection(D, D)
    BY <1>2, <1>3, FS_Injection
  <2> QED
    BY <2>1 DEF Surjection
<1>5. DOMAIN answer = D /\ \A i \in D : answer[i].index = p[i] /\ answer[i].vector = Vector(window[p[i]])
  BY <1>1
<1> DEFINE indexes == {item.index : item \in ToSet(answer)}
<1>6. indexes = D
  BY <1>4, <1>5 DEF ToSet
<1>7. \A n \in D : Nth(D, n) = n
  <2> DEFINE g == [n \in D |-> Nth(D, n)]
  <2>1. /\ \A n \in 1 .. Len(window) : Nth(D, n) \in D
        /\ \A m, n \in 1 .. Len(window) : m < n => Nth(D, m) < Nth(D, n)
    <3>1. D \subseteq Int
      BY <1>0
    <3> QED
      BY <1>3, <3>1, NthIs
  <2>2. g \in [1 .. Len(window) -> 1 .. Len(window)]
    BY <1>0, <2>1
  <2>3. \A m, n \in 1 .. Len(window) : m < n => g[m] < g[n]
    BY <1>0, <2>1
  <2> HIDE DEF g
  <2>4. \A n \in 1 .. Len(window) : g[n] = n
    BY <1>0, <2>2, <2>3, IncreasingIsIdentity
  <2> QED
    BY <1>0, <2>4 DEF g
<1> HIDE DEF indexes
<1> DEFINE Item(n) == CHOOSE item \in ToSet(answer) : item.index = Nth(indexes, n)
<1>8. ASSUME NEW n \in D PROVE Item(n).vector = VectorBy(Identity, window[n])
  <2>1. Nth(indexes, n) = n
    BY <1>6, <1>7
  <2>2. \E item \in ToSet(answer) : item.index = Nth(indexes, n)
    BY <1>4, <1>5, <2>1 DEF ToSet
  <2>3. Item(n) \in ToSet(answer) /\ Item(n).index = Nth(indexes, n)
    BY <2>2
  <2> HIDE DEF Item
  <2>4. PICK j \in D : Item(n) = answer[j]
    BY <1>5, <2>3 DEF ToSet
  <2>5. p[j] = n
    BY <1>5, <2>1, <2>3, <2>4
  <2> QED
    BY <1>5, <2>4, <2>5 DEF Vector, VectorBy
<1>9. ReadVectors(answer) = [n \in D |-> Item(n).vector]
  BY <1>5 DEF ReadVectors, indexes
<1> HIDE DEF Item
<1> QED
  BY <1>8, <1>9 DEF D

\* A batch holds the missing words that come next.
LEMMA WindowIs ==
  ASSUME NEW req \in Request, Len(req.fresh) < Len(req.misses)
  PROVE  /\ Window(req) \in Seq(Words) /\ Len(Window(req)) > 0
         /\ Len(req.fresh) + Len(Window(req)) <= Len(req.misses)
         /\ \A n \in 1 .. Len(Window(req)) : Window(req)[n] = req.misses[Len(req.fresh) + n]
<1> DEFINE size == IF Provider = "hashing" THEN Len(req.misses) ELSE BatchSize
           a == Len(req.fresh) + 1
           z == Min({Len(req.fresh) + size, Len(req.misses)})
<1>1. /\ req.misses \in Seq(Words) /\ Len(req.misses) \in Nat
      /\ req.fresh \in Seq(AnyVector) /\ Len(req.fresh) \in Nat
  BY DEF Request
<1>2. size \in Nat /\ size > 0
  BY <1>1, EmbedNumbers
<1> HIDE DEF size
<1>3. z \in Nat /\ z >= a /\ z <= Len(req.misses) /\ a \in Nat /\ a >= 1
  BY <1>1, <1>2, LesserAndGreater DEF Min
<1>4. Window(req) = SubSeq(req.misses, a, z)
  BY DEF Window, size
<1> HIDE DEF a, z
<1>5. /\ SubSeq(req.misses, a, z) \in Seq(Words) /\ Len(SubSeq(req.misses, a, z)) = z - a + 1
      /\ \A n \in 1 .. (z - a + 1) : SubSeq(req.misses, a, z)[n] = req.misses[a + n - 1]
  BY <1>1, <1>3
<1>6. a = Len(req.fresh) + 1
  BY DEF a
<1>7. \A n \in 1 .. (z - a + 1) : a + n - 1 = Len(req.fresh) + n
  BY <1>1, <1>3, <1>6
<1>8. Len(Window(req)) = z - a + 1 /\ Window(req) \in Seq(Words)
      /\ \A n \in 1 .. (z - a + 1) : Window(req)[n] = req.misses[Len(req.fresh) + n]
  BY <1>4, <1>5, <1>7
<1> QED
  BY <1>1, <1>3, <1>6, <1>8

\* What holds before the first call.
LEMMA EmbedInvInit == EmbedInit => EmbedInv
<1> SUFFICES ASSUME EmbedInit PROVE EmbedInv
  OBVIOUS
<1>1. embedding \in [EmbedCalls -> Request] /\ \A c \in EmbedCalls : embedding[c].at = "idle"
  BY QuietIs DEF EmbedInit
<1>2. restarts \in 0 .. MaxRestarts
  BY EmbedNumbers DEF EmbedInit
<1> QED
  BY <1>1, <1>2 DEF EmbedInit, EmbedInv

\* A step of one call that leaves the cache alone.
LEMMA OneCall ==
  ASSUME EmbedInv, NEW c \in EmbedCalls, NEW req \in Request,
         embedding' = [embedding EXCEPT ![c] = req], UNCHANGED <<settings, restarts>>,
         DOMAIN vectorCache' \subseteq Keys,
         \A k \in DOMAIN vectorCache' : k.by \in Identities /\ vectorCache'[k] = k,
         req.at = "embed" => Serves(req, Identity),
         req.at = "done" => ServedAs(req, Identity)
  PROVE  EmbedInv'
<1>1. Identity' = Identity
  BY DEF Identity, Provider
<1>2. embedding' \in [EmbedCalls -> Request] /\ embedding'[c] = req
      /\ \A d \in EmbedCalls \ {c} : embedding'[d] = embedding[d]
  BY DEF EmbedInv
<1>3. \A d \in EmbedCalls :
        /\ embedding'[d].at = "embed" => Serves(embedding'[d], Identity')
        /\ embedding'[d].at = "done" => ServedAs(embedding'[d], Identity')
  BY <1>1, <1>2 DEF EmbedInv
<1> QED
  BY <1>2, <1>3 DEF EmbedInv

\* Looking its words up, a call takes only vectors of the model it runs with.
LEMMA LookupKeeps ==
  ASSUME EmbedInv, NEW c \in EmbedCalls, Lookup(c)
  PROVE  EmbedInv'
<1> DEFINE hit(w) == settings.caching /\ CacheKey(w) \in DOMAIN vectorCache
<1>1. PICK texts \in Inputs :
        embedding' = [embedding EXCEPT ![c] =
            [Quiet EXCEPT !.at = "embed", !.texts = texts,
                          !.misses = Subsequence(texts, {i \in Distinct(texts) : ~hit(texts[i])}),
                          !.found = [w \in {v \in WordsIn(texts) : hit(v)} |->
                                       vectorCache[CacheKey(w)]]]]
  BY Zenon DEF Lookup
<1> HIDE DEF hit
<1> DEFINE P == {i \in Distinct(texts) : ~hit(texts[i])}
           misses == Subsequence(texts, P)
           H == {v \in WordsIn(texts) : hit(v)}
           found == [w \in H |-> vectorCache[CacheKey(w)]]
           q == Quiet
           req == [q EXCEPT !.at = "embed", !.texts = texts, !.misses = misses, !.found = found]
<1>2. texts \in Seq(STRING) /\ WordsIn(texts) \subseteq Words
  BY EmbedNumbers DEF Words
<1>3. /\ P \subseteq DOMAIN texts
      /\ \A i \in P : texts[i] \in WordsIn(texts) /\ ~hit(texts[i])
      /\ \A w \in WordsIn(texts) : ~hit(w) => \E i \in P : texts[i] = w
      /\ \A i, j \in P : texts[i] = texts[j] => i = j
  BY <1>2, FirstOccurrences
<1> HIDE DEF P
<1>4. /\ Cardinality(P) \in Nat
      /\ misses \in Seq(STRING) /\ Len(misses) = Cardinality(P)
      /\ DOMAIN misses = 1 .. Cardinality(P)
      /\ \A n \in 1 .. Cardinality(P) : \E i \in P : misses[n] = texts[i]
      /\ \A i \in P : \E n \in 1 .. Cardinality(P) : misses[n] = texts[i]
      /\ \A m, n \in 1 .. Cardinality(P) : misses[m] = misses[n] => m = n
  BY <1>2, <1>3, SubsequenceIs
<1> HIDE DEF misses
<1>5. ToSet(misses) = WordsIn(texts) \ H
  <2>1. ToSet(misses) = {texts[i] : i \in P}
    BY <1>4 DEF ToSet
  <2> QED
    BY <1>3, <2>1
<1>6. misses \in Seq(Words)
  BY <1>2, <1>4, <1>5 DEF ToSet
<1>7. \A w \in H : found[w] = VectorBy(Identity, w) /\ found[w] \in AnyVector
  <2> SUFFICES ASSUME NEW w \in H
               PROVE  found[w] = VectorBy(Identity, w) /\ found[w] \in AnyVector
    OBVIOUS
  <2>1. CacheKey(w) \in DOMAIN vectorCache /\ w \in Words
    BY <1>2 DEF hit
  <2>2. vectorCache[CacheKey(w)] = CacheKey(w) /\ Identity \in Identities
    BY <2>1, IdentityIs DEF EmbedInv
  <2> QED
    BY <2>1, <2>2 DEF CacheKey, VectorBy, AnyVector
<1>8. found \in Founds /\ DOMAIN found = H
  <2>1. H \in SUBSET Words
    BY <1>2
  <2> HIDE DEF H
  <2>2. found \in [H -> AnyVector]
    BY <1>7
  <2> HIDE DEF found
  <2> QED
    BY <2>1, <2>2 DEF Founds
<1> HIDE DEF found
<1>9. q \in Request /\ q.fresh = <<>>
  BY QuietIs DEF Quiet
<1> HIDE DEF q
<1>10. /\ req \in Request /\ req.at = "embed" /\ req.texts = texts /\ req.misses = misses
       /\ req.found = found /\ req.fresh = <<>>
  BY <1>6, <1>8, <1>9 DEF Request
<1>11. Serves(req, Identity)
  <2>1. DOMAIN found \cup ToSet(misses) = WordsIn(texts)
    BY <1>5, <1>8
  <2>2. \A w \in DOMAIN found : found[w] = VectorBy(Identity, w)
    BY <1>7, <1>8
  <2>3. Len(<<>>) <= Len(misses) /\ 1 .. Len(<<>>) = {}
    BY <1>4
  <2> HIDE DEF req, H
  <2> QED
    BY <1>4, <1>10, <2>1, <2>2, <2>3 DEF Serves
<1>12. embedding' = [embedding EXCEPT ![c] = req]
  BY <1>1 DEF P, misses, found, q
<1> HIDE DEF req
<1>13. UNCHANGED <<vectorCache, settings, restarts>>
  BY Zenon DEF Lookup
<1>14. DOMAIN vectorCache' \subseteq Keys /\ \A k \in DOMAIN vectorCache' : k.by \in Identities /\ vectorCache'[k] = k
  BY <1>13 DEF EmbedInv
<1> QED
  BY <1>10, <1>11, <1>12, <1>13, <1>14, OneCall

\* What the endpoint answers is read as the vectors of the texts sent.
LEMMA AnswerKeeps ==
  ASSUME EmbedInv, NEW c \in EmbedCalls, BatchAnswered(c)
  PROVE  EmbedInv'
<1> DEFINE old == embedding[c]
           window == Window(old)
<1>1. old \in Request /\ old.at = "embed" /\ Len(old.fresh) < Len(old.misses)
      /\ Serves(old, Identity)
  BY DEF BatchAnswered, Awaiting, EmbedInv
<1>2. PICK answer \in EmbedReplies(window) :
        embedding' = [embedding EXCEPT ![c].fresh = @ \o ReadVectors(answer), ![c].tries = 1]
  BY DEF BatchAnswered
<1>3. /\ window \in Seq(Words) /\ Len(window) > 0
      /\ Len(old.fresh) + Len(window) <= Len(old.misses)
      /\ \A n \in 1 .. Len(window) : window[n] = old.misses[Len(old.fresh) + n]
  <2> HIDE DEF old
  <2> QED
    BY <1>1, WindowIs
<1> DEFINE next == ReadVectors(answer)
           fresh == old.fresh \o next
           req == [old EXCEPT !.fresh = fresh, !.tries = 1]
<1>4. next = [n \in DOMAIN window |-> VectorBy(Identity, window[n])]
  <2> HIDE DEF window, old
  <2> QED
    BY <1>3, ReadInOrder
<1> HIDE DEF old, window, next
<1>5. /\ next \in Seq(AnyVector) /\ Len(next) = Len(window)
      /\ \A n \in 1 .. Len(window) : next[n] = VectorBy(Identity, window[n])
  <2>1. DOMAIN window = 1 .. Len(window) /\ Len(window) \in Nat
    BY <1>3
  <2>2. Identity \in Identities
    BY IdentityIs DEF EmbedInv
  <2>3. \A n \in 1 .. Len(window) : VectorBy(Identity, window[n]) \in AnyVector
    BY <1>3, <2>2 DEF VectorBy, AnyVector
  <2> QED
    BY <1>4, <2>1, <2>3
<1>6. /\ old.fresh \in Seq(AnyVector) /\ Len(old.fresh) \in Nat /\ Len(old.misses) \in Nat
      /\ Len(window) \in Nat
  BY <1>1, <1>3 DEF Request
<1>7. /\ fresh \in Seq(AnyVector) /\ Len(fresh) = Len(old.fresh) + Len(window)
      /\ \A n \in 1 .. Len(old.fresh) : fresh[n] = old.fresh[n]
      /\ \A n \in 1 .. Len(fresh) : n > Len(old.fresh) => fresh[n] = next[n - Len(old.fresh)]
  BY <1>5, <1>6
<1> HIDE DEF fresh
<1>8. \A n \in 1 .. Len(fresh) : fresh[n] = VectorBy(Identity, old.misses[n])
  <2> SUFFICES ASSUME NEW n \in 1 .. Len(fresh)
               PROVE  fresh[n] = VectorBy(Identity, old.misses[n])
    OBVIOUS
  <2>1. CASE n <= Len(old.fresh)
    BY <1>1, <1>6, <1>7, <2>1 DEF Serves
  <2>2. CASE n > Len(old.fresh)
    <3> DEFINE k == n - Len(old.fresh)
    <3>1. k \in 1 .. Len(window) /\ Len(old.fresh) + k = n
      BY <1>6, <1>7, <2>2
    <3>2. fresh[n] = next[k]
      BY <1>7, <2>2
    <3> HIDE DEF k
    <3>3. next[k] = VectorBy(Identity, window[k]) /\ window[k] = old.misses[n]
      BY <1>3, <1>5, <3>1
    <3> QED
      BY <3>2, <3>3
  <2> QED
    BY <1>6, <2>1, <2>2
<1>9. /\ req \in Request /\ req.at = "embed" /\ req.texts = old.texts /\ req.misses = old.misses
      /\ req.found = old.found /\ req.fresh = fresh
  <2>1. 1 \in 1 .. Attempts
    BY EmbedNumbers
  <2> QED
    BY <1>1, <1>7, <2>1 DEF Request
<1>10. embedding' = [embedding EXCEPT ![c] = req]
  BY <1>2, <1>1 DEF EmbedInv, old, next, fresh, Request
<1> HIDE DEF req
<1>11. Serves(req, Identity)
  BY <1>1, <1>3, <1>6, <1>7, <1>8, <1>9 DEF Serves
<1>12. UNCHANGED <<vectorCache, settings, restarts>>
  BY DEF BatchAnswered
<1>13. DOMAIN vectorCache' \subseteq Keys /\ \A k \in DOMAIN vectorCache' : k.by \in Identities /\ vectorCache'[k] = k
  BY <1>12 DEF EmbedInv
<1> QED
  BY <1>9, <1>10, <1>11, <1>12, <1>13, OneCall

\* A batch is stored under the words it holds, and nothing else is.
LEMMA DeliverKeeps ==
  ASSUME EmbedInv, NEW c \in EmbedCalls, Deliver(c)
  PROVE  EmbedInv'
<1> DEFINE old == embedding[c]
           new == {CacheKey(w) : w \in ToSet(old.misses)}
           At(w) == CHOOSE n \in DOMAIN old.misses : old.misses[n] = w
           Fresh(k) == old.fresh[CHOOSE n \in DOMAIN old.misses : old.misses[n] = k.of]
           result == Reassemble(old)
           q == Quiet
           req == [q EXCEPT !.at = "done", !.texts = old.texts, !.result = result]
<1>1. old \in Request /\ old.at = "embed" /\ ~Awaiting(c) /\ Serves(old, Identity)
  BY DEF Deliver, EmbedInv
<1>2. /\ embedding' = [embedding EXCEPT ![c] = req]
      /\ vectorCache' = IF settings.caching
                   THEN [k \in DOMAIN vectorCache \cup new |-> IF k \in new THEN Fresh(k)
                                                           ELSE vectorCache[k]]
                   ELSE vectorCache
      /\ UNCHANGED <<settings, restarts>>
  BY Zenon DEF Deliver
<1>3. /\ old.misses \in Seq(Words) /\ Len(old.misses) \in Nat /\ Len(old.fresh) = Len(old.misses)
      /\ DOMAIN old.misses = 1 .. Len(old.misses)
  BY <1>1 DEF Request, Serves, Awaiting
<1> HIDE DEF old
<1>4. ASSUME NEW w \in ToSet(old.misses)
      PROVE  /\ At(w) \in DOMAIN old.misses /\ w \in Words
             /\ old.fresh[At(w)] = VectorBy(Identity, w)
  <2>1. At(w) \in DOMAIN old.misses /\ old.misses[At(w)] = w
    BY <1>4 DEF ToSet
  <2> HIDE DEF At
  <2> QED
    BY <1>1, <1>3, <2>1 DEF Serves
<1>5. Identity \in Identities
  BY IdentityIs DEF EmbedInv
<1>6. ASSUME NEW w \in ToSet(old.misses)
      PROVE  CacheKey(w) \in Keys /\ CacheKey(w).by \in Identities /\ Fresh(CacheKey(w)) = CacheKey(w)
  <2>1. CacheKey(w).of = w /\ CacheKey(w) = VectorBy(Identity, w) /\ CacheKey(w).by = Identity
    BY DEF CacheKey, VectorBy
  <2>2. Fresh(CacheKey(w)) = old.fresh[At(w)]
    BY <2>1
  <2>3. CacheKey(w) \in Keys
    BY <1>4, <1>5 DEF CacheKey, Keys
  <2> HIDE DEF Fresh, At
  <2> QED
    BY <1>4, <1>5, <2>1, <2>2, <2>3
<1>7. DOMAIN vectorCache' \subseteq Keys /\ \A k \in DOMAIN vectorCache' : k.by \in Identities /\ vectorCache'[k] = k
  <2>1. \A k \in new : k \in Keys /\ k.by \in Identities /\ Fresh(k) = k
    <3> HIDE DEF Fresh
    <3> QED
      BY <1>6
  <2> HIDE DEF Fresh, new
  <2>2. CASE settings.caching
    BY <1>2, <2>1, <2>2 DEF EmbedInv
  <2>3. CASE ~settings.caching
    BY <1>2, <2>3 DEF EmbedInv
  <2> QED
    BY <2>2, <2>3
<1>8. old.texts \in Inputs /\ old.texts \in Seq(STRING)
  BY <1>1, EmbedNumbers DEF Serves
<1>9. /\ DOMAIN result = DOMAIN old.texts
      /\ \A i \in DOMAIN old.texts :
           /\ result[i] = IF old.texts[i] = NoText THEN Zero ELSE VectorBy(Identity, old.texts[i])
           /\ result[i] \in AnyVector
  <2>1. DOMAIN result = DOMAIN old.texts
    BY DEF Reassemble
  <2>2. ASSUME NEW i \in DOMAIN old.texts
        PROVE  /\ result[i] = IF old.texts[i] = NoText THEN Zero ELSE VectorBy(Identity, old.texts[i])
               /\ result[i] \in AnyVector
    <3> DEFINE w == old.texts[i]
    <3>1. CASE w = NoText
      <4>1. NoText \notin DOMAIN old.found
        BY <1>1 DEF Serves, WordsIn
      <4>2. result[i] = Zero
        BY <3>1, <4>1 DEF Reassemble
      <4> QED
        BY <3>1, <4>2 DEF AnyVector
    <3>2. CASE w # NoText
      <4>1. w \in WordsIn(old.texts) /\ w \in Words
        BY <1>8, <3>2 DEF WordsIn, ToSet, Words
      <4>2. VectorBy(Identity, w) \in AnyVector
        BY <1>5, <4>1 DEF VectorBy, AnyVector
      <4>3. CASE w \in DOMAIN old.found
        <5>1. result[i] = old.found[w]
          BY <3>2, <4>3 DEF Reassemble
        <5> QED
          BY <1>1, <3>2, <4>2, <4>3, <5>1 DEF Serves
      <4>4. CASE w \notin DOMAIN old.found
        <5>1. result[i] = old.fresh[At(w)]
          BY <3>2, <4>4 DEF Reassemble
        <5>2. w \in ToSet(old.misses)
          BY <1>1, <4>1, <4>4 DEF Serves
        <5> HIDE DEF At, w, result
        <5>3. result[i] = VectorBy(Identity, w)
          BY <1>4, <5>1, <5>2
        <5> QED
          BY <3>2, <4>2, <5>3 DEF w
      <4> QED
        BY <4>3, <4>4
    <3> QED
      BY <3>1, <3>2
  <2> QED
    BY <2>1, <2>2
<1> HIDE DEF result
<1>10. result \in Seq(AnyVector)
  <2>1. DOMAIN result = 1 .. Len(old.texts) /\ Len(old.texts) \in Nat
    BY <1>8, <1>9
  <2>2. result = [i \in 1 .. Len(old.texts) |-> result[i]]
    BY <2>1 DEF result, Reassemble
  <2> QED
    BY <1>9, <2>1, <2>2
<1>11. q \in Request
  BY QuietIs
<1> HIDE DEF q
<1>12. req \in Request /\ req.at = "done" /\ req.texts = old.texts /\ req.result = result
  BY <1>8, <1>10, <1>11 DEF Request
<1> HIDE DEF req
<1>13. ServedAs(req, Identity)
  BY <1>9, <1>12 DEF ServedAs
<1> QED
  BY <1>2, <1>7, <1>12, <1>13, OneCall

\* Every step of a call keeps the invariant.
LEMMA EmbedInvStep == EmbedInv /\ [EmbedNext]_embedVars => EmbedInv'
<1> SUFFICES ASSUME EmbedInv, [EmbedNext]_embedVars PROVE EmbedInv'
  OBVIOUS
<1>1. ASSUME NEW c \in EmbedCalls, BatchRetried(c) PROVE EmbedInv'
  <2> DEFINE old == embedding[c]
             req == [old EXCEPT !.tries = @ + 1]
  <2>1. old \in Request /\ (old.at = "embed" => Serves(old, Identity))
        /\ (old.at = "done" => ServedAs(old, Identity))
    BY DEF EmbedInv
  <2>2. old.tries + 1 \in 1 .. Attempts
    BY <1>1, <2>1, EmbedNumbers DEF BatchRetried, Request
  <2>3. embedding' = [embedding EXCEPT ![c] = req]
    BY <1>1, <2>1 DEF BatchRetried, EmbedInv, Request
  <2> HIDE DEF old
  <2>4. /\ req \in Request /\ req.at = old.at /\ req.texts = old.texts /\ req.misses = old.misses
        /\ req.found = old.found /\ req.fresh = old.fresh /\ req.result = old.result
    BY <2>1, <2>2 DEF Request
  <2> HIDE DEF req
  <2>5. (req.at = "embed" => Serves(req, Identity)) /\ (req.at = "done" => ServedAs(req, Identity))
    BY <2>1, <2>4 DEF Serves, ServedAs
  <2>6. UNCHANGED <<settings, vectorCache, restarts>>
    BY <1>1 DEF BatchRetried
  <2>7. DOMAIN vectorCache' \subseteq Keys /\ \A k \in DOMAIN vectorCache' : k.by \in Identities /\ vectorCache'[k] = k
    BY <2>6 DEF EmbedInv
  <2> QED
    BY <2>3, <2>4, <2>5, <2>6, <2>7, OneCall
<1>2. ASSUME NEW c \in EmbedCalls, EmbedFails(c) PROVE EmbedInv'
  <2> DEFINE req == [Quiet EXCEPT !.at = "failed"]
  <2>1. req \in Request /\ req.at = "failed"
    BY QuietIs
  <2>2. embedding' = [embedding EXCEPT ![c] = req] /\ UNCHANGED <<settings, vectorCache, restarts>>
    BY <1>2 DEF EmbedFails
  <2> HIDE DEF req
  <2>3. DOMAIN vectorCache' \subseteq Keys /\ \A k \in DOMAIN vectorCache' : k.by \in Identities /\ vectorCache'[k] = k
    BY <2>2 DEF EmbedInv
  <2> QED
    BY <2>1, <2>2, <2>3, OneCall
<1>3. ASSUME VectorExpires PROVE EmbedInv'
  <2>1. PICK k \in DOMAIN vectorCache :
          /\ vectorCache' = [j \in DOMAIN vectorCache \ {k} |-> vectorCache[j]]
          /\ UNCHANGED <<settings, embedding, restarts>>
    BY <1>3 DEF VectorExpires
  <2>2. Identity' = Identity
    BY <2>1 DEF Identity, Provider
  <2>3. DOMAIN vectorCache' \subseteq Keys /\ \A j \in DOMAIN vectorCache' : j.by \in Identities /\ vectorCache'[j] = j
    BY <2>1 DEF EmbedInv
  <2> QED
    BY <2>1, <2>2, <2>3 DEF EmbedInv
<1>4. ASSUME Reconfigured PROVE EmbedInv'
  <2>1. embedding' \in [EmbedCalls -> Request] /\ \A c \in EmbedCalls : embedding'[c].at = "idle"
    BY <1>4, QuietIs DEF Reconfigured
  <2>2. restarts' \in 0 .. MaxRestarts
    BY <1>4, EmbedNumbers DEF Reconfigured, EmbedInv
  <2>3. settings' \in Settings /\ UNCHANGED vectorCache
    BY <1>4 DEF Reconfigured
  <2> QED
    BY <2>1, <2>2, <2>3 DEF EmbedInv
<1>5. ASSUME UNCHANGED embedVars PROVE EmbedInv'
  <2>1. UNCHANGED <<settings, vectorCache, embedding, restarts>>
    BY <1>5 DEF embedVars
  <2>2. Identity' = Identity
    BY <2>1 DEF Identity, Provider
  <2> QED
    BY <2>1, <2>2 DEF EmbedInv
<1> QED
  BY <1>1, <1>2, <1>3, <1>4, <1>5, LookupKeeps, AnswerKeeps, DeliverKeeps DEF EmbedNext

\* Calls keep their types, whatever the endpoint answers and the settings become.
THEOREM EmbedTypes == EmbedSpec => []EmbedTypeOK
<1>1. EmbedInv => EmbedTypeOK
  <2> SUFFICES ASSUME EmbedInv PROVE EmbedTypeOK
    OBVIOUS
  <2>1. \A k \in DOMAIN vectorCache : vectorCache[k] \in AnyVector
    <3> SUFFICES ASSUME NEW k \in DOMAIN vectorCache PROVE vectorCache[k] \in AnyVector
      OBVIOUS
    <3>1. k \in Keys /\ k.by \in Identities /\ vectorCache[k] = k
      BY DEF EmbedInv
    <3>2. k \in [by : Identities, of : Words]
      BY <3>1 DEF Keys
    <3> QED
      BY <3>1, <3>2 DEF AnyVector
  <2>2. \A c \in EmbedCalls :
          /\ embedding[c] \in Request
          /\ ToSet(embedding[c].result) \subseteq AnyVector
          /\ ToSet(embedding[c].fresh) \subseteq AnyVector
    <3> SUFFICES ASSUME NEW c \in EmbedCalls
                 PROVE  /\ embedding[c] \in Request
                        /\ ToSet(embedding[c].result) \subseteq AnyVector
                        /\ ToSet(embedding[c].fresh) \subseteq AnyVector
      OBVIOUS
    <3>1. embedding[c] \in Request
      BY DEF EmbedInv
    <3>2. embedding[c].result \in Seq(AnyVector) /\ embedding[c].fresh \in Seq(AnyVector)
      BY <3>1 DEF Request
    <3> QED
      BY <3>1, <3>2 DEF ToSet
  <2>3. \A c \in EmbedCalls :
          /\ embedding[c].at \in {"idle", "embed", "done", "failed"}
          /\ embedding[c].tries \in 1 .. Attempts
          /\ embedding[c].texts \in Inputs \cup {<<>>}
    BY <2>2 DEF Request
  <2> QED
    BY <2>1, <2>2, <2>3 DEF EmbedTypeOK, EmbedInv
<1> QED
  BY <1>1, EmbedInvInit, EmbedInvStep, PTL DEF EmbedSpec

\* Each text gets the vector the model now configured has for it: from the cache or not, in
\* whatever order the endpoint answers and however often a text occurs, for any number of calls
\* side by side.
THEOREM VectorsBelong == EmbedSpec => []EachTextItsVector
<1>1. EmbedInv => EachTextItsVector
  BY DEF EmbedInv, ServedAs, EachTextItsVector, Vector, VectorBy
<1> QED
  BY <1>1, EmbedInvInit, EmbedInvStep, PTL DEF EmbedSpec

-----------------------------------------------------------------------------
(* What a marker of rejection is worth on a form that showed none before.      *)

AfterClick == {"await", "verify", "done"}

\* Every marker came with the page's answer to a click that did not reach the employer.
MarkerInv ==
  /\ page.error \in {"none", "after"}
  /\ page.error = "after" => ~page.received /\ attempt.stage \in AfterClick
  /\ attempt.result = "failed" => ~page.received /\ attempt.stage = "done"

\* A step of the attempt that neither clicks nor reads a verdict.
LEMMA MarkersStand ==
  ASSUME FormShape, MarkerInv, page' = page,
         attempt.stage \in AfterClick => attempt'.stage \in AfterClick,
         \/ attempt'.result = attempt.result /\ attempt.stage # "done"
         \/ attempt'.result # "failed"
         \/ attempt' = attempt
  PROVE  MarkerInv'
BY DEF MarkerInv

LEMMA MarkerStep == FormShape /\ MarkerInv /\ [FormNext]_formVars => MarkerInv'
<1> SUFFICES ASSUME FormShape, MarkerInv, [FormNext]_formVars PROVE MarkerInv'
  OBVIOUS
<1>0. page \in PageRow /\ attempt \in AttemptRow
  BY DEF FormShape
<1>1. \A s : GoesTo(s) => attempt'.stage = s /\ attempt'.result = attempt.result
  BY <1>0 DEF GoesTo, AttemptRow
<1>2. \A r : Ends(r) => attempt'.stage = "done" /\ attempt'.result = r
  BY <1>0 DEF Ends, AttemptRow
<1>3. CASE OpenForm
  <2>1. page' = page /\ attempt.stage = "open"
    BY <1>3 DEF OpenForm, AtStage, Untouched
  <2> QED
    BY <1>1, <1>2, <1>3, <2>1, MarkersStand DEF OpenForm, AfterClick
<1>4. CASE ReadFields
  <2>1. page' = page /\ attempt.stage = "discover"
    BY <1>4, Zenon DEF ReadFields, AtStage, Untouched
  <2>2. Ends("needs_review") \/ attempt'.result = attempt.result
    <3>1. ASSUME NEW seen, attempt' = [attempt EXCEPT !.stage = "fill", !.seen = seen]
          PROVE  attempt'.result = attempt.result
      BY <1>0, <3>1 DEF AttemptRow
    <3> QED
      BY <1>4, <3>1, Zenon DEF ReadFields
  <2> QED
    BY <1>2, <2>1, <2>2, MarkersStand DEF AfterClick
<1>5. CASE BeginFill
  <2>1. page' = page /\ attempt.stage = "fill"
    BY <1>5, Zenon DEF BeginFill, AtStage, Untouched
  <2>2. attempt'.result = "needs_review" \/ attempt'.result = attempt.result
    <3>1. ASSUME NEW blockers, attempt' = [attempt EXCEPT !.stage = "done", !.blockers = blockers,
                                                          !.result = "needs_review"]
          PROVE  attempt'.result = "needs_review"
      BY <1>0, <3>1 DEF AttemptRow
    <3>2. ASSUME NEW left, attempt' = [attempt EXCEPT !.stage = "answer", !.left = left]
          PROVE  attempt'.result = attempt.result
      BY <1>0, <3>2 DEF AttemptRow
    <3> QED
      BY <1>2, <1>5, <3>1, <3>2, Zenon DEF BeginFill
  <2> QED
    BY <2>1, <2>2, MarkersStand DEF AfterClick
<1>6. CASE AllAnswered \/ SubmitGate \/ LocateSubmit
  <2>1. page' = page /\ attempt.stage \in {"answer", "upload", "locate"}
    BY <1>6 DEF AllAnswered, SubmitGate, LocateSubmit, AtStage, Untouched
  <2>2. attempt'.result = "needs_review" \/ attempt'.result = attempt.result
    BY <1>0, <1>1, <1>2, <1>6 DEF AllAnswered, SubmitGate, LocateSubmit, AttemptRow
  <2> QED
    BY <2>1, <2>2, MarkersStand DEF AfterClick
<1>7. CASE ClickSubmit
  <2>1. attempt.stage = "click" /\ page.error = "none" /\ attempt.result # "failed"
    BY <1>7 DEF ClickSubmit, AtStage, MarkerInv, AfterClick
  <2>2. page'.error = "none"
    <3>1. \A accepted \in BOOLEAN : page' = [page EXCEPT !.received = accepted]
                                     => page'.error = page.error
      BY <1>0 DEF PageRow
    <3> QED
      BY <1>7, <2>1, <3>1 DEF ClickSubmit
  <2>3. attempt'.result # "failed"
    <3>1. attempt' = [attempt EXCEPT !.stage = "await", !.clicked = TRUE]
            => attempt'.result = attempt.result
      BY <1>0 DEF AttemptRow
    <3>2. Ends("needs_review") => attempt'.result = "needs_review"
      BY <1>2
    <3> QED
      BY <1>7, <2>1, <3>1, <3>2 DEF ClickSubmit
  <2> QED
    BY <2>2, <2>3 DEF MarkerInv
<1>8. CASE AwaitOutcome
  <2>1. page' = page /\ attempt.stage = "await" /\ GoesTo("verify")
    BY <1>8 DEF AwaitOutcome, AtStage, Untouched
  <2> QED
    BY <1>1, <2>1, MarkersStand DEF AfterClick
<1>9. CASE Verify
  <2>1. page' = page /\ attempt'.stage = "done" /\ attempt'.result = Verdict
    BY <1>2, <1>9 DEF Verify, Untouched
  <2>2. Verdict = "failed" => page.error = "after" /\ ~page.received
    BY DEF Verdict, MarkerInv
  <2> QED
    BY <2>1, <2>2 DEF MarkerInv, AfterClick
<1>10. ASSUME NEW f \in Fields, AnswerField(f) \/ AttachFile(f) PROVE MarkerInv'
  <2>1. page' = page /\ attempt.stage \in {"answer", "upload"}
    <3>1. CASE AttachFile(f)
      BY <3>1 DEF AttachFile, AtStage, Untouched
    <3>2. CASE AnswerField(f)
      BY <3>2, Zenon DEF AnswerField, AtStage, Untouched
    <3> QED
      BY <1>10, <3>1, <3>2
  <2>2. attempt'.result = "needs_review" \/ attempt'.result = attempt.result
    <3>1. CASE AttachFile(f)
      BY <1>0, <1>2, <3>1 DEF AttachFile, AttemptRow
    <3>2. CASE AnswerField(f)
      BY <1>0, <3>2 DEF AnswerField, AttemptRow
    <3> QED
      BY <1>10, <3>1, <3>2
  <2> QED
    BY <2>1, <2>2, MarkersStand DEF AfterClick
<1>11. CASE PageAnswers
  <2>1. attempt' = attempt /\ attempt.stage = "await"
    BY <1>11 DEF PageAnswers, AtStage
  <2>2. page'.received = page.received /\ (page.received => page'.error \in {page.error, "none"})
    BY <1>0, <1>11 DEF PageAnswers, PageRow
  <2>3. ~page.received => page'.error = "after"
    BY <1>0, <1>11 DEF PageAnswers, PageRow
  <2> QED
    BY <2>1, <2>2, <2>3 DEF MarkerInv, AfterClick
<1>12. CASE SettingsChange \/ UNCHANGED formVars
  BY <1>12 DEF SettingsChange, formVars, MarkerInv
<1>13. CASE AttemptRaises
  <2>1. page' = page /\ attempt'.stage = "done" /\ attempt'.result = "raised"
    BY <1>2, <1>13 DEF AttemptRaises, Untouched
  <2> QED
    BY <2>1, MarkersStand DEF AfterClick
<1> QED
  BY <1>3, <1>4, <1>5, <1>6, <1>7, <1>8, <1>9, <1>10, <1>11, <1>12, <1>13 DEF FormNext, FormStep

\* On a form that shows no error marker of its own, an attempt is reported failed only if
\* the employer does not have the application, so the retry it invites sends nothing
\* twice: the markers a form may show before anything is sent are all that stands between
\* the verifier and the claim of autofill.py:1542-1546.
THEOREM CleanFormFailsUnsent == page.error = "none" /\ FormSpec => []FailedMeansUnsent
<1>1. page.error = "none" /\ FormInit => MarkerInv
  <2> SUFFICES ASSUME page.error = "none", FormInit PROVE MarkerInv
    OBVIOUS
  <2>1. attempt.result = "none"
    BY DEF FormInit
  <2> QED
    BY <2>1 DEF MarkerInv
<1>2. MarkerInv => FailedMeansUnsent
  BY DEF MarkerInv, FailedMeansUnsent
<1> QED
  BY <1>1, <1>2, FormShapeInit, FormShapeStep, MarkerStep, PTL DEF FormSpec

\* What a tailoring and its caches keep stays within the bounds: revisions are numbered
\* no further than there were changes, and a session still open is one more to deliver.
InRange(basis) == \A b \in basis : b.rev \in 0 .. MaxChanges
LinesFit(cv) ==
  /\ cv.summary \subseteq Numbers /\ cv.details \subseteq Numbers
  /\ InRange(ToSet(cv.bullets))
TailorBounds ==
  /\ known \in [Facts -> [rev : 0 .. MaxChanges, live : BOOLEAN]]
  /\ session.at \in {"idle", "asked"}
  /\ InRange(session.basis)
  /\ LinesFit(delivered.cv) /\ delivered.fresh \in BOOLEAN
  /\ \A c \in cachedCv : LinesFit(c.cv)
  /\ delivered.count + (IF session.at = "asked" THEN 1 ELSE 0) <= MaxDeliveries
  /\ delivered.count \in Nat

\* While there are changes left, no fact has had all of them.
LEMMA RevisionsLeft ==
  ASSUME known \in [Facts -> [rev : 0 .. MaxChanges, live : BOOLEAN]],
         Changes < MaxChanges, NEW f \in Facts
  PROVE  known[f].rev + 1 \in 0 .. MaxChanges
<1> DEFINE N == MaxChanges
           W == {c \in Facts \X (1 .. N) : c[2] <= known[c[1]].rev}
           G == {g \in Facts : ~known[g].live}
           F == {f} \X (1 .. N)
<1>1. N \in Nat /\ IsFiniteSet(Facts) /\ known[f].rev \in 0 .. N
  BY TailoringAssumption
<1>2. Changes = Cardinality(W) + Cardinality(G)
  BY DEF Changes
<1>3. known[f].rev = N => F \subseteq W
  OBVIOUS
<1>4. W \subseteq Facts \X (1 .. N) /\ G \subseteq Facts
  OBVIOUS
<1> HIDE DEF N, W, G
<1>5. IsFiniteSet(1 .. N) /\ Cardinality(1 .. N) = N
  <2>1. IsFiniteSet(1 .. N) /\ Cardinality(1 .. N) = IF 1 > N THEN 0 ELSE N - 1 + 1
    BY <1>1, FS_Interval
  <2> QED
    BY <1>1, <2>1
<1>6. IsFiniteSet(F) /\ Cardinality(F) = N
  <2>1. IsFiniteSet({f}) /\ Cardinality({f}) = 1
    BY FS_Singleton
  <2>2. /\ IsFiniteSet({f} \X (1 .. N))
        /\ Cardinality({f} \X (1 .. N)) = Cardinality({f}) * Cardinality(1 .. N)
    BY <1>5, <2>1, FS_Product
  <2>3. Cardinality({f}) * Cardinality(1 .. N) = N
    BY <1>1, <1>5, <2>1
  <2> QED
    BY <2>2, <2>3
<1> HIDE DEF F
<1>7. IsFiniteSet(W) /\ Cardinality(W) \in Nat /\ Cardinality(G) \in Nat
  <2>1. IsFiniteSet(Facts \X (1 .. N))
    BY <1>1, <1>5, FS_Product
  <2> QED
    BY <1>1, <1>4, <2>1, FS_Subset, FS_CardinalityType
<1>8. known[f].rev = N => N <= Cardinality(W)
  BY <1>3, <1>6, <1>7, FS_Subset
<1>9. Cardinality(W) + Cardinality(G) < N
  BY <1>2 DEF N
<1>10. known[f].rev # N
  BY <1>1, <1>7, <1>8, <1>9
<1>11. known[f].rev + 1 \in 0 .. N
  BY <1>1, <1>10
<1> QED
  BY <1>11 DEF N

\* What the search finds is in a revision there is.
LEMMA FoundFits ==
  ASSUME known \in [Facts -> [rev : 0 .. MaxChanges, live : BOOLEAN]], NEW found \in Retrievable
  PROVE  InRange(BasisOf(found))
BY TailorNumbers DEF BasisOf, InRange

\* The numbers of the lines of a résumé are numbers there are.
LEMMA NumbersExist ==
  ASSUME NEW bullets \in Seq(Line), InRange(ToSet(bullets)), NEW in \in {"text", "detail"}
  PROVE  NumbersOf(bullets, in) \subseteq Numbers
<1>1. ASSUME NEW n \in NumbersOf(bullets, in) PROVE n \in Numbers
  <2>1. PICK i \in DOMAIN bullets : n = Number(bullets[i].fact, bullets[i].rev, in)
    BY DEF NumbersOf, ToSet
  <2>2. bullets[i] \in Line /\ bullets[i].rev \in 0 .. MaxChanges
    BY DEF InRange, ToSet
  <2>3. bullets[i].fact \in Facts
    BY <2>2 DEF Line
  <2> QED
    BY <2>1, <2>2, <2>3 DEF Numbers, Number
<1> QED
  BY <1>1

\* What is drawn from a basis is in a revision of it.
LEMMA DrawnInRange ==
  ASSUME NEW basis, InRange(basis), NEW bullets, Drawn(bullets, basis)
  PROVE  InRange(ToSet(bullets))
<1>1. ASSUME NEW i \in DOMAIN bullets PROVE bullets[i].rev \in 0 .. MaxChanges
  <2> DEFINE r == [fact |-> bullets[i].fact, rev |-> bullets[i].rev]
  <2>1. r \in basis /\ r.rev = bullets[i].rev
    BY DEF Drawn
  <2> HIDE DEF r
  <2> QED
    BY <2>1 DEF InRange
<1> QED
  BY <1>1 DEF InRange, ToSet

\* So are those of a summary that stands, and those assembled.
LEMMA SummaryExists ==
  ASSUME NEW bullets \in Seq(Line), InRange(ToSet(bullets)), NEW cited
  PROVE  Summary(cited, bullets) \subseteq Numbers
<1>1. NumbersOf(bullets, "text") \subseteq Numbers /\ NumbersOf(bullets, "detail") \subseteq Numbers
  BY NumbersExist
<1>2. OfPosting \in Numbers
  BY DEF Numbers
<1> QED
  BY <1>1, <1>2 DEF Summary

LEMMA AssembledFits ==
  ASSUME NEW basis, basis \subseteq Revision, InRange(basis), NEW bullets, Drawn(bullets, basis),
         NEW summary, summary \subseteq Numbers
  PROVE  LinesFit(Assemble(bullets, summary))
<1>1. bullets \in Seq(Line) /\ InRange(ToSet(bullets))
  BY DrawnInRange DEF Drawn
<1>2. NumbersOf(bullets, "detail") \subseteq Numbers
  BY <1>1, NumbersExist
<1>3. InRange(ToSet(EnforceBudget(bullets)))
  BY EnforcedIs, DrawnInRange
<1> QED
  BY <1>2, <1>3 DEF Assemble, LinesFit

\* So it is without a model.
LEMMA FallbackFits ==
  ASSUME NEW basis, IsBasis(basis), InRange(basis), NEW ranked \in Rankings(basis)
  PROVE  LinesFit(Fallback(ranked))
<1> DEFINE own == [k \in DOMAIN ranked |->
                     [fact |-> ranked[k].fact, rev |-> ranked[k].rev, text |-> "own",
                      under |-> HeadingOf[ranked[k].fact]]]
<1>1. Drawn(own, basis)
  BY OwnWords
<1>2. Fallback(ranked) = Assemble(own, {})
  BY DEF Fallback
<1> HIDE DEF own
<1> QED
  BY <1>1, <1>2, AssembledFits DEF IsBasis

\* A résumé returned counts as one delivered, and the session is over or never began.
LEMMA ReturnFits ==
  ASSUME TailorBounds, NEW cv, NEW basis, NEW fresh \in BOOLEAN,
         Returns(cv, basis, fresh), LinesFit(cv), known' = known,
         \/ session.at = "asked" /\ session' = NothingAsked
         \/ session = NothingAsked /\ session' = session /\ MoreToCome,
         \A c \in cachedCv' : LinesFit(c.cv)
  PROVE  TailorBounds'
<1>1. /\ delivered'.cv = cv /\ delivered'.fresh = fresh
      /\ delivered'.count = delivered.count + 1
  BY DEF Returns
<1>2. session'.at = "idle" /\ session'.basis = {} /\ delivered.count \in Nat
  BY DEF TailorBounds, NothingAsked
<1>3. MaxDeliveries \in Nat /\ delivered.count + 1 <= MaxDeliveries
  <2>1. MaxDeliveries \in Nat
    BY TailoringAssumption
  <2> QED
    BY <2>1 DEF TailorBounds, MoreToCome, NothingAsked
<1>4. delivered'.count \in Nat /\ delivered'.count + 0 <= MaxDeliveries
  BY <1>1, <1>2, <1>3
<1>5. LinesFit(delivered'.cv) /\ delivered'.fresh \in BOOLEAN
  BY <1>1
<1> QED
  BY <1>2, <1>4, <1>5 DEF TailorBounds, LinesFit, InRange

\* Every step of a tailoring keeps its bounds.
LEMMA TailorBoundsStep ==
  ASSUME TailorInv, TailorBounds, [TailorNext]_tailorVars
  PROVE  TailorBounds'
<1>1. ASSUME NEW f \in Facts, Rewords(f) PROVE TailorBounds'
  <2>1. known[f].rev + 1 \in 0 .. MaxChanges
    BY <1>1, RevisionsLeft DEF Rewords, TailorBounds
  <2>2. known' \in [Facts -> [rev : 0 .. MaxChanges, live : BOOLEAN]]
    <3> DEFINE n == known[f].rev + 1
               r == [known[f] EXCEPT !.rev = n]
    <3>1. known' = [known EXCEPT ![f] = r]
      BY <1>1 DEF Rewords
    <3> HIDE DEF n
    <3>2. n \in 0 .. MaxChanges
      BY <2>1 DEF n
    <3>3. r \in [rev : 0 .. MaxChanges, live : BOOLEAN]
      BY <3>2 DEF TailorBounds
    <3> HIDE DEF r
    <3> QED
      BY <3>1, <3>3 DEF TailorBounds
  <2>3. UNCHANGED <<cachedCv, session, delivered>>
    BY <1>1 DEF Rewords
  <2> QED
    BY <2>2, <2>3 DEF TailorBounds, LinesFit, InRange
<1>2. ASSUME NEW f \in Facts, Retires(f) PROVE TailorBounds'
  <2>1. known' \in [Facts -> [rev : 0 .. MaxChanges, live : BOOLEAN]]
    BY <1>2 DEF TailorBounds, Retires
  <2>2. UNCHANGED <<cachedCv, session, delivered>>
    BY <1>2 DEF Retires
  <2> QED
    BY <2>1, <2>2 DEF TailorBounds, LinesFit, InRange
<1>3. ASSUME Retrieve PROVE TailorBounds'
  <2>1. PICK found \in Retrievable :
          LET basis == BasisOf(found) IN
          \/ basis = {} /\ Returns(NoCv, {}, TRUE) /\ session' = session
          \/ \E c \in cachedCv :
               c.key = IdsOf(basis) /\ Returns(c.cv, basis, FALSE) /\ session' = session
          \/ /\ basis # {} /\ session' = [at |-> "asked", basis |-> basis]
             /\ UNCHANGED <<delivered, letter>>
    BY <1>3, Zenon DEF Retrieve
  <2> DEFINE now == BasisOf(found)
  <2>2. UNCHANGED <<known, cachedCv, cachedLtr>> /\ session = NothingAsked /\ MoreToCome
    BY <1>3, Zenon DEF Retrieve
  <2>3. \A c \in cachedCv' : LinesFit(c.cv)
    BY <2>2 DEF TailorBounds
  <2>4. CASE Returns(NoCv, {}, TRUE) /\ session' = session
    <3>1. LinesFit(NoCv)
      BY DEF LinesFit, NoCv, ToSet, InRange
    <3> QED
      BY <2>2, <2>3, <2>4, <3>1, ReturnFits
  <2>5. CASE \E c \in cachedCv :
               c.key = IdsOf(now) /\ Returns(c.cv, now, FALSE) /\ session' = session
    <3>1. PICK c \in cachedCv : Returns(c.cv, now, FALSE) /\ session' = session
      BY <2>5
    <3>2. LinesFit(c.cv)
      BY DEF TailorBounds
    <3> QED
      BY <2>2, <2>3, <3>1, <3>2, ReturnFits
  <2>6. CASE session' = [at |-> "asked", basis |-> now] /\ UNCHANGED <<delivered, letter>>
    <3>1. InRange(now)
      BY FoundFits DEF TailorBounds
    <3>2. session'.at = "asked" /\ InRange(session'.basis)
      BY <2>6, <3>1
    <3>3. delivered'.count \in Nat /\ delivered'.count + 1 <= MaxDeliveries
      BY <2>2, <2>6, TailoringAssumption DEF TailorBounds, MoreToCome
    <3> QED
      BY <2>2, <2>3, <2>6, <3>2, <3>3 DEF TailorBounds, InRange
  <2> QED
    BY <2>1, <2>4, <2>5, <2>6, Zenon
<1>9. ASSUME session.at = "asked", session' = NothingAsked, known' = known,
             FallsBack(session.basis)
      PROVE  TailorBounds'
  <2>1. PICK ranked \in Rankings(session.basis) : Returns(Fallback(ranked), session.basis, TRUE)
    BY <1>9 DEF FallsBack
  <2>2. LinesFit(Fallback(ranked))
    BY <1>9, FallbackFits DEF TailorInv, TailorBounds
  <2>3. \A c \in cachedCv' : LinesFit(c.cv)
    BY <1>9 DEF FallsBack, TailorBounds
  <2> QED
    BY <1>9, <2>1, <2>2, <2>3, ReturnFits
<1>4. ASSUME Answered PROVE TailorBounds'
  <2>1. session.at = "asked" /\ session' = NothingAsked /\ known' = known
    BY <1>4, Zenon DEF Answered
  <2>2. PICK reply \in RawReplies :
          LET bullets == Validate(reply, session.basis) IN
          \/ bullets = <<>> /\ FallsBack(session.basis)
          \/ /\ bullets # <<>>
             /\ \E summary \in {Summary(cited, bullets) : cited \in Citations} :
                  LET cv  == Assemble(bullets, summary)
                      key == IdsOf(session.basis)
                  IN /\ Returns(cv, session.basis, TRUE)
                     /\ cachedCv' = {c \in cachedCv : c.key # key} \cup {[key |-> key, cv |-> cv]}
    BY <1>4, Zenon DEF Answered
  <2> DEFINE bullets == Validate(reply, session.basis)
             key == IdsOf(session.basis)
  <2>3. CASE FallsBack(session.basis)
    BY <1>9, <2>1, <2>3
  <2>4. ASSUME NEW cited \in Citations,
               LET cv == Assemble(bullets, Summary(cited, bullets))
               IN /\ Returns(cv, session.basis, TRUE)
                  /\ cachedCv' = {c \in cachedCv : c.key # key} \cup {[key |-> key, cv |-> cv]}
        PROVE  TailorBounds'
    <3> DEFINE cv == Assemble(bullets, Summary(cited, bullets))
               entry == [key |-> key, cv |-> cv]
    <3>1. IsBasis(session.basis) /\ session.basis \subseteq Revision /\ InRange(session.basis)
      BY <2>1 DEF TailorInv, TailorBounds, IsBasis
    <3>2. Drawn(bullets, session.basis)
      BY <3>1, ValidatedIs
    <3>3. LinesFit(cv)
      <4> HIDE DEF bullets
      <4>1. bullets \in Seq(Line) /\ InRange(ToSet(bullets))
        BY <3>1, <3>2, DrawnInRange DEF Drawn
      <4> QED
        BY <3>1, <3>2, <4>1, SummaryExists, AssembledFits
    <3>4. Returns(cv, session.basis, TRUE)
          /\ cachedCv' = {c \in cachedCv : c.key # key} \cup {entry}
      BY <2>4
    <3>5. entry.cv = cv
      OBVIOUS
    <3> HIDE DEF bullets, key, cv, entry
    <3>6. \A c \in cachedCv' : LinesFit(c.cv)
      BY <3>3, <3>4, <3>5 DEF TailorBounds
    <3> QED
      BY <2>1, <3>3, <3>4, <3>6, ReturnFits
  <2> HIDE DEF bullets, key
  <2>5. \/ FallsBack(session.basis)
        \/ \E cited \in Citations :
             LET cv == Assemble(bullets, Summary(cited, bullets))
             IN /\ Returns(cv, session.basis, TRUE)
                /\ cachedCv' = {c \in cachedCv : c.key # key} \cup {[key |-> key, cv |-> cv]}
    BY <2>2, Zenon DEF bullets, key
  <2> QED
    BY <2>3, <2>4, <2>5, Zenon
<1>5. ASSUME Unanswered PROVE TailorBounds'
  BY <1>5, <1>9 DEF Unanswered
<1>6. ASSUME WriteCoverLetter PROVE TailorBounds'
  <2>1. UNCHANGED <<known, cachedCv, session, delivered>>
    BY <1>6, Zenon DEF WriteCoverLetter
  <2> QED
    BY <2>1 DEF TailorBounds, LinesFit, InRange
<1>7. ASSUME Expires PROVE TailorBounds'
  <2>1. cachedCv' = {} /\ UNCHANGED <<known, session, delivered>>
    BY <1>7 DEF Expires
  <2> QED
    BY <2>1 DEF TailorBounds, LinesFit, InRange
<1>8. CASE UNCHANGED tailorVars
  BY <1>8 DEF tailorVars, TailorBounds, LinesFit, InRange
<1> QED
  BY <1>1, <1>2, <1>3, <1>4, <1>5, <1>6, <1>7, <1>8 DEF TailorNext

\* Whatever the model replies and the caches return, a bullet is a fact in a revision
\* there is, what is printed and stated are numbers there are, and no more is delivered than was asked for.
THEOREM TailoringTypes == TailorSpec => []TailorTypeOK
<1>1. TailorInit => TailorBounds
  <2> SUFFICES ASSUME TailorInit PROVE TailorBounds
    OBVIOUS
  <2>1. MaxChanges \in Nat /\ MaxDeliveries \in Nat /\ 0 \in 0 .. MaxChanges
    BY TailoringAssumption
  <2>2. /\ delivered.cv = NoCv /\ delivered.fresh = TRUE /\ delivered.count = 0
        /\ session.at = "idle" /\ session.basis = {} /\ cachedCv = {}
        /\ known = [f \in Facts |-> [rev |-> 0, live |-> TRUE]]
    BY DEF TailorInit, NothingAsked
  <2>3. LinesFit(NoCv)
    BY DEF NoCv, LinesFit, InRange, ToSet
  <2>4. known \in [Facts -> [rev : 0 .. MaxChanges, live : BOOLEAN]]
    BY <2>1, <2>2
  <2>5. LinesFit(delivered.cv) /\ \A c \in cachedCv : LinesFit(c.cv)
    BY <2>2, <2>3
  <2>6. delivered.count + (IF session.at = "asked" THEN 1 ELSE 0) <= MaxDeliveries
    BY <2>1, <2>2
  <2>7. delivered.fresh \in BOOLEAN
    BY <2>2, Zenon
  <2>8. /\ session.at \in {"idle", "asked"} /\ InRange(session.basis)
        /\ delivered.count \in Nat
    BY <2>2 DEF InRange
  <2> QED
    BY <2>4, <2>5, <2>6, <2>7, <2>8, Zenon DEF TailorBounds
<1>2. TailorInv /\ TailorBounds /\ [TailorNext]_tailorVars => TailorBounds'
  BY TailorBoundsStep
<1>3. TailorInv /\ TailorBounds => TailorTypeOK
  <2> SUFFICES ASSUME TailorInv, TailorBounds PROVE TailorTypeOK
    OBVIOUS
  <2> DEFINE cv == delivered.cv
             bullets == cv.bullets
  <2>1. bullets \in Seq(Line)
    BY DEF TailorInv, CvInv, Genuine, Drawn
  <2>2. LinesFit(cv) /\ InRange(ToSet(bullets))
    BY DEF TailorBounds, LinesFit
  <2>3. bullets \in Seq(Bullets)
    <3>1. ASSUME NEW i \in DOMAIN bullets PROVE bullets[i] \in Bullets
      <4>1. bullets[i] \in Line /\ bullets[i].rev \in 0 .. MaxChanges
        BY <2>1, <2>2 DEF InRange, ToSet
      <4> DEFINE b == bullets[i]
      <4> HIDE DEF b
      <4>2. b \in Line /\ b.rev \in 0 .. MaxChanges
        BY <4>1 DEF b
      <4>3. b \in Bullets
        BY <4>2 DEF Line, Bullets
      <4> QED
        BY <4>3 DEF b
    <3>2. bullets \in [1 .. Len(bullets) -> Bullets] /\ Len(bullets) \in Nat
      BY <2>1, <3>1
    <3> QED
      BY <3>2
  <2>4. letter \subseteq Numbers
    <3>1. NumbersOf(bullets, "text") \subseteq Numbers
      BY <2>1, <2>2, NumbersExist
    <3>2. OfPosting \in Numbers
      BY DEF Numbers
    <3>3. Supported(cv) \subseteq Numbers
      BY <2>2, <3>1, <3>2 DEF Supported, Printed, LinesFit
    <3> QED
      BY <3>3 DEF TailorInv
  <2>5. delivered.count \in 0 .. MaxDeliveries
    <3>1. MaxDeliveries \in Nat
      BY TailoringAssumption
    <3> QED
      BY <3>1 DEF TailorBounds
  <2> QED
    BY <2>2, <2>3, <2>4, <2>5 DEF TailorTypeOK, TailorBounds, LinesFit
<1> QED
  BY <1>1, <1>2, <1>3, TailorInvInit, TailorInvStep, PTL DEF TailorSpec
=============================================================================
