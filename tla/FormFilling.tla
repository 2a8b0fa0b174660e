---------------------------- MODULE FormFilling ----------------------------
(***************************************************************************)
(* run_apply: one attempt at one application form.  The form is opened and *)
(* read, every field is answered or left to a person, documents are        *)
(* attached, the submit control is clicked if nothing forbids it, and the  *)
(* page is asked whether it went through.  The page belongs to somebody    *)
(* else: it changes by itself and says what it likes.                      *)
(***************************************************************************)
EXTENDS Naturals, FiniteSets

CONSTANTS
  Fields,   \* the controls of the form
  MaxEssays \* max_essay_questions_before_review

ASSUME FormAssumption == IsFiniteSet(Fields) /\ MaxEssays \in Nat

VARIABLES
  form,     \* what each field is
  page,     \* what the page shows, and whether the employer has the application
  armed,    \* settings: auto_apply_enabled and not dry_run, as they are now
  attempt   \* _drive and its AutoFiller: the stage, and what it knows

formVars == <<form, page, armed, attempt>>

\* A choice is a select, a radio group or a multiselect; an entry is a date, a number, an
\* address and the like.
Shapes == [kind : {"text", "essay", "choice", "checkbox", "entry", "demographic", "file"},
           required : BOOLEAN, hostile : BOOLEAN]

\* AnswerPlan: where a value comes from, and whether it clears min_answer_confidence.
AnswerSources == {"explicit", "profile", "stated", "declined", "model", "none", "blocked"}
Plan(source, sure) == [source |-> source, sure |-> sure]
NoPlan == Plan("none", FALSE)
Sure(source) == Plan(source, TRUE)

FormInit ==
  /\ form \in [Fields -> Shapes]
  /\ page \in [error : {"none", "before"}, success : {FALSE}, received : {FALSE}]
  /\ armed \in BOOLEAN
  /\ attempt \in [stage : {"open"}, dry : BOOLEAN, seen : {{}}, left : {{}}, review : {{}},
                  answers : {[f \in Fields |-> NoPlan]}, attached : {{}}, blockers : {{}},
                  clicked : {FALSE}, baseline : {"none"}, result : {"none"}]

AtStage(stage) == attempt.stage = stage
GoesTo(stage) == attempt' = [attempt EXCEPT !.stage = stage]
Ends(result) == attempt' = [attempt EXCEPT !.stage = "done", !.result = result]
Untouched == UNCHANGED <<form, page, armed>>

-----------------------------------------------------------------------------
(* FieldAnswerer.answer: the first source that has something to say. *)

\* coerce_to_options: what no offered option matches is no answer.
Optional(f, plan) == IF form[f].kind \in {"choice", "checkbox"} THEN {plan, NoPlan} ELSE {plan}

\* A demographic question is answered as stated, declined, or left to a person.
Demographic == {Sure("stated"), Sure("declined"), NoPlan}

\* A question, in free text or with options, may go to the model: its answer is as sure as
\* the model says, up to a ceiling, and may be unsupported, missing or none of the options.
FreeText(f) ==
  IF form[f].kind \in {"essay", "text", "choice"}
  THEN UNION {Optional(f, Plan("model", sure)) : sure \in BOOLEAN} ELSE {}

\* Mutant of Answers: the model is asked before the demographic rule.
AnswersModelFirst(f) ==
  IF form[f].hostile THEN {Plan("blocked", FALSE)}
  ELSE {Sure("explicit"), Sure("model"), Sure("stated"), Sure("declined"), NoPlan}

Answers(f) ==
  IF form[f].hostile THEN {Plan("blocked", FALSE)}
  ELSE Optional(f, Sure("explicit")) \cup
       (IF form[f].kind = "demographic" THEN Demographic
        ELSE Optional(f, Sure("profile")) \cup FreeText(f) \cup {NoPlan})

-----------------------------------------------------------------------------
(* _drive, stage by stage. *)

\* goto raises, or the page is there.
OpenForm ==
  /\ AtStage("open")
  /\ Ends("raised") \/ GoesTo("discover")
  /\ Untouched

\* discover_fields: nothing readable is a question for a person; else it reads the
\* controls, which may not be all of them.
ReadFields ==
  /\ AtStage("discover")
  /\ \/ Ends("needs_review")
     \/ \E seen \in SUBSET Fields \ {{}} :
          attempt' = [attempt EXCEPT !.stage = "fill", !.seen = seen]
  /\ Untouched

Essays == {f \in attempt.seen : form[f].kind = "essay"}

\* detect_blockers: nothing, something that stops an automaton, or no way to tell.
Blockers == {{}, {"captcha"}, {"unknown"}}

\* fill: too many essays or a blocker, one that could not be looked for included, and
\* no field is touched.
BeginFill ==
  /\ AtStage("fill")
  /\ \/ /\ Cardinality(Essays) > MaxEssays
        /\ Ends("needs_review")
     \/ /\ Cardinality(Essays) <= MaxEssays
        /\ \E blockers \in Blockers :
             IF blockers # {} THEN attempt' = [attempt EXCEPT !.stage = "done", !.blockers = blockers,
                                                              !.result = "needs_review"]
             ELSE attempt' = [attempt EXCEPT !.stage = "answer",
                    !.left = {f \in attempt.seen : form[f].kind # "file"}]
  /\ Untouched

\* FieldResolver.resolve: the plan has a value, and it clears min_answer_confidence.
Usable(plan) == plan.source \notin {"none", "blocked"} /\ plan.sure

\* _write and the writers of each kind of control: the value is in it afterwards, or not.
Writes == BOOLEAN

\* One field: resolve, compare with the threshold, write; a failed write is a review.
AnswerField(f) ==
  /\ AtStage("answer") /\ f \in attempt.left
  /\ \E plan \in Answers(f), written \in Writes :
       LET kept == Usable(plan) /\ written
       IN  attempt' = [attempt EXCEPT
             !.left = @ \ {f},
             !.blockers = IF plan.source = "blocked" THEN @ \cup {"unsafe_content"} ELSE @,
             !.answers[f] = IF kept THEN plan ELSE @,
             !.review = IF kept THEN @ ELSE @ \cup {f}]
  /\ Untouched

AllAnswered ==
  /\ AtStage("answer") /\ attempt.left = {}
  /\ IF attempt.review # {} THEN Ends("needs_review")
     ELSE attempt' = [attempt EXCEPT !.stage = "upload",
                        !.left = {f \in attempt.seen : form[f].kind = "file"}]
  /\ Untouched

\* plan_documents and _upload_documents: a required document this attempt does not have,
\* or an attachment the page does not show afterwards, is a review.
AttachFile(f) ==
  /\ AtStage("upload") /\ f \in attempt.left
  /\ \/ attempt' = [attempt EXCEPT !.left = @ \ {f}, !.attached = @ \cup {f}]
     \/ ~form[f].required /\ attempt' = [attempt EXCEPT !.left = @ \ {f}]
     \/ Ends("needs_review")
  /\ Untouched

\* AutoFiller.submit: the gate, before anything is touched.
SubmitGate ==
  /\ AtStage("upload") /\ attempt.left = {}
  /\ IF attempt.dry \/ ~armed THEN Ends("needs_review") ELSE GoesTo("locate")
  /\ Untouched

\* No control that may be clicked, or the error marker that is there already is noted.
LocateSubmit ==
  /\ AtStage("locate")
  /\ \/ Ends("needs_review")
     \/ attempt' = [attempt EXCEPT !.stage = "click", !.baseline = page.error]
  /\ Untouched

\* The click is delivered or not; a click that raises may be either.
ClickSubmit ==
  /\ AtStage("click")
  /\ \E delivered, raised, accepted \in BOOLEAN :
       /\ delivered \/ raised
       /\ accepted => delivered
       /\ page' = [page EXCEPT !.received = accepted]
       /\ IF raised THEN Ends("needs_review")
          ELSE attempt' = [attempt EXCEPT !.stage = "await", !.clicked = TRUE]
  /\ UNCHANGED <<form, armed>>

\* _await_outcome: a success marker, an error marker that was not there before, or time
\* is up.
AwaitOutcome ==
  /\ AtStage("await")
  /\ GoesTo("verify")
  /\ Untouched

\* ApplicationVerifier.verify, once: errors first, then the proofs of success.
Verdict ==
  IF page.error # "none" THEN "failed"
  ELSE IF page.success THEN "confirmed" ELSE "needs_review"

Verify ==
  /\ AtStage("verify")
  /\ Ends(Verdict)
  /\ Untouched

-----------------------------------------------------------------------------
(* The page, the settings and the browser go their own way. *)

\* After a click the page shows the proof of what it did with it, in the form's place or
\* beside it; an untouched form never does.
PageAnswers ==
  /\ attempt.clicked /\ AtStage("await")
  /\ \/ /\ page.received
        /\ \E error \in {page.error, "none"} : page' = [page EXCEPT !.success = TRUE, !.error = error]
     \/ /\ ~page.received
        /\ page' = [page EXCEPT !.error = "after"]
  /\ UNCHANGED <<form, armed, attempt>>

SettingsChange == armed' = ~armed /\ UNCHANGED <<form, page, attempt>>

\* The browser or the task goes away: the exception is the caller's.
AttemptRaises ==
  /\ attempt.stage \notin {"open", "done"}
  /\ Ends("raised")
  /\ Untouched

FormStep ==
  \/ OpenForm \/ ReadFields \/ BeginFill \/ AllAnswered \/ SubmitGate \/ LocateSubmit \/ ClickSubmit
  \/ AwaitOutcome \/ Verify
  \/ \E f \in Fields : AnswerField(f) \/ AttachFile(f)

FormNext == FormStep \/ PageAnswers \/ SettingsChange \/ AttemptRaises

FormSpec == FormInit /\ [][FormNext]_formVars
-----------------------------------------------------------------------------
FormTypeOK ==
  /\ form \in [Fields -> Shapes]
  /\ page \in [error : {"none", "before", "after"}, success : BOOLEAN, received : BOOLEAN]
  /\ armed \in BOOLEAN
  /\ attempt.seen \subseteq Fields /\ attempt.left \subseteq Fields
  /\ attempt.review \subseteq Fields /\ attempt.attached \subseteq Fields
  /\ \A f \in Fields : attempt.answers[f].source \in AnswerSources
  /\ attempt.result \in {"none", "needs_review", "failed", "confirmed", "raised"}

\* A field holds what the owner said of it, or an answer that cleared the threshold.
Settled(f) ==
  IF form[f].kind = "demographic" THEN attempt.answers[f].source \in {"explicit", "stated", "declined"}
  ELSE attempt.answers[f].sure /\ attempt.answers[f].source # "none"

\* What reaches an employer is what the owner would have written (autofill.py, fill and
\* submit): if the employer has the application then the run was no rehearsal, no blocker
\* had been met, no field that was read had been left to a person, every demographic answer
\* was stated or declined, and every required document that was seen is attached.
OnlySureAnswersAreSent ==
  page.received =>
    /\ ~attempt.dry /\ attempt.blockers = {} /\ attempt.review = {}
    /\ Cardinality(Essays) <= MaxEssays
    /\ \A f \in attempt.seen :
         IF form[f].kind = "file" THEN form[f].required => f \in attempt.attached ELSE Settled(f)

\* "Error markers are routinely present on an untouched form ... so only a marker that was
\* not there before is evidence of a rejection" (autofill.py:1542-1546): an attempt fails,
\* and may be made again, only if the employer does not have it.  Violated: the verifier
\* looks at the same markers without the baseline.
FailedMeansUnsent == attempt.result = "failed" => ~page.received

\* "Neither may verify: nothing was sent" (apply.py:783): an attempt that ends without a
\* verdict of the page sent nothing.  Violated by a click that raises once delivered.
UnverifiedMeansUnsent == attempt.result = "needs_review" /\ ~attempt.clicked => ~page.received
=============================================================================
