-------------------------- MODULE ApplicationStates --------------------------
(***************************************************************************)
(* The status vocabulary of one application row and the table of legal     *)
(* moves between statuses.  Everything here is constant: it is the data    *)
(* app/models/enums.py and app/services/application_service.py are driven  *)
(* by, and the modules that move rows around instantiate it.               *)
(***************************************************************************)

\* ApplicationStatus: where a row can stand before and after the employer has it.
PreSubmit == {"draft", "preparing", "ready", "submitting"}
OffPath == {"needs_review", "failed", "abandoned"}
PostSubmit == {"submitted", "confirmed", "rejected", "interview", "offer",
               "accepted", "ghosted"}
Status == PreSubmit \cup OffPath \cup PostSubmit

\* The end of the automated funnel; some of these keep an edge out.
Terminal == {"failed", "abandoned", "rejected", "accepted", "ghosted"}

\* No row exists yet for this (user, posting) pair.
NoRow == "no_row"

\* ALLOWED_TRANSITIONS, the table `transition` and `claim` consult.
Allowed ==
  [draft        |-> {"preparing", "ready", "needs_review", "failed", "abandoned"},
   preparing    |-> {"ready", "needs_review", "failed", "abandoned"},
   ready        |-> {"preparing", "submitting", "needs_review", "failed", "abandoned"},
   submitting   |-> {"submitted", "confirmed", "needs_review", "failed", "abandoned"},
   submitted    |-> {"confirmed", "rejected", "interview", "offer", "ghosted"},
   confirmed    |-> {"rejected", "interview", "offer", "ghosted"},
   needs_review |-> {"preparing", "ready", "failed", "abandoned"},
   failed       |-> {"preparing", "ready", "abandoned"},
   abandoned    |-> {"draft"},
   rejected     |-> {"interview", "offer"},
   interview    |-> {"offer", "rejected", "ghosted"},
   offer        |-> {"accepted"},
   accepted     |-> {"offer"},
   ghosted      |-> {"interview", "offer", "rejected"}]

\* ApplicationService.can_transition: staying put is always legal.
CanTransition(from, to) == from = to \/ to \in Allowed[from]

\* Application.can_submit: neither with the employer nor finished.
CanSubmit(s) == s \notin PostSubmit \cup Terminal

\* PREPARABLE_STATES: where Pipeline.prepare does any work at all.
Preparable == {"draft", "preparing", "needs_review", "failed"}

\* _APPLY_RESULT_TARGETS: what a provider's result may ask for.
ApplyTargets == {"confirmed", "submitted", "needs_review", "failed"}

\* Pipeline._finalize: any other reported status is a provider bug, read as
\* "a human should look at this".
FinalTarget(reported) ==
  IF reported \in ApplyTargets THEN reported ELSE "needs_review"
=============================================================================
