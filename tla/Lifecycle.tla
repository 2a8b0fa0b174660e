------------------------------- MODULE Lifecycle -------------------------------
(***************************************************************************)
(* What the state machine of app/services/application_service.py promises  *)
(* about an application, whoever moves it: a row changes status along the  *)
(* edges of ALLOWED_TRANSITIONS only, and the employer receives the        *)
(* application only while it is `submitting`, once per visit to that       *)
(* status.  The modules that model the workers are checked against it.     *)
(***************************************************************************)
EXTENDS ApplicationStates, Naturals

CONSTANT Apps

VARIABLES
  status,  \* the row of each application, NoRow before it is created
  open,    \* this visit to `submitting` may still send the form
  sends    \* how often the employer has received the application

lifecycleVars == <<status, open, sends>>

TypeOK ==
  /\ status \in [Apps -> Status \cup {NoRow}]
  /\ open \in [Apps -> BOOLEAN]
  /\ sends \in [Apps -> Nat]

Init ==
  /\ status \in [Apps -> (Status \cup {NoRow}) \ {"submitting"}]
  /\ open = [a \in Apps |-> FALSE]
  /\ sends \in [Apps -> Nat]

\* create_or_get inserts a draft.
Create(a) ==
  /\ status[a] = NoRow
  /\ status' = [status EXCEPT ![a] = "draft"]
  /\ UNCHANGED <<open, sends>>

\* An edge of the table; entering `submitting` opens the form, leaving closes it.
Move(a) ==
  /\ status[a] # NoRow
  /\ \E s \in Allowed[status[a]] :
       /\ status' = [status EXCEPT ![a] = s]
       /\ open' = [open EXCEPT ![a] = (s = "submitting")]
  /\ UNCHANGED sends

\* The form goes out.
Send(a) ==
  /\ status[a] = "submitting" /\ open[a]
  /\ sends' = [sends EXCEPT ![a] = @ + 1]
  /\ open' = [open EXCEPT ![a] = FALSE]
  /\ UNCHANGED status

\* The attempt is given up without sending, the row left where it is.
GiveUp(a) ==
  /\ open[a]
  /\ open' = [open EXCEPT ![a] = FALSE]
  /\ UNCHANGED <<status, sends>>

Next == \E a \in Apps : Create(a) \/ Move(a) \/ Send(a) \/ GiveUp(a)

Spec == Init /\ [][Next]_lifecycleVars

\* The point of no return: once the employer holds an application no sequence of
\* moves takes it back to a status it could be sent from
\* (application_service.py, "no outgoing edge back to any pre-submit state").
PointOfNoReturn ==
  [][\A a \in Apps : status[a] \in PostSubmit => status'[a] \in PostSubmit]_lifecycleVars

\* Only an application the state machine has put in flight reaches the employer,
\* and it is not in flight unless it was ready the moment before.
OnlyDoor ==
  [][\A a \in Apps :
       /\ sends'[a] # sends[a] => status[a] = "submitting"
       /\ status[a] # "submitting" /\ status'[a] = "submitting" => status[a] = "ready"
    ]_lifecycleVars
=============================================================================
