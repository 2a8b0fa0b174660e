-------------------------------- MODULE Outbox --------------------------------
(***************************************************************************)
(* What ApplicationService.claim promises, with no task, queue or provider *)
(* in sight: every application has one ticket to be sent, a worker takes   *)
(* the ticket before it sends, and nobody ever issues a second one.  So    *)
(* workers may race, die and start over, and the employer still receives   *)
(* the application at most once.                                           *)
(***************************************************************************)
EXTENDS Naturals

CONSTANTS Apps, Workers

VARIABLES
  open,     \* the applications whose ticket is still to be had
  holding,  \* which worker holds the ticket of which application, not yet spent
  sent      \* how often the employer has received each application

outboxVars == <<open, holding, sent>>

Init ==
  /\ open \in SUBSET Apps
  /\ holding = {}
  /\ sent \in [Apps -> {0, 1}]
  /\ \A a \in open : sent[a] = 0

\* ApplicationService.claim answers True, to one caller.
Take(w, a) ==
  /\ a \in open
  /\ open' = open \ {a}
  /\ holding' = holding \cup {<<w, a>>}
  /\ UNCHANGED sent

\* provider.apply sends the form and the ticket is spent.
Spend(w, a) ==
  /\ <<w, a>> \in holding
  /\ holding' = holding \ {<<w, a>>}
  /\ sent' = [sent EXCEPT ![a] = @ + 1]
  /\ UNCHANGED open

\* Tickets lapse: rows are parked or closed by `transition`, attempts are given up.
Lapse ==
  /\ open' \in SUBSET open
  /\ holding' \in SUBSET holding
  /\ UNCHANGED sent

Next == Lapse \/ \E w \in Workers, a \in Apps : Take(w, a) \/ Spend(w, a)

Spec == Init /\ [][Next]_outboxVars
=============================================================================
