---------------------------- MODULE MCSubmission ----------------------------
(* Small instances of Submission for TLC. *)
EXTENDS Submission, TLC

CONSTANTS a1, a2, a3, w1, w2, none

MCApps2 == {a1, a2}
MCApps3 == {a1, a2, a3}
MCWorkers2 == {w1, w2}
MCOneApp == {a1}

\* Workers are interchangeable; applications are not (RunApps and Automatable name some).
WorkerSymmetry == Permutations(Workers)

\* Rows the tasks can meet: sendable, parked, and already with the employer.
MCInit ==
  /\ Init
  /\ status \in [Apps -> {"ready", "needs_review", "confirmed"}]
MCSpec == MCInit /\ [][Next]_vars
=============================================================================
