----------------------------- MODULE StatusSync -----------------------------
(***************************************************************************)
(* Status sync: polls of one mailbox (several may overlap: the scheduled   *)
(* one, the one on launch, the button), the signals they record, and the   *)
(* status of the application the mail is about, which a person and the     *)
(* nightly ghosting sweep write as well.  Messages are numbered in the     *)
(* order of arrival; a mailbox reads on from a cursor.                     *)
(***************************************************************************)
EXTENDS Naturals, FiniteSets, Sequences

States == INSTANCE ApplicationStates

CONSTANTS
  Providers, \* the kinds of mailbox admitted: "imap", or "delta" (Gmail, Outlook)
  MailPolls,     \* polls that may run at the same time
  MailLast,  \* the messages are 1..MailLast
  MailLimit, \* MailQuery.limit: messages one poll reads at most
  Says,      \* what messages may be classified as
  Verdicts,   \* the statuses a person may record
  MaxFails   \* bound: polls that break off

ASSUME StatusSyncAssumption ==
  /\ Providers \subseteq {"imap", "delta"}
  /\ MailLast \in Nat /\ MailLimit \in Nat \ {0} /\ MaxFails \in Nat
  /\ Says \subseteq {"unknown", "none"} \cup States!PostSubmit
  /\ Verdicts \subseteq States!Status

VARIABLES
  provider, \* the kind of the account's mailbox
  mail,     \* the messages that arrived: what each says, and whether it is sure
  cursor,   \* EmailAccount.cursor, the last message it stands for
  signal,   \* the status_signals row of each message
  target,   \* the application: status and status_source
  poll,     \* each poll's progress
  ghost,    \* the status the ghosting sweep selected the application with
  moved,    \* history: messages whose status was written to the application
  byHand,   \* history: the present status is one a person recorded
  fails

syncVars == <<provider, mail, cursor, signal, target, poll, ghost, moved, byHand, fails>>

Messages == 1..MailLast
Arrived == DOMAIN mail
IdlePoll == [pc |-> "idle", from |-> 0, top |-> 0, todo |-> {}, at |-> 0]

MANUAL_OUTCOME_STATUSES == {"rejected", "offer", "accepted", "abandoned"}
NEVER_AUTO_APPLIED == {"accepted"}
GHOSTED_ELIGIBLE_STATUSES == {"submitted", "confirmed"}

OldestIn(S) == CHOOSE m \in S : \A k \in S : m <= k
NewestIn(S) == CHOOSE m \in S : \A k \in S : k <= m

\* Mutant of OldestOf: the newest first, as a mailbox lists them.
NewestOf(S, n) == {m \in S : Cardinality({k \in S : k > m}) < n}

\* The oldest n of a set of messages.
OldestOf(S, n) == {m \in S : Cardinality({k \in S : k < m}) < n}

Handled(m) == signal[m] # "absent" \/ mail[m].status = "unknown"

\* _transition: a final outcome recorded by hand is not overwritten, and the state
\* machine refuses illegal moves.
MayMove(status) ==
  /\ ~ (target.source = "manual" /\ target.status \in MANUAL_OUTCOME_STATUSES
        /\ target.status # status)
  /\ States!CanTransition(target.status, status)

\* _maybe_apply: confident enough, and not an outcome only a person may record.
MayApply(m) == mail[m].sure /\ mail[m].status \notin NEVER_AUTO_APPLIED /\ MayMove(mail[m].status)

-----------------------------------------------------------------------------
SyncInit ==
  /\ provider \in Providers
  /\ mail = <<>>
  /\ cursor = 0
  /\ signal = [m \in Messages |-> "absent"]
  /\ target = [status |-> "submitted", source |-> "manual"]
  /\ poll = [p \in MailPolls |-> IdlePoll]
  /\ ghost = "none"
  /\ moved = {}
  /\ byHand = FALSE
  /\ fails = 0

\* A message arrives.
Arrive ==
  /\ Len(mail) < MailLast
  /\ \E says \in Says, sure \in BOOLEAN :
       mail' = Append(mail, [status |-> says, sure |-> sure])
  /\ UNCHANGED <<provider, cursor, signal, target, poll, ghost, moved, byHand, fails>>

\* The account is loaded and the mailbox connected; Gmail and Outlook take their next
\* cursor here, before they look.
Connect(p) ==
  /\ poll[p].pc = "idle"
  /\ poll' = [poll EXCEPT ![p] = [IdlePoll EXCEPT !.pc = "search", !.from = cursor,
                                                  !.top = Len(mail)]]
  /\ UNCHANGED <<provider, mail, cursor, signal, target, ghost, moved, byHand, fails>>

\* What is newer than the cursor, oldest first, up to the limit.  IMAP's next cursor is
\* the last message read; without one it stays what it was.
SearchMailbox(p) ==
  /\ poll[p].pc = "search"
  /\ LET batch == OldestOf({m \in Arrived : m > poll[p].from}, MailLimit)
     IN  poll' = [poll EXCEPT ![p].pc = "process", ![p].todo = batch,
                              ![p].top = IF provider = "delta" THEN @
                                         ELSE NewestIn(batch \cup {poll[p].from})]
  /\ UNCHANGED <<provider, mail, cursor, signal, target, ghost, moved, byHand, fails>>

\* Mutant of Process: a signal that may not be applied is only recorded.
ProcessNoReview(p) ==
  /\ poll[p].pc = "process" /\ poll[p].todo # {}
  /\ LET m == OldestIn(poll[p].todo)
     IN  /\ poll' = [poll EXCEPT ![p].todo = @ \ {m}]
         /\ signal' = [signal EXCEPT ![m] = IF Handled(m) THEN @
                                            ELSE IF MayApply(m) THEN "applied" ELSE "closed"]
         /\ UNCHANGED <<target, moved, byHand>>
  /\ UNCHANGED <<provider, mail, cursor, ghost, fails>>

\* _process on the oldest message left: an unknown one and one that is recorded already
\* are skipped; else the row is inserted and committed together with what becomes of it.
\* A move of the application commits first, and the row is marked afterwards.
Process(p) ==
  /\ poll[p].pc = "process" /\ poll[p].todo # {}
  /\ LET m == OldestIn(poll[p].todo)
         moves == MayApply(m)
     IN  IF Handled(m)
         THEN /\ poll' = [poll EXCEPT ![p].todo = @ \ {m}]
              /\ UNCHANGED <<signal, target, moved, byHand>>
         ELSE IF mail[m].status = "none"
         THEN /\ signal' = [signal EXCEPT ![m] = "closed"]
              /\ poll' = [poll EXCEPT ![p].todo = @ \ {m}]
              /\ UNCHANGED <<target, moved, byHand>>
         ELSE IF moves
         THEN /\ signal' = [signal EXCEPT ![m] = "fresh"]
              /\ target' = [status |-> mail[m].status, source |-> "email"]
              /\ moved' = moved \cup {m}
              /\ byHand' = (byHand /\ target.status = mail[m].status)
              /\ poll' = [poll EXCEPT ![p].pc = "mark", ![p].todo = @ \ {m}, ![p].at = m]
         ELSE /\ signal' = [signal EXCEPT ![m] = "review"]
              /\ poll' = [poll EXCEPT ![p].todo = @ \ {m}]
              /\ UNCHANGED <<target, moved, byHand>>
  /\ UNCHANGED <<provider, mail, cursor, ghost, fails>>

Mark(p) ==
  /\ poll[p].pc = "mark"
  /\ signal' = [signal EXCEPT ![poll[p].at] = "applied"]
  /\ poll' = [poll EXCEPT ![p].pc = "process", ![p].at = 0]
  /\ UNCHANGED <<provider, mail, cursor, target, ghost, moved, byHand, fails>>

\* The end of a poll that read everything: the cursor it carries is stored.
FinishPoll(p) ==
  /\ poll[p].pc = "process" /\ poll[p].todo = {}
  /\ cursor' = IF poll[p].top > 0 THEN poll[p].top ELSE cursor
  /\ poll' = [poll EXCEPT ![p] = IdlePoll]
  /\ UNCHANGED <<provider, mail, signal, target, ghost, moved, byHand, fails>>

\* The mailbox fails, a step raises or the worker dies: the cursor stays.
BreakOff(p) ==
  /\ poll[p].pc # "idle" /\ fails < MaxFails
  /\ fails' = fails + 1
  /\ poll' = [poll EXCEPT ![p] = IdlePoll]
  /\ UNCHANGED <<provider, mail, cursor, signal, target, ghost, moved, byHand>>
-----------------------------------------------------------------------------
(* What a person does. *)

\* PATCH /applications records an outcome and leaves status_source alone.
PatchStatus(status) ==
  /\ States!CanTransition(target.status, status)
  /\ target' = [target EXCEPT !.status = status]
  /\ byHand' = TRUE
  /\ UNCHANGED <<provider, mail, cursor, signal, poll, ghost, moved, fails>>

\* resolve: the person names the status a signal means.
ResolveSignal(m, status) ==
  /\ signal[m] # "absent"
  /\ States!CanTransition(target.status, status)
  /\ target' = [status |-> status, source |-> "manual"]
  /\ signal' = [signal EXCEPT ![m] = "applied"]
  /\ byHand' = TRUE
  /\ UNCHANGED <<provider, mail, cursor, poll, ghost, moved, fails>>

\* apply_signal: what the message says, under the guards of _transition.
ApplySignal(m) ==
  /\ signal[m] \notin {"absent", "applied"}
  /\ mail[m].status # "none" /\ mail[m].sure
  /\ MayMove(mail[m].status)
  /\ target' = [status |-> mail[m].status, source |-> "email"]
  /\ signal' = [signal EXCEPT ![m] = "applied"]
  /\ moved' = moved \cup {m}
  /\ byHand' = (byHand /\ target.status = mail[m].status)
  /\ UNCHANGED <<provider, mail, cursor, poll, ghost, fails>>

DismissSignal(m) ==
  /\ signal[m] = "review"
  /\ signal' = [signal EXCEPT ![m] = "dismissed"]
  /\ UNCHANGED <<provider, mail, cursor, target, poll, ghost, moved, byHand, fails>>

(* detect_ghosted selects rows, then moves them one by one as it read them. *)
GhostSelect ==
  /\ ghost = "none" /\ target.status \in GHOSTED_ELIGIBLE_STATUSES
  /\ ghost' = target.status
  /\ UNCHANGED <<provider, mail, cursor, signal, target, poll, moved, byHand, fails>>

GhostWrite ==
  /\ ghost # "none"
  /\ ghost' = "none"
  /\ target' = [status |-> "ghosted", source |-> "inferred"]
  /\ byHand' = FALSE
  /\ UNCHANGED <<provider, mail, cursor, signal, poll, moved, fails>>

MailStep(p) == Connect(p) \/ SearchMailbox(p) \/ Process(p) \/ Mark(p) \/ FinishPoll(p)

SyncNext ==
  \/ Arrive
  \/ \E p \in MailPolls : MailStep(p) \/ BreakOff(p)
  \/ \E status \in Verdicts :
       PatchStatus(status) \/ \E m \in Arrived : ResolveSignal(m, status)
  \/ \E m \in Arrived : ApplySignal(m) \/ DismissSignal(m)
  \/ GhostSelect \/ GhostWrite

SyncSpec == SyncInit /\ [][SyncNext]_syncVars
SyncFairSpec == SyncSpec /\ \A p \in MailPolls : WF_syncVars(MailStep(p))
-----------------------------------------------------------------------------
SyncTypeOK ==
  /\ provider \in Providers
  /\ Len(mail) <= MailLast
  /\ cursor \in 0..MailLast
  /\ signal \in [Messages -> {"absent", "fresh", "review", "applied", "dismissed", "closed"}]
  /\ target \in [status : States!Status, source : {"manual", "email", "inferred"}]
  /\ poll \in [MailPolls -> [pc : {"idle", "search", "process", "mark"}, from : 0..MailLast,
                         top : 0..MailLast, todo : SUBSET Messages, at : 0..MailLast]]
  /\ ghost \in {"none"} \cup GHOSTED_ELIGIBLE_STATUSES
  /\ moved \subseteq Messages /\ byHand \in BOOLEAN /\ fails \in 0..MaxFails

\* No answer of an employer gets lost between the mailbox and the person: one that is
\* recorded was written to the application, waits for review, or was dismissed, also
\* when the poll dies between its two commits or another poll read the same message.
AnswersReachSomebody ==
  \A m \in Arrived :
    signal[m] \in {"fresh", "closed"} /\ mail[m].status # "none" => m \in moved

\* "A run that hits the limit keeps the oldest messages; the remainder is picked up
\* incrementally" (gmail.py): what arrived is read some time.
EveryMessageIsRead == \A m \in Messages : m \in Arrived ~> m \in Arrived /\ Handled(m)

\* "Final outcomes that, when the user recorded them by hand, are never overwritten
\* automatically" (service.py 112-113).
HandRecordedOutcomeStands ==
  [][byHand /\ target.status \in MANUAL_OUTCOME_STATUSES
       => byHand' \/ target'.status = target.status]_<<target, byHand>>
=============================================================================
