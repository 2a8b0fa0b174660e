----------------------------- MODULE ServiceProofs -----------------------------
(***************************************************************************)
(* Theorems about the background services: the retention sweep, status     *)
(* sync, the language model client, discovery and the search of boards,    *)
(* for any number of rows, messages, callers, polls and boards, and any    *)
(* limit or budget.                                                        *)
(***************************************************************************)
EXTENDS Artifacts, StatusSync, LanguageModel, Discovery, BoardSearch, LeastElement

-----------------------------------------------------------------------------
(* Artifacts.                                                              *)

FiledRow == [status : {"ready", "submitted", "confirmed", "needs_review", "failed", "rejected"},
             proof : 0..MaxRows]
ArtifactRow == [kind : {"none", "screenshot", "document", "upload"}, born : 0..LastDay,
                died : 0..LastDay, state : {"none", "live", "retired", "gone"}]
SweepRow == [at : {"idle", "selected", "archived", "released"},
             retired : SUBSET Rows, releasable : SUBSET Rows]

LEMMA ArtNumbers ==
  /\ MaxRows \in Nat /\ LastDay \in Nat /\ Age \in Nat
  /\ Rows \subseteq Nat /\ 0 \in 0..MaxRows /\ 0 \in 0..LastDay
<1>1. MaxRows \in Nat /\ LastDay \in Nat /\ Age \in Nat
  BY ArtifactsAssumption
<1> QED
  BY <1>1 DEF Rows

\* The next row of the catalogue is a free one.
LEMMA NextRowIsFree ==
  ASSUME Unused # {}
  PROVE  NextRow \in Rows /\ artifact[NextRow] = NoArtifact
<1>1. Unused \subseteq Nat
  BY ArtNumbers DEF Unused
<1>2. \E r \in Unused : \A q \in Unused : r <= q
  BY <1>1, SmallestIn
<1>3. NextRow \in Unused
  BY <1>2 DEF NextRow
<1> QED
  BY <1>3 DEF Unused

\* Inserting touches one row, which was free.
LEMMA InsertedIs ==
  ASSUME ArtTypeOK, NEW kind \in {"screenshot", "document", "upload"}, Inserted(kind)
  PROVE  /\ artifact' \in [Rows -> ArtifactRow]
         /\ NextRow \in Rows
         /\ artifact[NextRow].state = "none" /\ artifact'[NextRow].state = "live"
         /\ \A r \in Rows \ {NextRow} : artifact'[r] = artifact[r]
         /\ bytes' \subseteq {"screenshot", "document", "upload"}
<1>1. NextRow \in Rows /\ artifact[NextRow] = NoArtifact
  BY NextRowIsFree DEF Inserted
<1>2. artifact \in [Rows -> ArtifactRow] /\ day \in 0..LastDay
  BY DEF ArtTypeOK, ArtifactRow
<1> DEFINE new == [kind |-> kind, born |-> day, died |-> 0, state |-> "live"]
<1>3. artifact' = [artifact EXCEPT ![NextRow] = new]
  BY DEF Inserted
<1>4. new \in ArtifactRow /\ new.state = "live"
  BY <1>2, ArtNumbers DEF ArtifactRow
<1>5. artifact[NextRow].state = "none"
  BY <1>1 DEF NoArtifact
<1>6. bytes' \subseteq {"screenshot", "document", "upload"}
  BY DEF Inserted, KeyOf, ArtTypeOK
<1> HIDE DEF new
<1> QED
  BY <1>1, <1>2, <1>3, <1>4, <1>5, <1>6

LEMMA ArtTypesStep == ArtTypeOK /\ [ArtNext]_artVars => ArtTypeOK'
<1> SUFFICES ASSUME ArtTypeOK, [ArtNext]_artVars PROVE ArtTypeOK'
  OBVIOUS
<1>0. /\ day \in 0..LastDay /\ filed \in FiledRow /\ artifact \in [Rows -> ArtifactRow]
      /\ bytes \subseteq {"screenshot", "document", "upload"}
      /\ archive \subseteq Rows /\ sweep \in SweepRow
  BY DEF ArtTypeOK, FiledRow, ArtifactRow, SweepRow
<1> SUFFICES /\ day' \in 0..LastDay /\ filed' \in FiledRow
             /\ artifact' \in [Rows -> ArtifactRow]
             /\ bytes' \subseteq {"screenshot", "document", "upload"}
             /\ archive' \subseteq Rows /\ sweep' \in SweepRow
  BY DEF ArtTypeOK, FiledRow, ArtifactRow, SweepRow
<1>1. CASE Attempt
  <2>1. NextRow \in 0..MaxRows
    BY <1>1, InsertedIs, ArtNumbers DEF Attempt, Rows
  <2>2. filed' \in FiledRow
    BY <1>1, <2>1 DEF Attempt, FiledRow
  <2> QED
    BY <1>0, <1>1, <2>2, InsertedIs DEF Attempt
<1>2. CASE Proceeds
  <2>1. \E s \in {"ready", "confirmed", "rejected"} : filed' = [filed EXCEPT !.status = s]
    BY <1>2 DEF Proceeds
  <2>2. filed' \in FiledRow
    BY <1>0, <2>1 DEF FiledRow
  <2> QED
    BY <1>0, <1>2, <2>2 DEF Proceeds
<1>3. CASE Upload
  BY <1>0, <1>3, InsertedIs DEF Upload
<1>4. CASE RenderDocument
  BY <1>0, <1>4, InsertedIs DEF RenderDocument
<1>5. ASSUME NEW r \in Rows, Forget(r) \/ Discard(r) PROVE
        /\ artifact' \in [Rows -> ArtifactRow] /\ bytes' \subseteq bytes
        /\ UNCHANGED <<day, filed, archive, sweep>>
  <2>1. \/ UNCHANGED artifact
        \/ artifact' = [artifact EXCEPT ![r] = [@ EXCEPT !.state = "retired", !.died = day]]
    BY <1>5 DEF Forget, Discard
  <2>2. [artifact[r] EXCEPT !.state = "retired", !.died = day] \in ArtifactRow
    BY <1>0 DEF ArtifactRow
  <2>3. artifact' \in [Rows -> ArtifactRow]
    BY <1>0, <2>1, <2>2
  <2> QED
    BY <1>5, <2>3 DEF Forget, Discard
<1>6. CASE NextDay
  <2>1. day' \in 0..LastDay
    BY <1>0, <1>6, ArtNumbers DEF NextDay
  <2> QED
    BY <1>0, <1>6, <2>1 DEF NextDay
<1>7. CASE Select
  <2>1. sweep' \in SweepRow
    BY <1>7 DEF Select, SweepRow
  <2> QED
    BY <1>0, <1>7, <2>1 DEF Select
<1>8. CASE Archive \/ ReleaseBytes
  <2>1. \E at \in {"archived", "released"} : sweep' = [sweep EXCEPT !.at = at]
    BY <1>8 DEF Archive, ReleaseBytes
  <2>2. sweep' \in SweepRow
    BY <1>0, <2>1 DEF SweepRow
  <2>3. archive' \subseteq Rows
    BY <1>0, <1>8 DEF Archive, ReleaseBytes, SweepRow
  <2>4. bytes' \subseteq bytes
    BY <1>8 DEF Archive, ReleaseBytes
  <2> QED
    BY <1>0, <1>8, <2>2, <2>3, <2>4 DEF Archive, ReleaseBytes
<1>9. CASE Commit
  <2>1. ASSUME NEW r \in Rows PROVE Committed(r) \in ArtifactRow
    <3>1. artifact[r] \in ArtifactRow
      BY <1>0
    <3> QED
      BY <1>0, <3>1 DEF Committed, ArtifactRow
  <2>2. sweep' \in SweepRow
    BY <1>9 DEF Commit, IdleSweep, SweepRow
  <2> QED
    BY <1>0, <1>9, <2>1, <2>2 DEF Commit
<1>10. CASE PruneAborts
  <2>1. sweep' \in SweepRow
    BY <1>10 DEF PruneAborts, IdleSweep, SweepRow
  <2> QED
    BY <1>0, <1>10, <2>1 DEF PruneAborts
<1>11. CASE UNCHANGED artVars
  BY <1>0, <1>11 DEF artVars
<1> QED
  BY <1>0, <1>1, <1>2, <1>3, <1>4, <1>5, <1>6, <1>7, <1>8, <1>9, <1>10, <1>11 DEF ArtNext, Prune

\* The catalogue, the archive and the sweep keep their types.
THEOREM ArtTypes == ArtSpec => []ArtTypeOK
<1>1. ArtInit => ArtTypeOK
  BY ArtNumbers DEF ArtInit, ArtTypeOK, NoArtifact, IdleSweep
<1> QED
  BY <1>1, ArtTypesStep, PTL DEF ArtSpec

\* What the sweep has selected is still as it was selected, whatever the requests and the
\* worker have done since; what it is past exporting is in the archive.
SweepInv ==
  /\ \A r \in sweep.retired : artifact[r].state = "retired" /\ artifact[r].died + Age <= day
  /\ \A r \in sweep.releasable : artifact[r].state = "live" /\ artifact[r].kind = "screenshot"
  /\ sweep.at \in {"archived", "released"} => sweep.retired \cup sweep.releasable \subseteq archive

\* What a request or the worker may do to a row of the catalogue.
RowKeeps(r) ==
  \/ artifact'[r] = artifact[r]
  \/ artifact[r].state = "none" /\ artifact'[r].state = "live"
  \/ /\ artifact[r].state = "live" /\ artifact'[r].state = "retired"
     /\ artifact[r].kind # "screenshot"

\* A step that keeps the selection, and the rows that were retired, gone or selected.
LEMMA SweepKeeps ==
  ASSUME ArtTypeOK, SweepInv, NothingVanishes,
         sweep' = sweep, archive' = archive, day' \in 0..LastDay, day <= day',
         \A r \in Rows : RowKeeps(r)
  PROVE  SweepInv' /\ NothingVanishes'
<1>1. /\ sweep.retired \subseteq Rows /\ sweep.releasable \subseteq Rows /\ day \in Nat
      /\ \A r \in Rows : artifact[r].died \in Nat
  BY ArtNumbers DEF ArtTypeOK
<1>2. \A r \in Rows : artifact[r].died + Age <= day => artifact[r].died + Age <= day'
  <2>1. ASSUME NEW n \in Nat, n + Age <= day PROVE n + Age <= day'
    BY <1>1, <2>1, ArtNumbers
  <2> QED
    BY <1>1, <2>1
<1>3. SweepInv'
  BY <1>1, <1>2 DEF SweepInv, RowKeeps
<1>4. NothingVanishes'
  BY <1>2 DEF NothingVanishes, RowKeeps
<1> QED
  BY <1>3, <1>4

\* No row disappears that is not in an archive, and none before its window is over,
\* however often the sweep of prune_artifacts dies between its steps.
THEOREM SweepIsSafe == ArtSpec => []NothingVanishes
<1>1. ArtInit => SweepInv /\ NothingVanishes
  BY DEF ArtInit, SweepInv, NothingVanishes, IdleSweep, NoArtifact
<1>2. ArtTypeOK /\ ArtTypeOK' /\ SweepInv /\ NothingVanishes /\ [ArtNext]_artVars
        => SweepInv' /\ NothingVanishes'
  <2> SUFFICES ASSUME ArtTypeOK, ArtTypeOK', SweepInv, NothingVanishes, [ArtNext]_artVars
               PROVE  SweepInv' /\ NothingVanishes'
    OBVIOUS
  <2>0. /\ day \in 0..LastDay /\ day' \in 0..LastDay /\ day \in Nat
        /\ artifact \in [Rows -> ArtifactRow]
        /\ sweep.retired \subseteq Rows /\ sweep.releasable \subseteq Rows
    BY ArtNumbers DEF ArtTypeOK, ArtifactRow
  <2>1. CASE Attempt \/ Upload \/ RenderDocument
    <3>1. UNCHANGED <<sweep, archive, day>>
      BY <2>1 DEF Attempt, Upload, RenderDocument
    <3>2. PICK kind \in {"screenshot", "document", "upload"} : Inserted(kind)
      BY <2>1 DEF Attempt, Upload, RenderDocument
    <3>3. ASSUME NEW r \in Rows PROVE RowKeeps(r)
      <4>1. /\ artifact[NextRow].state = "none" /\ artifact'[NextRow].state = "live"
            /\ \A q \in Rows \ {NextRow} : artifact'[q] = artifact[q]
        BY <3>2, InsertedIs
      <4>2. r = NextRow \/ r # NextRow
        OBVIOUS
      <4> QED
        BY <4>1, <4>2 DEF RowKeeps
    <3>4. sweep' = sweep /\ archive' = archive /\ day <= day'
      BY <2>0, <3>1
    <3> QED
      BY <2>0, <3>3, <3>4, SweepKeeps
  <2>2. CASE Proceeds \/ NextDay
    <3>1. sweep' = sweep /\ archive' = archive /\ artifact' = artifact /\ day <= day'
      BY <2>0, <2>2 DEF Proceeds, NextDay
    <3>2. \A r \in Rows : RowKeeps(r)
      BY <3>1 DEF RowKeeps
    <3> QED
      BY <2>0, <3>1, <3>2, SweepKeeps
  <2>3. ASSUME NEW r \in Rows, Forget(r) \/ Discard(r) PROVE SweepInv' /\ NothingVanishes'
    <3>1. UNCHANGED <<sweep, archive, day>>
      BY <2>3 DEF Forget, Discard
    <3>2. \/ UNCHANGED artifact
          \/ /\ artifact' = [artifact EXCEPT ![r] = [@ EXCEPT !.state = "retired", !.died = day]]
             /\ artifact[r].state = "live" /\ artifact[r].kind # "screenshot"
      BY <2>3 DEF Forget, Discard
    <3>3. artifact[r] \in ArtifactRow
      BY <2>0
    <3>4. [artifact[r] EXCEPT !.state = "retired", !.died = day].state = "retired"
      BY <3>3 DEF ArtifactRow
    <3>5. \A q \in Rows : RowKeeps(q)
      BY <2>0, <3>2, <3>4 DEF RowKeeps
    <3>6. sweep' = sweep /\ archive' = archive /\ day <= day'
      BY <2>0, <3>1
    <3> QED
      BY <2>0, <3>5, <3>6, SweepKeeps
  <2>4. CASE Select
    <3>1. /\ sweep'.at = "selected" /\ UNCHANGED <<day, artifact, archive>>
          /\ sweep'.retired
               = {r \in Rows : artifact[r].state = "retired" /\ artifact[r].died + Age <= day}
          /\ sweep'.releasable
               = {r \in Rows : /\ artifact[r].state = "live" /\ artifact[r].kind = "screenshot"
                               /\ artifact[r].born + Age <= day /\ ~IsProof(r)}
      BY <2>4 DEF Select
    <3> QED
      BY <3>1 DEF SweepInv, NothingVanishes
  <2>5. CASE Archive
    <3>1. /\ UNCHANGED <<day, artifact>>
          /\ archive' = archive \cup sweep.retired \cup sweep.releasable
          /\ sweep'.retired = sweep.retired /\ sweep'.releasable = sweep.releasable
      BY <2>5 DEF Archive, ArtTypeOK
    <3> QED
      BY <3>1 DEF SweepInv, NothingVanishes
  <2>6. CASE ReleaseBytes
    <3>1. /\ UNCHANGED <<day, artifact, archive>> /\ sweep.at = "archived"
          /\ sweep'.retired = sweep.retired /\ sweep'.releasable = sweep.releasable
      BY <2>6 DEF ReleaseBytes, ArtTypeOK
    <3> QED
      BY <3>1 DEF SweepInv, NothingVanishes
  <2>7. CASE Commit
    <3>1. /\ UNCHANGED <<day, archive>> /\ sweep.at = "released"
          /\ sweep'.retired = {} /\ sweep'.releasable = {} /\ sweep'.at = "idle"
          /\ \A r \in Rows : artifact'[r] = Committed(r)
      BY <2>7 DEF Commit, IdleSweep
    <3>2. ASSUME NEW r \in Rows, artifact'[r].state = "gone"
          PROVE  r \in archive' /\ artifact'[r].died + Age <= day'
      <4>1. artifact[r] \in ArtifactRow
        BY <2>0
      <4>2. CASE r \in sweep.retired
        <5>1. artifact'[r].died = artifact[r].died
          BY <3>1, <4>1, <4>2 DEF Committed, ArtifactRow
        <5> QED
          BY <3>1, <4>2, <5>1 DEF SweepInv
      <4>3. CASE r \notin sweep.retired
        <5>1. r \notin sweep.releasable /\ artifact'[r] = artifact[r]
          BY <3>1, <3>2, <4>1, <4>3 DEF Committed, ArtifactRow
        <5> QED
          BY <3>1, <3>2, <5>1 DEF NothingVanishes
      <4> QED
        BY <4>2, <4>3
    <3>3. NothingVanishes'
      BY <3>2 DEF NothingVanishes
    <3>4. SweepInv'
      BY <3>1 DEF SweepInv
    <3> QED
      BY <3>3, <3>4
  <2>8. CASE PruneAborts
    <3>1. /\ UNCHANGED <<day, archive, artifact>>
          /\ sweep'.retired = {} /\ sweep'.releasable = {} /\ sweep'.at = "idle"
      BY <2>8 DEF PruneAborts, IdleSweep
    <3> QED
      BY <3>1 DEF SweepInv, NothingVanishes
  <2>9. CASE UNCHANGED artVars
    BY <2>9 DEF artVars, SweepInv, NothingVanishes
  <2> QED
    BY <2>1, <2>2, <2>3, <2>4, <2>5, <2>6, <2>7, <2>8, <2>9 DEF ArtNext, Prune
<1> QED
  BY <1>1, <1>2, ArtTypes, PTL DEF ArtSpec

-----------------------------------------------------------------------------
(* Status sync.                                                            *)

SignalRow == {"absent", "fresh", "review", "applied", "dismissed", "closed"}
TargetRow == [status : States!Status, source : {"manual", "email", "inferred"}]
PollRow == [pc : {"idle", "search", "process", "mark"}, from : 0..MailLast,
            top : 0..MailLast, todo : SUBSET Messages, at : 0..MailLast]

\* The types, with the mailbox's, and what the polls hold on to: messages that arrived.
SyncShape ==
  /\ SyncTypeOK
  /\ mail \in Seq([status : Says, sure : BOOLEAN])
  /\ \A m \in Messages \ Arrived : signal[m] = "absent"
  /\ \A p \in MailPolls : /\ poll[p].todo \subseteq Arrived
                          /\ poll[p].pc = "mark" => poll[p].at \in Arrived

LEMMA SyncParts ==
  ASSUME SyncTypeOK
  PROVE  /\ provider \in Providers /\ Len(mail) <= MailLast /\ cursor \in 0..MailLast
         /\ signal \in [Messages -> SignalRow] /\ target \in TargetRow
         /\ poll \in [MailPolls -> PollRow]
         /\ ghost \in {"none"} \cup GHOSTED_ELIGIBLE_STATUSES
         /\ moved \subseteq Messages /\ byHand \in BOOLEAN /\ fails \in 0..MaxFails
BY DEF SyncTypeOK, SignalRow, TargetRow, PollRow

LEMMA MailNumbers ==
  ASSUME SyncShape
  PROVE  /\ Arrived = 1..Len(mail) /\ Arrived \subseteq Messages /\ Len(mail) \in 0..MailLast
         /\ MailLast \in Nat /\ Messages \subseteq Nat /\ 0 \in 0..MailLast
         /\ \A m \in Arrived : mail[m].status \in Says
<1>1. mail \in Seq([status : Says, sure : BOOLEAN]) /\ Len(mail) <= MailLast /\ MailLast \in Nat
  BY StatusSyncAssumption DEF SyncShape, SyncTypeOK
<1>2. DOMAIN mail = 1..Len(mail) /\ Len(mail) \in Nat
      /\ \A m \in 1..Len(mail) : mail[m] \in [status : Says, sure : BOOLEAN]
  <2> DEFINE M == [status : Says, sure : BOOLEAN]
  <2>1. mail \in Seq(M)
    BY <1>1
  <2> HIDE DEF M
  <2>2. DOMAIN mail = 1..Len(mail) /\ Len(mail) \in Nat /\ \A m \in 1..Len(mail) : mail[m] \in M
    BY <2>1
  <2> QED
    BY <2>2 DEF M
<1> QED
  BY <1>1, <1>2 DEF Arrived, Messages

\* The oldest message left to a poll is one of those left.
LEMMA OldestIsLeft ==
  ASSUME NEW S, S \subseteq Nat, S # {}
  PROVE  OldestIn(S) \in S
BY SmallestIn DEF OldestIn

LEMMA NewestIsThere ==
  ASSUME NEW S, S \subseteq 0..MailLast, S # {}
  PROVE  NewestIn(S) \in S
BY LargestIn, StatusSyncAssumption DEF NewestIn

\* A move the state machine allows ends in a status.
LEMMA MovesAreStatuses ==
  ASSUME NEW from \in States!Status, NEW to, States!CanTransition(from, to)
  PROVE  to \in States!Status
BY DEF States!CanTransition, States!Allowed, States!Status, States!PreSubmit, States!OffPath,
       States!PostSubmit

LEMMA SyncShapeStep == SyncShape /\ [SyncNext]_syncVars => SyncShape'
<1> SUFFICES ASSUME SyncShape, [SyncNext]_syncVars PROVE SyncShape'
  OBVIOUS
<1> DEFINE Types == /\ provider \in Providers /\ Len(mail) <= MailLast /\ cursor \in 0..MailLast
                    /\ signal \in [Messages -> SignalRow] /\ target \in TargetRow
                    /\ poll \in [MailPolls -> PollRow]
                    /\ ghost \in {"none"} \cup GHOSTED_ELIGIBLE_STATUSES
                    /\ moved \subseteq Messages /\ byHand \in BOOLEAN /\ fails \in 0..MaxFails
           Holds == /\ \A m \in Messages \ Arrived : signal[m] = "absent"
                    /\ \A p \in MailPolls : /\ poll[p].todo \subseteq Arrived
                                            /\ poll[p].pc = "mark" => poll[p].at \in Arrived
           Mail == mail \in Seq([status : Says, sure : BOOLEAN])
<1>0. /\ Types /\ Holds /\ Mail /\ Len(mail) \in Nat
      /\ Arrived \subseteq Messages /\ MailLast \in Nat /\ Messages \subseteq Nat
      /\ Messages \subseteq 0..MailLast
  BY SyncParts, MailNumbers DEF SyncShape, Messages
<1> SUFFICES Types' /\ Holds' /\ Mail'
  BY DEF SyncShape, SyncTypeOK, SignalRow, TargetRow, PollRow
<1>1. CASE Arrive
  <2>1. PICK says \in Says, sure \in BOOLEAN : mail' = Append(mail, [status |-> says, sure |-> sure])
    BY <1>1 DEF Arrive
  <2>2. /\ mail' \in Seq([status : Says, sure : BOOLEAN]) /\ Len(mail') = Len(mail) + 1
        /\ Len(mail) < MailLast
    BY <1>0, <1>1, <2>1 DEF Arrive
  <2>3. Arrived \subseteq Arrived'
    BY <1>0, <2>2 DEF Arrived
  <2>4. UNCHANGED <<provider, cursor, signal, target, poll, ghost, moved, byHand, fails>>
    BY <1>1 DEF Arrive
  <2>5. Len(mail') <= MailLast
    BY <1>0, <2>2
  <2>6. Types' /\ Mail'
    BY <1>0, <2>2, <2>4, <2>5
  <2>7. Holds'
    BY <1>0, <2>3, <2>4
  <2> QED
    BY <2>6, <2>7
\* A step that leaves the mailbox, the signals and the application alone.
<1>q. ASSUME NEW p \in MailPolls, NEW row \in PollRow,
             row.todo \subseteq Arrived, row.pc = "mark" => row.at \in Arrived,
             poll' = [poll EXCEPT ![p] = row], mail' = mail
      PROVE  /\ poll' \in [MailPolls -> PollRow] /\ Arrived' = Arrived
             /\ \A q \in MailPolls : /\ poll'[q].todo \subseteq Arrived'
                                     /\ poll'[q].pc = "mark" => poll'[q].at \in Arrived'
  BY <1>0, <1>q DEF Arrived
<1>i. IdlePoll \in PollRow /\ IdlePoll.todo = {} /\ IdlePoll.pc = "idle"
  BY <1>0 DEF IdlePoll, PollRow
<1>2. ASSUME NEW p \in MailPolls, Connect(p) PROVE Types' /\ Holds' /\ Mail'
  <2> DEFINE row == [IdlePoll EXCEPT !.pc = "search", !.from = cursor, !.top = Len(mail)]
  <2>1. row \in PollRow /\ row.todo = {} /\ row.pc = "search"
    <3>1. Len(mail) \in 0..MailLast /\ cursor \in 0..MailLast
      BY <1>0
    <3> QED
      BY <1>i, <3>1 DEF PollRow
  <2>2. poll' = [poll EXCEPT ![p] = row]
    BY <1>2 DEF Connect
  <2>3. UNCHANGED <<provider, mail, cursor, signal, target, ghost, moved, byHand, fails>>
    BY <1>2 DEF Connect
  <2> HIDE DEF row
  <2>4. /\ poll' \in [MailPolls -> PollRow] /\ Arrived' = Arrived
        /\ \A q \in MailPolls : /\ poll'[q].todo \subseteq Arrived'
                                /\ poll'[q].pc = "mark" => poll'[q].at \in Arrived'
    BY <1>q, <2>1, <2>2, <2>3
  <2> QED
    BY <1>0, <2>3, <2>4
<1>3. ASSUME NEW p \in MailPolls, SearchMailbox(p) PROVE Types' /\ Holds' /\ Mail'
  <2> DEFINE batch == OldestOf({m \in Arrived : m > poll[p].from}, MailLimit)
             newest == NewestIn(batch \cup {poll[p].from})
             top == IF provider = "delta" THEN poll[p].top ELSE newest
             row == [poll[p] EXCEPT !.pc = "process", !.todo = batch, !.top = top]
  <2>1. poll[p] \in PollRow /\ poll[p].from \in 0..MailLast /\ poll[p].top \in 0..MailLast
    BY <1>0 DEF PollRow
  <2>2. batch \subseteq Arrived
    BY DEF OldestOf
  <2>3. newest \in 0..MailLast
    <3>1. batch \cup {poll[p].from} \subseteq 0..MailLast
      BY <1>0, <2>1, <2>2
    <3> HIDE DEF batch
    <3> QED
      BY <3>1, NewestIsThere
  <2>4. poll' = [poll EXCEPT ![p] = row]
    BY <1>0, <1>3 DEF SearchMailbox
  <2>5. UNCHANGED <<provider, mail, cursor, signal, target, ghost, moved, byHand, fails>>
    BY <1>3 DEF SearchMailbox
  <2> HIDE DEF batch, newest
  <2>6. row \in PollRow /\ row.todo = batch /\ row.pc = "process"
    BY <1>0, <2>1, <2>2, <2>3 DEF PollRow
  <2> HIDE DEF row
  <2>7. /\ poll' \in [MailPolls -> PollRow] /\ Arrived' = Arrived
        /\ \A q \in MailPolls : /\ poll'[q].todo \subseteq Arrived'
                                /\ poll'[q].pc = "mark" => poll'[q].at \in Arrived'
    BY <1>q, <2>2, <2>4, <2>5, <2>6
  <2> QED
    BY <1>0, <2>5, <2>7
<1>4. ASSUME NEW p \in MailPolls, Process(p) PROVE Types' /\ Holds' /\ Mail'
  <2>1. PICK m \in poll[p].todo : m = OldestIn(poll[p].todo)
    <3>1. poll[p].todo # {} /\ poll[p].todo \subseteq Nat
      BY <1>0, <1>4 DEF Process
    <3> QED
      BY <3>1, OldestIsLeft
  <2>2. m \in Arrived /\ m \in Messages /\ m \in 0..MailLast
    BY <1>0
  <2>3. UNCHANGED <<provider, mail, cursor, ghost, fails>>
    BY <1>4 DEF Process
  <2>4. poll[p] \in PollRow /\ poll[p].todo \subseteq Arrived /\ poll[p].pc = "process"
    BY <1>0, <1>4 DEF Process
  <2>5. PICK row \in PollRow : /\ poll' = [poll EXCEPT ![p] = row]
                               /\ row.todo \subseteq Arrived
                               /\ row.pc = "mark" => row.at \in Arrived
    <3> DEFINE on == [poll[p] EXCEPT !.todo = @ \ {m}]
               mark == [poll[p] EXCEPT !.pc = "mark", !.todo = @ \ {m}, !.at = m]
    <3>1. on \in PollRow /\ on.todo \subseteq Arrived /\ on.pc = "process"
      BY <2>4 DEF PollRow
    <3>2. mark \in PollRow /\ mark.todo \subseteq Arrived /\ mark.at = m
      BY <2>2, <2>4 DEF PollRow
    <3>3. poll' = [poll EXCEPT ![p] = on] \/ poll' = [poll EXCEPT ![p] = mark]
      BY <1>4, <2>1 DEF Process
    <3> HIDE DEF on, mark
    <3> QED
      BY <2>2, <3>1, <3>2, <3>3
  <2>6. /\ poll' \in [MailPolls -> PollRow] /\ Arrived' = Arrived
        /\ \A q \in MailPolls : /\ poll'[q].todo \subseteq Arrived'
                                /\ poll'[q].pc = "mark" => poll'[q].at \in Arrived'
    BY <1>q, <2>3, <2>5
  <2>7. \/ UNCHANGED signal
        \/ \E s \in SignalRow : signal' = [signal EXCEPT ![m] = s]
    BY <1>4, <2>1 DEF Process, SignalRow
  <2>8. \/ UNCHANGED <<target, moved, byHand>>
        \/ /\ MayApply(m) /\ target' = [status |-> mail[m].status, source |-> "email"]
           /\ moved' = moved \cup {m} /\ byHand' \in BOOLEAN
    BY <1>4, <2>1 DEF Process
  <2>9. target' \in TargetRow
    <3>1. MayApply(m) => mail[m].status \in States!Status
      BY <1>0, MovesAreStatuses DEF MayApply, MayMove, TargetRow
    <3> QED
      BY <1>0, <2>8, <3>1 DEF TargetRow
  <2>10. moved' \subseteq Messages /\ byHand' \in BOOLEAN
    BY <1>0, <2>2, <2>8
  <2>11. signal' \in [Messages -> SignalRow] /\ \A n \in Messages \ Arrived : signal'[n] = "absent"
    BY <1>0, <2>2, <2>7
  <2> QED
    BY <1>0, <2>3, <2>6, <2>9, <2>10, <2>11
<1>5. ASSUME NEW p \in MailPolls, Mark(p) PROVE Types' /\ Holds' /\ Mail'
  <2> DEFINE row == [poll[p] EXCEPT !.pc = "process", !.at = 0]
  <2>1. row \in PollRow /\ row.todo \subseteq Arrived /\ row.pc = "process"
    <3>1. poll[p] \in PollRow /\ poll[p].todo \subseteq Arrived /\ 0 \in 0..MailLast
      BY <1>0
    <3> QED
      BY <3>1 DEF PollRow
  <2>2. poll' = [poll EXCEPT ![p] = row] /\ poll[p].at \in Arrived
    BY <1>0, <1>5 DEF Mark
  <2>3. UNCHANGED <<provider, mail, cursor, target, ghost, moved, byHand, fails>>
    BY <1>5 DEF Mark
  <2> HIDE DEF row
  <2>4. /\ poll' \in [MailPolls -> PollRow] /\ Arrived' = Arrived
        /\ \A q \in MailPolls : /\ poll'[q].todo \subseteq Arrived'
                                /\ poll'[q].pc = "mark" => poll'[q].at \in Arrived'
    BY <1>q, <2>1, <2>2, <2>3
  <2>5. signal' \in [Messages -> SignalRow] /\ \A n \in Messages \ Arrived : signal'[n] = "absent"
    BY <1>0, <1>5, <2>2 DEF Mark, SignalRow
  <2> QED
    BY <1>0, <2>3, <2>4, <2>5
<1>6. ASSUME NEW p \in MailPolls, FinishPoll(p) \/ BreakOff(p) PROVE Types' /\ Holds' /\ Mail'
  <2>1. poll' = [poll EXCEPT ![p] = IdlePoll]
    BY <1>6 DEF FinishPoll, BreakOff
  <2>2. UNCHANGED <<provider, mail, signal, target, ghost, moved, byHand>>
    BY <1>6 DEF FinishPoll, BreakOff
  <2>3. cursor' \in 0..MailLast /\ fails' \in 0..MaxFails
    <3>1. poll[p].top \in 0..MailLast /\ MaxFails \in Nat
      BY <1>0, StatusSyncAssumption DEF PollRow
    <3> QED
      BY <1>0, <1>6, <3>1 DEF FinishPoll, BreakOff
  <2>4. /\ poll' \in [MailPolls -> PollRow] /\ Arrived' = Arrived
        /\ \A q \in MailPolls : /\ poll'[q].todo \subseteq Arrived'
                                /\ poll'[q].pc = "mark" => poll'[q].at \in Arrived'
    BY <1>i, <1>q, <2>1, <2>2
  <2> QED
    BY <1>0, <2>2, <2>3, <2>4
<1>7. ASSUME NEW st \in Verdicts, PatchStatus(st) PROVE Types' /\ Holds' /\ Mail'
  <2>1. UNCHANGED <<provider, mail, cursor, signal, poll, ghost, moved, fails>> /\ byHand' = TRUE
    BY <1>7 DEF PatchStatus
  <2>2. target' \in TargetRow
    BY <1>0, <1>7, StatusSyncAssumption DEF PatchStatus, TargetRow
  <2>3. Arrived' = Arrived
    BY <2>1 DEF Arrived
  <2> QED
    BY <1>0, <2>1, <2>2, <2>3
<1>8. ASSUME NEW m \in Arrived,
             ApplySignal(m) \/ DismissSignal(m) \/ \E st \in Verdicts : ResolveSignal(m, st)
      PROVE  Types' /\ Holds' /\ Mail'
  <2>1. UNCHANGED <<provider, mail, cursor, poll, ghost, fails>>
    BY <1>8 DEF ApplySignal, DismissSignal, ResolveSignal
  <2>2. \E s \in SignalRow : signal' = [signal EXCEPT ![m] = s]
    BY <1>8 DEF ApplySignal, DismissSignal, ResolveSignal, SignalRow
  <2>3. signal' \in [Messages -> SignalRow] /\ \A n \in Messages \ Arrived : signal'[n] = "absent"
    BY <1>0, <2>2
  <2>4. moved' \subseteq Messages /\ byHand' \in BOOLEAN
    BY <1>0, <1>8 DEF ApplySignal, DismissSignal, ResolveSignal
  <2>5. target' \in TargetRow
    <3>1. MayMove(mail[m].status) => mail[m].status \in States!Status
      BY <1>0, MovesAreStatuses DEF MayMove, TargetRow
    <3> QED
      BY <1>0, <1>8, <3>1, StatusSyncAssumption
      DEF ApplySignal, DismissSignal, ResolveSignal, TargetRow
  <2>6. Arrived' = Arrived
    BY <2>1 DEF Arrived
  <2> QED
    BY <1>0, <2>1, <2>3, <2>4, <2>5, <2>6
<1>9. CASE GhostSelect \/ GhostWrite
  <2>1. UNCHANGED <<provider, mail, cursor, signal, poll, moved, fails>>
    BY <1>9 DEF GhostSelect, GhostWrite
  <2>2. target' \in TargetRow /\ byHand' \in BOOLEAN
    <3>1. "ghosted" \in States!Status
      BY DEF States!Status, States!PostSubmit
    <3>2. [status |-> "ghosted", source |-> "inferred"] \in TargetRow
      BY <3>1 DEF TargetRow
    <3> QED
      BY <1>0, <1>9, <3>2 DEF GhostSelect, GhostWrite
  <2>3. ghost' \in {"none"} \cup GHOSTED_ELIGIBLE_STATUSES
    BY <1>9 DEF GhostSelect, GhostWrite
  <2>4. Arrived' = Arrived
    BY <2>1 DEF Arrived
  <2> QED
    BY <1>0, <2>1, <2>2, <2>3, <2>4
<1>10. CASE UNCHANGED syncVars
  <2>1. UNCHANGED <<provider, mail, cursor, signal, target, poll, ghost, moved, byHand, fails>>
    BY <1>10 DEF syncVars
  <2>2. Arrived' = Arrived
    BY <2>1 DEF Arrived
  <2> QED
    BY <1>0, <2>1, <2>2
<1> QED
  BY <1>1, <1>2, <1>3, <1>4, <1>5, <1>6, <1>7, <1>8, <1>9, <1>10 DEF SyncNext, MailStep

LEMMA SyncShapeHolds == SyncSpec => []SyncShape
<1>1. SyncInit => SyncShape
  <2> SUFFICES ASSUME SyncInit PROVE SyncShape
    OBVIOUS
  <2>1. MailLast \in Nat /\ MaxFails \in Nat /\ 0 \in 0..MailLast /\ 0 \in 0..MaxFails
    BY StatusSyncAssumption
  <2>2. mail = <<>> /\ Len(mail) = 0 /\ mail \in Seq([status : Says, sure : BOOLEAN])
    BY DEF SyncInit
  <2>3. "submitted" \in States!Status
    BY DEF States!Status, States!PostSubmit
  <2>4. Len(mail) <= MailLast
    BY <2>1, <2>2
  <2>5. IdlePoll \in PollRow /\ IdlePoll.todo = {} /\ IdlePoll.pc = "idle"
    BY <2>1 DEF IdlePoll, PollRow
  <2>6. poll \in [MailPolls -> PollRow] /\ \A p \in MailPolls : poll[p] = IdlePoll
    BY <2>5 DEF SyncInit
  <2>7. SyncTypeOK
    BY <2>1, <2>3, <2>4, <2>6 DEF SyncInit, SyncTypeOK, PollRow
  <2> QED
    BY <2>2, <2>5, <2>6, <2>7 DEF SyncShape, SyncInit
<1> QED
  BY <1>1, SyncShapeStep, PTL DEF SyncSpec

\* Status sync keeps its types.
THEOREM SyncTypes == SyncSpec => []SyncTypeOK
<1>1. SyncShape => SyncTypeOK
  BY DEF SyncShape
<1> QED
  BY <1>1, SyncShapeHolds, PTL

\* An answer of an employer that is recorded and settled was written to the application,
\* also when the poll died between its two commits or another poll read the same message.
THEOREM AnswersAreSeen == SyncSpec => []AnswersReachSomebody
<1>1. SyncInit => AnswersReachSomebody
  BY DEF SyncInit, AnswersReachSomebody, Arrived
<1>2. SyncShape /\ AnswersReachSomebody /\ [SyncNext]_syncVars => AnswersReachSomebody'
  <2> SUFFICES ASSUME SyncShape, AnswersReachSomebody, [SyncNext]_syncVars,
                      NEW m \in Arrived', signal'[m] \in {"fresh", "closed"},
                      mail'[m].status # "none"
               PROVE  m \in moved'
    BY DEF AnswersReachSomebody
  <2>0. /\ signal \in [Messages -> SignalRow] /\ Arrived \subseteq Messages
        /\ \A n \in Messages \ Arrived : signal[n] = "absent"
        /\ \A p \in MailPolls : /\ poll[p].todo \subseteq Arrived
                                /\ poll[p].pc = "mark" => poll[p].at \in Arrived
    BY SyncParts, MailNumbers DEF SyncShape
  <2>1. CASE Arrive
    <3>1. PICK says \in Says, sure \in BOOLEAN : mail' = Append(mail, [status |-> says, sure |-> sure])
      BY <2>1 DEF Arrive
    <3>2. UNCHANGED <<signal, moved>>
      BY <2>1 DEF Arrive
    <3>3. CASE m \in Arrived
      <4>1. mail'[m] = mail[m]
        <5>1. m \in 1..Len(mail) /\ mail \in Seq([status : Says, sure : BOOLEAN])
          BY <3>3, MailNumbers DEF SyncShape
        <5> QED
          BY <3>1, <5>1
      <4> QED
        BY <3>2, <3>3, <4>1 DEF AnswersReachSomebody
    <3>4. CASE m \notin Arrived
      <4>1. Arrived' = 1..Len(mail') /\ Len(mail') <= MailLast
        <5>1. SyncShape'
          BY SyncShapeStep
        <5>2. mail' \in Seq([status : Says, sure : BOOLEAN]) /\ Len(mail') <= MailLast
          BY <5>1 DEF SyncShape, SyncTypeOK
        <5> QED
          BY <5>2 DEF Arrived
      <4>2. m \in Messages
        BY <4>1, MailNumbers DEF Messages
      <4> QED
        BY <2>0, <3>2, <3>4, <4>2
    <3> QED
      BY <3>3, <3>4
  <2>2. ASSUME NEW p \in MailPolls, Process(p) PROVE m \in moved'
    <3>1. PICK n \in Arrived : n = OldestIn(poll[p].todo)
      <4>1. poll[p].todo # {} /\ poll[p].todo \subseteq Nat
        BY <2>0, <2>2, MailNumbers DEF Process
      <4> QED
        BY <2>0, <4>1, OldestIsLeft
    <3>2. mail' = mail /\ Arrived' = Arrived /\ m \in Arrived
      BY <2>2 DEF Process, Arrived
    <3>3. \/ UNCHANGED <<signal, moved>>
          \/ mail[n].status = "none" /\ signal' = [signal EXCEPT ![n] = "closed"] /\ moved' = moved
          \/ signal' = [signal EXCEPT ![n] = "fresh"] /\ moved' = moved \cup {n}
          \/ signal' = [signal EXCEPT ![n] = "review"] /\ moved' = moved
      BY <2>2, <3>1 DEF Process
    <3> QED
      BY <2>0, <3>2, <3>3 DEF AnswersReachSomebody
  <2>3. ASSUME NEW p \in MailPolls, Mark(p) PROVE m \in moved'
    <3>1. mail' = mail /\ Arrived' = Arrived /\ m \in Arrived /\ moved' = moved
      BY <2>3 DEF Mark, Arrived
    <3>2. poll[p].at \in Arrived /\ signal' = [signal EXCEPT ![poll[p].at] = "applied"]
      BY <2>0, <2>3 DEF Mark
    <3> QED
      BY <2>0, <3>1, <3>2 DEF AnswersReachSomebody
  <2>4. ASSUME NEW n \in Arrived,
               ApplySignal(n) \/ DismissSignal(n) \/ \E st \in Verdicts : ResolveSignal(n, st)
        PROVE  m \in moved'
    <3>1. mail' = mail /\ Arrived' = Arrived /\ m \in Arrived /\ moved \subseteq moved'
      BY <2>4 DEF ApplySignal, DismissSignal, ResolveSignal, Arrived
    <3>2. \E s \in {"applied", "dismissed"} : signal' = [signal EXCEPT ![n] = s]
      BY <2>4 DEF ApplySignal, DismissSignal, ResolveSignal
    <3> QED
      BY <2>0, <3>1, <3>2 DEF AnswersReachSomebody
  <2>5. CASE UNCHANGED <<mail, signal, moved>>
    BY <2>5 DEF AnswersReachSomebody, Arrived
  <2>6. ASSUME NEW p \in MailPolls, Connect(p) \/ SearchMailbox(p) \/ FinishPoll(p) \/ BreakOff(p)
        PROVE  UNCHANGED <<mail, signal, moved>>
    BY <2>6 DEF Connect, SearchMailbox, FinishPoll, BreakOff
  <2>7. ASSUME NEW st \in Verdicts, PatchStatus(st) PROVE UNCHANGED <<mail, signal, moved>>
    BY <2>7 DEF PatchStatus
  <2>8. GhostSelect \/ GhostWrite \/ UNCHANGED syncVars => UNCHANGED <<mail, signal, moved>>
    BY DEF GhostSelect, GhostWrite, syncVars
  <2> QED
    BY <2>1, <2>2, <2>3, <2>4, <2>5, <2>6, <2>7, <2>8 DEF SyncNext, MailStep
<1> QED
  BY <1>1, <1>2, SyncShapeHolds, PTL DEF SyncSpec

-----------------------------------------------------------------------------
(* The language model client.                                              *)

AskerRow == [pc : {"idle", "look", "check", "invoke", "fresh", "served", "parse"},
             round : Rounds, attempt : 0..Retries, text : Replies \cup {"none"}, leads : BOOLEAN]

\* The calls that have passed the budget and are with the provider.
InTheAir == {a \in Askers : asker[a].pc = "invoke"}

LEMMA LlmNumbers ==
  /\ Budget \in Nat /\ Estimate \in Nat /\ MaxCost \in Nat /\ Retries \in Nat /\ MaxDays \in Nat
  /\ MaxAsks \in Nat /\ 0 \in 0..Retries
  /\ \A cost \in Costs : cost \in Nat /\ cost <= MaxCost
  /\ Cardinality(Askers) \in Nat /\ Cardinality(Askers) >= 1
<1>1. IsFiniteSet(Askers) /\ Askers # {}
  BY LanguageModelAssumption
<1>2. Cardinality(Askers) \in Nat /\ Cardinality(Askers) # 0
  BY <1>1, FS_CardinalityType, FS_EmptySet
<1>3. /\ Budget \in Nat /\ Estimate \in Nat /\ MaxCost \in Nat /\ Retries \in Nat /\ MaxDays \in Nat
      /\ MaxAsks \in Nat /\ \A cost \in Costs : cost \in 0..MaxCost
  BY LanguageModelAssumption
<1> QED
  BY <1>2, <1>3

\* A step of one asker: its row stays a row.
LEMMA AskerGoes ==
  ASSUME LlmTypeOK, NEW a \in Askers, NEW row \in AskerRow, asker' = [asker EXCEPT ![a] = row]
  PROVE  /\ asker' \in [Askers -> AskerRow]
         /\ InTheAir' = IF row.pc = "invoke" THEN InTheAir \cup {a} ELSE InTheAir \ {a}
<1>1. asker \in [Askers -> AskerRow]
  BY DEF LlmTypeOK, AskerRow
<1> QED
  BY <1>1 DEF InTheAir

LEMMA LlmTypesStep == LlmTypeOK /\ [LlmNext]_llmVars => LlmTypeOK'
<1> SUFFICES ASSUME LlmTypeOK, [LlmNext]_llmVars PROVE LlmTypeOK'
  OBVIOUS
<1>0. /\ caching \in BOOLEAN /\ used \in Nat /\ reply \in [Rounds -> Replies \cup {"absent"}]
      /\ asker \in [Askers -> AskerRow] /\ asks \in 0..MaxAsks /\ days \in 0..MaxDays
  BY DEF LlmTypeOK, AskerRow
<1> SUFFICES /\ caching' \in BOOLEAN /\ used' \in Nat /\ reply' \in [Rounds -> Replies \cup {"absent"}]
             /\ asker' \in [Askers -> AskerRow] /\ asks' \in 0..MaxAsks /\ days' \in 0..MaxDays
  BY DEF LlmTypeOK, AskerRow
<1>n. NotAsking \in AskerRow
  BY LlmNumbers DEF NotAsking, AskerRow, Rounds
<1>1. CASE Midnight
  BY <1>0, <1>1, LlmNumbers DEF Midnight
<1>2. ASSUME NEW a \in Askers, Ask(a) \/ AskStep(a) \/ CancelAsk(a) PROVE
        /\ used' \in Nat /\ reply' \in [Rounds -> Replies \cup {"absent"}]
        /\ asker' \in [Askers -> AskerRow] /\ asks' \in 0..MaxAsks
        /\ UNCHANGED <<caching, days>>
  <2>0. asker[a] \in AskerRow /\ asker[a].round \in Rounds
    BY <1>0 DEF AskerRow
  <2>1. CASE Ask(a)
    <3>1. [NotAsking EXCEPT !.pc = "look"] \in AskerRow
      BY <1>n DEF AskerRow
    <3>2. asks' \in 0..MaxAsks
      BY <1>0, <2>1, LlmNumbers DEF Ask
    <3> QED
      BY <1>0, <2>1, <3>1, <3>2 DEF Ask
  <2>2. CASE LookUp(a)
    <3>1. \E row \in AskerRow : asker' = [asker EXCEPT ![a] = row]
      <4>1. CASE ~caching /\ Go(a, "check")
        <5>1. [asker[a] EXCEPT !.pc = "check"] \in AskerRow
          BY <2>0 DEF AskerRow
        <5> QED
          BY <1>0, <4>1, <5>1 DEF Go
      <4>2. CASE /\ reply[asker[a].round] # "absent"
                 /\ asker' = [asker EXCEPT ![a].pc = "served", ![a].text = reply[asker[a].round]]
        <5>1. reply[asker[a].round] \in Replies
          BY <1>0, <2>0, <4>2
        <5>2. [asker[a] EXCEPT !.pc = "served", !.text = reply[asker[a].round]] \in AskerRow
          BY <2>0, <5>1 DEF AskerRow
        <5> QED
          BY <1>0, <4>2, <5>2
      <4>3. CASE asker' = [asker EXCEPT ![a].pc = "check", ![a].leads = TRUE]
        <5>1. [asker[a] EXCEPT !.pc = "check", !.leads = TRUE] \in AskerRow
          BY <2>0 DEF AskerRow
        <5> QED
          BY <1>0, <4>3, <5>1
      <4> QED
        BY <2>2, <4>1, <4>2, <4>3 DEF LookUp
    <3> QED
      BY <1>0, <2>2, <3>1, AskerGoes DEF LookUp
  <2>3. CASE CheckBudget(a) \/ CancelAsk(a)
    <3>1. [asker[a] EXCEPT !.pc = "invoke", !.attempt = 0] \in AskerRow
      BY <2>0, LlmNumbers DEF AskerRow
    <3>2. \/ asker' = [asker EXCEPT ![a] = NotAsking]
          \/ asker' = [asker EXCEPT ![a] = [@ EXCEPT !.pc = "invoke", !.attempt = 0]]
      BY <1>0, <2>3 DEF CheckBudget, CancelAsk
    <3>3. asker' \in [Askers -> AskerRow]
      BY <1>0, <1>n, <3>1, <3>2
    <3> QED
      BY <1>0, <2>3, <3>3 DEF CheckBudget, CancelAsk
  <2>4. CASE InvokeAnswers(a)
    <3>1. PICK text \in Replies :
            /\ asker' = [asker EXCEPT ![a].pc = "fresh", ![a].text = text, ![a].leads = FALSE]
            /\ reply' = [r \in Rounds |->
                 IF asker[a].leads /\ asker[a].round = r THEN text ELSE reply[r]]
      BY <2>4 DEF InvokeAnswers
    <3>2. [asker[a] EXCEPT !.pc = "fresh", !.text = text, !.leads = FALSE] \in AskerRow
      BY <2>0 DEF AskerRow
    <3>3. asker' \in [Askers -> AskerRow]
      <4>1. asker' = [asker EXCEPT ![a] = [@ EXCEPT !.pc = "fresh", !.text = text, !.leads = FALSE]]
        BY <1>0, <3>1
      <4> QED
        BY <1>0, <3>2, <4>1
    <3>5. reply' \in [Rounds -> Replies \cup {"absent"}]
      BY <1>0, <3>1
    <3>4. used' \in Nat
      BY <1>0, <2>4, LlmNumbers DEF InvokeAnswers
    <3> QED
      BY <1>0, <2>4, <3>3, <3>4, <3>5 DEF InvokeAnswers
  <2>5. CASE InvokeFails(a)
    <3>1. \/ asker' = [asker EXCEPT ![a] = NotAsking]
          \/ /\ asker[a].attempt < Retries
             /\ asker' = [asker EXCEPT ![a].attempt = @ + 1]
      BY <2>5 DEF InvokeFails
    <3>2. asker[a].attempt < Retries => asker[a].attempt + 1 \in 0..Retries
      BY <2>0, LlmNumbers DEF AskerRow
    <3>3. ASSUME asker[a].attempt < Retries
          PROVE  [asker[a] EXCEPT !.attempt = asker[a].attempt + 1] \in AskerRow
      BY <2>0, <3>2, <3>3 DEF AskerRow
    <3>4. asker' \in [Askers -> AskerRow]
      BY <1>0, <1>n, <3>1, <3>3
    <3> QED
      BY <1>0, <2>5, <3>4 DEF InvokeFails
  <2>6. CASE AskAfresh(a) \/ Served(a)
    <3>1. PICK pc \in {"parse", "check"} : asker' = [asker EXCEPT ![a] = [@ EXCEPT !.pc = pc]]
      BY <1>0, <2>6 DEF AskAfresh, Served, Go
    <3>2. [asker[a] EXCEPT !.pc = pc] \in AskerRow
      BY <2>0 DEF AskerRow
    <3>3. reply' \in [Rounds -> Replies \cup {"absent"}]
      BY <1>0, <2>6 DEF AskAfresh, Served, Forgotten
    <3>4. asker' \in [Askers -> AskerRow]
      BY <1>0, <3>1, <3>2
    <3> QED
      BY <1>0, <2>6, <3>3, <3>4 DEF AskAfresh, Served
  <2>7. CASE Parse(a)
    <3>1. [asker[a] EXCEPT !.pc = "look", !.round = "repair", !.text = "none"] \in AskerRow
      BY <2>0 DEF AskerRow, Rounds
    <3>2. \/ asker' = [asker EXCEPT ![a] = NotAsking]
          \/ asker' = [asker EXCEPT ![a] = [@ EXCEPT !.pc = "look", !.round = "repair", !.text = "none"]]
      BY <1>0, <2>7 DEF Parse
    <3>3. asker' \in [Askers -> AskerRow]
      BY <1>0, <1>n, <3>1, <3>2
    <3> QED
      BY <1>0, <2>7, <3>3 DEF Parse
  <2> QED
    BY <1>2, <2>1, <2>2, <2>3, <2>4, <2>5, <2>6, <2>7 DEF AskStep
<1>3. CASE UNCHANGED llmVars
  BY <1>0, <1>3 DEF llmVars
<1> QED
  BY <1>0, <1>1, <1>2, <1>3 DEF LlmNext

\* The client and its callers keep their types.
THEOREM LlmTypes == LlmSpec => []LlmTypeOK
<1>1. LlmInit => LlmTypeOK
  BY LlmNumbers DEF LlmInit, LlmTypeOK, NotAsking, Rounds
<1> QED
  BY <1>1, LlmTypesStep, PTL DEF LlmSpec

\* The budget with what the calls in the air may still cost: whoever was let in found room
\* for an estimate, and no more calls than there are callers were in the air from then on.
AirInv ==
  \/ Budget = 0
  \/ used = 0 /\ InTheAir = {}
  \/ used + Cardinality(InTheAir) * MaxCost + Estimate <= Budget + Cardinality(Askers) * MaxCost

LEMMA AirCounts ==
  /\ IsFiniteSet(InTheAir) /\ Cardinality(InTheAir) \in Nat
  /\ Cardinality(InTheAir) <= Cardinality(Askers)
<1>1. InTheAir \subseteq Askers /\ IsFiniteSet(Askers)
  BY LanguageModelAssumption DEF InTheAir
<1> QED
  BY <1>1, FS_Subset, FS_CardinalityType

\* Fewer calls in the air cost less.
LEMMA CostGrows ==
  ASSUME NEW m \in Nat, NEW n \in Nat, m <= n, NEW c \in Nat
  PROVE  m * c \in Nat /\ n * c \in Nat /\ m * c <= n * c
<1>1. n - m \in Nat /\ n = m + (n - m)
  OBVIOUS
<1>2. (n - m) * c \in Nat /\ m * c \in Nat
  BY <1>1
<1>3. n * c = m * c + (n - m) * c
  BY <1>1
<1> QED
  BY <1>2, <1>3

\* A step after which no more calls are in the air and no more tokens are used.
LEMMA AirLands ==
  ASSUME LlmTypeOK, LlmTypeOK', AirInv, used' = used \/ used' = 0, InTheAir' \subseteq InTheAir
  PROVE  AirInv'
<1> DEFINE n == Cardinality(InTheAir)
           k == Cardinality(InTheAir')
           most == Budget + Cardinality(Askers) * MaxCost
<1>1. IsFiniteSet(InTheAir) /\ n \in Nat
  BY AirCounts
<1>2. k <= n /\ k \in Nat
  BY <1>1, FS_Subset, FS_CardinalityType
<1>3. k * MaxCost \in Nat /\ n * MaxCost \in Nat /\ k * MaxCost <= n * MaxCost
  BY <1>1, <1>2, LlmNumbers, CostGrows
<1>4. used \in Nat /\ used' \in Nat /\ Estimate \in Nat /\ most \in Nat
  BY LlmNumbers, CostGrows DEF LlmTypeOK
<1>5. CASE used + n * MaxCost + Estimate <= most
  <2> HIDE DEF n, k, most
  <2>1. used' + k * MaxCost + Estimate <= most
    BY <1>3, <1>4, <1>5
  <2> QED
    BY <2>1 DEF AirInv, k, most
<1>6. CASE Budget = 0 \/ (used = 0 /\ InTheAir = {})
  BY <1>6 DEF AirInv
<1> QED
  BY <1>5, <1>6 DEF AirInv

\* The daily budget, if there is one, is overdrawn by at most the bills of the calls that
\* were in the air together, less the estimate the last of them found room for, whatever
\* fails, is retried, cancelled or passes midnight, and whatever the provider bills.
THEOREM OverdraftHolds == LlmSpec => []OverdraftIsBounded
<1>1. LlmInit => AirInv
  BY DEF LlmInit, InTheAir, NotAsking, AirInv
<1>2. LlmTypeOK /\ LlmTypeOK' /\ AirInv /\ [LlmNext]_llmVars => AirInv'
  <2> SUFFICES ASSUME LlmTypeOK, LlmTypeOK', AirInv, [LlmNext]_llmVars PROVE AirInv'
    OBVIOUS
  <2> DEFINE most == Budget + Cardinality(Askers) * MaxCost
  <2>0. /\ used \in Nat /\ used' \in Nat /\ Budget \in Nat /\ Estimate \in Nat /\ MaxCost \in Nat
        /\ Cardinality(Askers) * MaxCost \in Nat /\ most \in Nat
        /\ asker \in [Askers -> AskerRow]
    BY LlmNumbers, CostGrows DEF LlmTypeOK, AskerRow
  <2> HIDE DEF most
  <2>1. CASE Midnight
    BY <2>1, AirLands DEF Midnight, InTheAir
  <2>2. ASSUME NEW a \in Askers, CheckBudget(a) PROVE AirInv'
    <3>1. CASE Budget # 0 /\ used + Estimate <= Budget
      <4>1. used' = used
        BY <2>2 DEF CheckBudget
      <4>2. /\ Cardinality(InTheAir') * MaxCost <= Cardinality(Askers) * MaxCost
            /\ Cardinality(InTheAir') * MaxCost \in Nat
        <5>1. Cardinality(InTheAir') \in Nat /\ Cardinality(InTheAir') <= Cardinality(Askers)
          <6>1. InTheAir' \subseteq Askers /\ IsFiniteSet(Askers)
            BY LanguageModelAssumption DEF InTheAir
          <6> QED
            BY <6>1, FS_Subset, FS_CardinalityType
        <5> QED
          BY <2>0, <5>1, LlmNumbers, CostGrows
      <4>3. used' + Cardinality(InTheAir') * MaxCost + Estimate
              <= Budget + Cardinality(Askers) * MaxCost
        BY <2>0, <3>1, <4>1, <4>2
      <4> QED
        BY <4>3 DEF AirInv
    <3>2. CASE Budget # 0 /\ ~(used + Estimate <= Budget)
      <4>1. asker' = [asker EXCEPT ![a] = NotAsking] /\ used' = used
        BY <2>2, <3>2 DEF CheckBudget
      <4>2. InTheAir' \subseteq InTheAir
        BY <2>0, <4>1 DEF InTheAir, NotAsking
      <4> QED
        BY <4>1, <4>2, AirLands
    <3>3. CASE Budget = 0
      BY <3>3 DEF AirInv
    <3> QED
      BY <3>1, <3>2, <3>3
  <2>3. ASSUME NEW a \in Askers, InvokeAnswers(a) PROVE AirInv'
    <3>1. PICK cost \in Costs : used' = used + cost
      BY <2>3 DEF InvokeAnswers
    <3>2. InTheAir' = InTheAir \ {a} /\ a \in InTheAir
      <4>1. \E text \in Replies :
              asker' = [asker EXCEPT ![a].pc = "fresh", ![a].text = text, ![a].leads = FALSE]
        BY <2>3 DEF InvokeAnswers
      <4>2. asker'[a].pc = "fresh" /\ \A b \in Askers \ {a} : asker'[b] = asker[b]
        BY <2>0, <4>1 DEF AskerRow
      <4>3. asker[a].pc = "invoke"
        BY <2>3 DEF InvokeAnswers
      <4> QED
        BY <4>2, <4>3, SMTT(30) DEF InTheAir
    <3> DEFINE n == Cardinality(InTheAir)
    <3>3. n \in Nat /\ n - 1 \in Nat /\ Cardinality(InTheAir') = n - 1
      <4>1. Cardinality(InTheAir \ {a}) = n - 1 /\ IsFiniteSet(InTheAir \ {a})
        BY <3>2, AirCounts, FS_RemoveElement
      <4>2. n - 1 \in Nat
        BY <4>1, FS_CardinalityType
      <4> QED
        BY <3>2, <4>1, <4>2, AirCounts
    <3>4. /\ n * MaxCost = (n - 1) * MaxCost + MaxCost /\ (n - 1) * MaxCost \in Nat
          /\ cost \in Nat /\ cost <= MaxCost
      BY <2>0, <3>3, LlmNumbers
    <3>5. CASE Budget # 0
      <4>1. used + n * MaxCost + Estimate <= most
        BY <3>2, <3>5 DEF AirInv, most
      <4> HIDE DEF n
      <4>2. used' + (n - 1) * MaxCost + Estimate <= most
        BY <2>0, <3>1, <3>4, <4>1
      <4> QED
        BY <3>3, <4>2 DEF AirInv, most
    <3>6. CASE Budget = 0
      BY <3>6 DEF AirInv
    <3> QED
      BY <3>5, <3>6
  <2>4. ASSUME NEW a \in Askers, InvokeFails(a) \/ CancelAsk(a) \/ Ask(a) \/ LookUp(a) \/ AskAfresh(a)
                                   \/ Served(a) \/ Parse(a)
        PROVE  AirInv'
    <3>1. used' = used
      BY <2>4 DEF InvokeFails, CancelAsk, Ask, LookUp, AskAfresh, Served, Parse
    <3>2. \A b \in Askers \ {a} : asker'[b] = asker[b]
      BY <2>0, <2>4 DEF InvokeFails, CancelAsk, Ask, LookUp, AskAfresh, Served, Parse, Go
    <3>3. asker[a].pc = "invoke" \/ asker'[a].pc # "invoke"
      <4>0. asker[a] \in AskerRow
        BY <2>0
      <4>1. CASE InvokeFails(a) \/ CancelAsk(a) \/ asker[a].pc = "invoke"
        <5>1. InvokeFails(a) => asker[a].pc = "invoke"
          BY DEF InvokeFails
        <5>2. CancelAsk(a) => asker'[a].pc # "invoke"
          BY <2>0 DEF CancelAsk, NotAsking
        <5> QED
          BY <4>1, <5>1, <5>2
      <4>2. CASE Ask(a) \/ LookUp(a) \/ AskAfresh(a) \/ Served(a) \/ Parse(a)
        <5>1. CASE Ask(a)
          BY <2>0, <5>1 DEF Ask, NotAsking
        <5>2. CASE LookUp(a)
          BY <2>0, <4>0, <5>2 DEF LookUp, Go, AskerRow
        <5>3. CASE AskAfresh(a) \/ Served(a)
          <6>1. PICK pc \in {"parse", "check"} : asker' = [asker EXCEPT ![a].pc = pc]
            BY <5>3 DEF AskAfresh, Served, Go
          <6> QED
            BY <2>0, <4>0, <6>1 DEF AskerRow
        <5>4. CASE Parse(a)
          <6>1. \/ asker' = [asker EXCEPT ![a] = NotAsking]
                \/ asker' = [asker EXCEPT ![a] = [@ EXCEPT !.pc = "look", !.round = "repair",
                                                         !.text = "none"]]
            BY <5>4 DEF Parse
          <6>2. NotAsking.pc = "idle"
            BY DEF NotAsking
          <6>3. [asker[a] EXCEPT !.pc = "look", !.round = "repair", !.text = "none"].pc = "look"
            BY <4>0 DEF AskerRow
          <6>4. asker'[a].pc \in {"idle", "look"}
            BY <2>0, <6>1, <6>2, <6>3
          <6> QED
            BY <6>4
        <5> QED
          BY <4>2, <5>1, <5>2, <5>3, <5>4
      <4> QED
        BY <2>4, <4>1, <4>2
    <3>4. InTheAir' \subseteq InTheAir
      BY <3>2, <3>3 DEF InTheAir
    <3> QED
      BY <3>1, <3>4, AirLands
  <2>5. CASE UNCHANGED llmVars
    BY <2>5 DEF llmVars, AirInv, InTheAir
  <2> QED
    BY <2>1, <2>2, <2>3, <2>4, <2>5 DEF LlmNext, AskStep
<1>3. LlmTypeOK /\ AirInv => OverdraftIsBounded
  <2> SUFFICES ASSUME LlmTypeOK, AirInv, Budget # 0, used # 0
               PROVE  used + Estimate <= Budget + Cardinality(Askers) * MaxCost
    BY DEF OverdraftIsBounded
  <2>1. /\ used \in Nat /\ Estimate \in Nat /\ Budget \in Nat
        /\ Cardinality(InTheAir) * MaxCost \in Nat /\ Cardinality(Askers) * MaxCost \in Nat
    BY LlmNumbers, AirCounts, CostGrows DEF LlmTypeOK
  <2>2. used + Cardinality(InTheAir) * MaxCost + Estimate <= Budget + Cardinality(Askers) * MaxCost
    BY DEF AirInv
  <2> QED
    BY <2>1, <2>2
<1> QED
  BY <1>1, <1>2, <1>3, LlmTypes, PTL DEF LlmSpec

-----------------------------------------------------------------------------
(* Discovery.                                                              *)

PollingRow == [pc : {"idle", "poll", "find", "insert", "enqueue"}, at : Copies \cup {NoCopy},
               seen : SUBSET Copies, touched : SUBSET Copies]

LEMMA DiscParts ==
  ASSUME DiscTypeOK
  PROVE  /\ oneWriter \in BOOLEAN /\ stored \in [Copies -> Polls \cup {"none", "db"}]
         /\ posting \in [Copies -> {"discovered", "scored", "skipped", "expired"}]
         /\ polling \in [Polls -> PollingRow]
         /\ reported \subseteq Copies /\ prepare \subseteq Copies /\ applied \subseteq Copies
         /\ crashes \in 0..MaxCrashes
BY DEF DiscTypeOK, PollingRow

LEMMA AtRestIs == AtRest \in PollingRow /\ AtRest.pc = "idle" /\ AtRest.seen = {}
BY DEF AtRest, PollingRow

\* What the writing actions do to the rows and to the poll.
LEMMA InsertIs ==
  ASSUME DiscTypeOK, NEW p \in Polls, Insert(p), polling[p].at \in Copies
  PROVE  /\ stored' \in [Copies -> Polls \cup {"none", "db"}]
         /\ stored'[polling[p].at] \in {p, "db"}
         /\ \A c \in Copies : stored[c] # "none" => stored'[c] = stored[c]
         /\ \E row \in PollingRow : /\ polling' = [polling EXCEPT ![p] = row]
                                    /\ row.pc = "poll" /\ row.seen = polling[p].seen
<1> DEFINE c == polling[p].at
<1>0. /\ stored \in [Copies -> Polls \cup {"none", "db"}] /\ polling[p] \in PollingRow
      /\ polling \in [Polls -> PollingRow]
  BY DiscParts
<1>1. /\ stored[c] \in {"none", "db"}
      /\ stored' = [stored EXCEPT ![c] = IF @ = "none" THEN p ELSE @]
      /\ polling' = [polling EXCEPT ![p].pc = "poll", ![p].touched = @ \cup {c}]
  BY DEF Insert
<1>2. [polling[p] EXCEPT !.pc = "poll", !.touched = @ \cup {c}] \in PollingRow
  BY <1>0 DEF PollingRow
<1>3. /\ [polling[p] EXCEPT !.pc = "poll", !.touched = @ \cup {c}].pc = "poll"
      /\ [polling[p] EXCEPT !.pc = "poll", !.touched = @ \cup {c}].seen = polling[p].seen
  BY <1>0 DEF PollingRow
<1>4. polling' = [polling EXCEPT ![p] = [@ EXCEPT !.pc = "poll", !.touched = polling[p].touched \cup {c}]]
  BY <1>0, <1>1
<1>5. \E row \in PollingRow : /\ polling' = [polling EXCEPT ![p] = row]
                              /\ row.pc = "poll" /\ row.seen = polling[p].seen
  BY <1>2, <1>3, <1>4
<1>6. stored'[c] \in {p, "db"} /\ \A d \in Copies : stored[d] # "none" => stored'[d] = stored[d]
  BY <1>0, <1>1
<1> QED
  BY <1>0, <1>1, <1>5, <1>6

\* A poll that is looking for a posting has one of its board in hand, which it has noted.
HandInv ==
  \A p \in Polls : polling[p].pc \in {"find", "insert"}
                     => polling[p].at \in Copies /\ polling[p].at \in polling[p].seen

LEMMA DiscTypesStep ==
  DiscTypeOK /\ HandInv /\ [DiscNext]_discVars => DiscTypeOK' /\ HandInv'
<1> SUFFICES ASSUME DiscTypeOK, HandInv, [DiscNext]_discVars PROVE DiscTypeOK' /\ HandInv'
  OBVIOUS
<1>0. /\ oneWriter \in BOOLEAN /\ stored \in [Copies -> Polls \cup {"none", "db"}]
      /\ posting \in [Copies -> {"discovered", "scored", "skipped", "expired"}]
      /\ polling \in [Polls -> PollingRow]
      /\ reported \subseteq Copies /\ prepare \subseteq Copies /\ applied \subseteq Copies
      /\ crashes \in 0..MaxCrashes /\ MaxCrashes \in Nat
  BY DiscParts, DiscoveryAssumption
\* One poll's row changes.
<1>h. ASSUME NEW p \in Polls, NEW row \in PollingRow, polling' = [polling EXCEPT ![p] = row],
             row.pc \in {"find", "insert"} => row.at \in Copies /\ row.at \in row.seen
      PROVE  polling' \in [Polls -> PollingRow] /\ HandInv'
  BY <1>0, <1>h DEF HandInv
<1>1. ASSUME NEW p \in Polls, NextRaw(p) PROVE DiscTypeOK' /\ HandInv'
  <2>1. PICK c \in Copies :
          polling' = [polling EXCEPT ![p].pc = "find", ![p].at = c, ![p].seen = @ \cup {c}]
    BY <1>1 DEF NextRaw
  <2> DEFINE row == [polling[p] EXCEPT !.pc = "find", !.at = c, !.seen = polling[p].seen \cup {c}]
  <2>2. row \in PollingRow /\ row.at = c /\ c \in row.seen
    BY <1>0 DEF PollingRow
  <2>3. polling' = [polling EXCEPT ![p] = row]
    BY <1>0, <2>1
  <2> HIDE DEF row
  <2>4. polling' \in [Polls -> PollingRow] /\ HandInv'
    BY <1>h, <2>2, <2>3
  <2> QED
    BY <1>0, <1>1, <2>4 DEF NextRaw, DiscTypeOK, PollingRow
<1>2. ASSUME NEW p \in Polls, Find(p) PROVE DiscTypeOK' /\ HandInv'
  <2>0. polling[p] \in PollingRow /\ polling[p].at \in Copies /\ polling[p].at \in polling[p].seen
    BY <1>0, <1>2 DEF Find, HandInv
  <2>1. CASE polling' = [polling EXCEPT ![p].pc = "insert"]
    <3> DEFINE row == [polling[p] EXCEPT !.pc = "insert"]
    <3>1. row \in PollingRow /\ row.at \in Copies /\ row.at \in row.seen
      BY <2>0 DEF PollingRow
    <3>2. polling' = [polling EXCEPT ![p] = row]
      BY <1>0, <2>1
    <3> HIDE DEF row
    <3> QED
      BY <1>0, <1>2, <1>h, <3>1, <3>2 DEF Find, DiscTypeOK, PollingRow
  <2>2. ASSUME NEW c \in FindExisting(p, polling[p].at),
               polling' = [polling EXCEPT ![p].pc = "poll", ![p].touched = @ \cup {c}]
        PROVE  DiscTypeOK' /\ HandInv'
    <3> DEFINE row == [polling[p] EXCEPT !.pc = "poll", !.touched = polling[p].touched \cup {c}]
    <3>1. c \in Copies
      BY <2>0 DEF FindExisting, Visible
    <3>2. row \in PollingRow /\ row.pc = "poll"
      BY <2>0, <3>1 DEF PollingRow
    <3>3. polling' = [polling EXCEPT ![p] = row]
      BY <1>0, <2>2
    <3> HIDE DEF row
    <3> QED
      BY <1>0, <1>2, <1>h, <3>2, <3>3 DEF Find, DiscTypeOK, PollingRow
  <2> QED
    BY <1>2, <2>1, <2>2 DEF Find
<1>3. ASSUME NEW p \in Polls, Insert(p) PROVE DiscTypeOK' /\ HandInv'
  <2>1. polling[p].at \in Copies
    BY <1>3 DEF Insert, HandInv
  <2>2. /\ stored' \in [Copies -> Polls \cup {"none", "db"}]
        /\ \E row \in PollingRow : polling' = [polling EXCEPT ![p] = row] /\ row.pc = "poll"
    BY <1>3, <2>1, InsertIs
  <2> QED
    BY <1>0, <1>3, <1>h, <2>2 DEF Insert, DiscTypeOK, PollingRow
<1>4. ASSUME NEW p \in Polls, DeadlockVictim(p) PROVE DiscTypeOK' /\ HandInv'
  <2> DEFINE row == [polling[p] EXCEPT !.pc = "poll", !.seen = polling[p].seen \ {polling[p].at}]
  <2>1. row \in PollingRow /\ row.pc = "poll"
    BY <1>0 DEF PollingRow
  <2>2. polling' = [polling EXCEPT ![p] = row]
    BY <1>0, <1>4 DEF DeadlockVictim
  <2> HIDE DEF row
  <2> QED
    BY <1>0, <1>4, <1>h, <2>1, <2>2 DEF DeadlockVictim, DiscTypeOK, PollingRow
<1>5. ASSUME NEW p \in Polls, ScoreAndCommit(p) PROVE DiscTypeOK' /\ HandInv'
  <2>1. [AtRest EXCEPT !.pc = "enqueue"] \in PollingRow
        /\ [AtRest EXCEPT !.pc = "enqueue"].pc = "enqueue"
    BY AtRestIs DEF PollingRow
  <2>2. polling' = [polling EXCEPT ![p] = [AtRest EXCEPT !.pc = "enqueue"]]
    BY <1>5 DEF ScoreAndCommit
  <2>3. polling' \in [Polls -> PollingRow] /\ HandInv'
    BY <1>h, <2>1, <2>2
  <2>4. stored' \in [Copies -> Polls \cup {"none", "db"}]
    BY <1>0, <1>5 DEF ScoreAndCommit
  <2>5. posting' \in [Copies -> {"discovered", "scored", "skipped", "expired"}]
    <3>1. PICK scores \in [polling[p].touched -> {"scored", "skipped"}] :
            posting' = [c \in Copies |->
              IF c \in polling[p].touched /\ posting[c] \in RESCORABLE_STATUSES
              THEN scores[c] ELSE posting[c]]
      BY <1>5 DEF ScoreAndCommit
    <3>2. \A c \in polling[p].touched : scores[c] \in {"scored", "skipped"}
      OBVIOUS
    <3> QED
      BY <1>0, <3>1, <3>2
  <2>6. reported' \subseteq Copies
    BY <1>0, <1>5 DEF ScoreAndCommit, PollingRow
  <2> QED
    BY <1>0, <1>5, <2>3, <2>4, <2>5, <2>6 DEF ScoreAndCommit, DiscTypeOK, PollingRow
<1>6. ASSUME NEW p \in Polls, EnqueueQualified(p) PROVE DiscTypeOK' /\ HandInv'
  <2>1. prepare' \subseteq Copies /\ polling' = [polling EXCEPT ![p] = AtRest]
    BY <1>0, <1>6 DEF EnqueueQualified, Qualified
  <2> QED
    BY <1>0, <1>6, <1>h, <2>1, AtRestIs DEF EnqueueQualified, DiscTypeOK, PollingRow
<1>7. ASSUME NEW c \in Copies, PrepareApplication(c) \/ Expire(c) PROVE DiscTypeOK' /\ HandInv'
  <2>1. UNCHANGED <<oneWriter, stored, polling, reported, crashes>>
    BY <1>7 DEF PrepareApplication, Expire
  <2>2. prepare' \subseteq Copies /\ applied' \subseteq Copies
    BY <1>0, <1>7 DEF PrepareApplication, Expire
  <2>3. posting' \in [Copies -> {"discovered", "scored", "skipped", "expired"}]
    BY <1>0, <1>7 DEF PrepareApplication, Expire
  <2>4. HandInv'
    BY <2>1 DEF HandInv
  <2> QED
    BY <1>0, <2>1, <2>2, <2>3, <2>4 DEF DiscTypeOK, PollingRow
<1>8. ASSUME NEW p \in Polls, PollDies(p) PROVE DiscTypeOK' /\ HandInv'
  <2>1. polling' \in [Polls -> PollingRow] /\ HandInv'
    BY <1>8, <1>h, AtRestIs DEF PollDies
  <2>2. stored' \in [Copies -> Polls \cup {"none", "db"}] /\ crashes' \in 0..MaxCrashes
    BY <1>0, <1>8 DEF PollDies
  <2> QED
    BY <1>0, <1>8, <2>1, <2>2 DEF PollDies, DiscTypeOK, PollingRow
<1>9. CASE UNCHANGED discVars
  BY <1>9 DEF discVars, HandInv, DiscTypeOK
<1> QED
  BY <1>1, <1>2, <1>3, <1>4, <1>5, <1>6, <1>7, <1>8, <1>9 DEF DiscNext, PollStep

LEMMA DiscHolds == DiscSpec => [](DiscTypeOK /\ HandInv)
<1>1. DiscInit => DiscTypeOK /\ HandInv
  <2> SUFFICES ASSUME DiscInit PROVE DiscTypeOK /\ HandInv
    OBVIOUS
  <2>1. polling \in [Polls -> PollingRow] /\ \A p \in Polls : polling[p] = AtRest
    BY AtRestIs DEF DiscInit
  <2>2. 0 \in 0..MaxCrashes
    BY DiscoveryAssumption
  <2>3. DiscTypeOK
    BY <2>1, <2>2 DEF DiscInit, DiscTypeOK, PollingRow
  <2> QED
    BY <2>1, <2>3, AtRestIs DEF HandInv
<1> QED
  BY <1>1, DiscTypesStep, PTL DEF DiscSpec

\* Discovery keeps its types.
THEOREM DiscTypes == DiscSpec => []DiscTypeOK
BY DiscHolds, PTL

\* What a poll has noted and dealt with has a row of its opening that is committed or in
\* the poll's own transaction; what it has reported has a committed one.
Covered(c, p) == \E d \in SameOpening(c) : stored[d] \in {"db", p}
CoverInv ==
  \A p \in Polls : \A c \in polling[p].seen :
    Covered(c, p) \/ (polling[p].pc \in {"find", "insert"} /\ polling[p].at = c)

\* A step that takes no row away from the database or from the poll.
LEMMA RowsStay ==
  ASSUME NEW p \in Polls, NEW c \in Copies, Covered(c, p),
         \A d \in Copies : stored[d] \in {"db", p} => stored'[d] \in {"db", p}
  PROVE  Covered(c, p)'
BY DEF Covered, SameOpening

LEMMA CommittedStay ==
  ASSUME IngestedIsStored, reported' = reported,
         \A d \in Copies : stored[d] = "db" => stored'[d] = "db"
  PROVE  IngestedIsStored'
BY DEF IngestedIsStored, SameOpening

\* Whatever a poll reports as created or deduplicated is in the database once the poll has
\* committed: a lost insert race takes nothing else with it, a dead poll reports nothing.
THEOREM ReportedIsStored == DiscSpec => []IngestedIsStored
<1>1. DiscInit => CoverInv /\ IngestedIsStored
  BY DEF DiscInit, CoverInv, IngestedIsStored, AtRest
<1>2. DiscTypeOK /\ DiscTypeOK' /\ HandInv /\ CoverInv /\ IngestedIsStored /\ [DiscNext]_discVars
        => CoverInv' /\ IngestedIsStored'
  <2> SUFFICES ASSUME DiscTypeOK, DiscTypeOK', HandInv, CoverInv, IngestedIsStored,
                      [DiscNext]_discVars
               PROVE  CoverInv' /\ IngestedIsStored'
    OBVIOUS
  <2>0. /\ stored \in [Copies -> Polls \cup {"none", "db"}] /\ reported \subseteq Copies
        /\ polling \in [Polls -> PollingRow] /\ polling' \in [Polls -> PollingRow]
        /\ \A p \in Polls : p # "none" /\ p # "db" /\ polling[p].seen \subseteq Copies
        /\ \A p \in Polls : polling'[p].seen \subseteq Copies
    <3>1. polling \in [Polls -> PollingRow] /\ polling' \in [Polls -> PollingRow]
      BY DEF DiscTypeOK, PollingRow
    <3>2. /\ \A p \in Polls : polling[p].seen \subseteq Copies
          /\ \A p \in Polls : polling'[p].seen \subseteq Copies
      BY <3>1 DEF PollingRow
    <3> QED
      BY <3>1, <3>2, DiscParts, DiscoveryAssumption
  \* The rows, the reports and the other polls stand still.
  <2>q. ASSUME NEW p \in Polls, UNCHANGED <<stored, reported>>,
               \A q \in Polls \ {p} : polling'[q] = polling[q],
               \A c \in polling'[p].seen :
                 Covered(c, p) \/ (polling'[p].pc \in {"find", "insert"} /\ polling'[p].at = c)
        PROVE  CoverInv' /\ IngestedIsStored'
    <3>1. IngestedIsStored'
      BY <2>q DEF IngestedIsStored
    <3>2. ASSUME NEW q \in Polls, NEW c \in polling'[q].seen
          PROVE  Covered(c, q)' \/ (polling'[q].pc \in {"find", "insert"} /\ polling'[q].at = c)
      <4>1. Covered(c, q) \/ (polling'[q].pc \in {"find", "insert"} /\ polling'[q].at = c)
        BY <2>q, <3>2 DEF CoverInv
      <4> QED
        BY <2>q, <4>1 DEF Covered
    <3>3. CoverInv'
      BY <3>2 DEF CoverInv
    <3> QED
      BY <3>1, <3>3
  <2>1. ASSUME NEW p \in Polls, NextRaw(p) PROVE CoverInv' /\ IngestedIsStored'
    <3>1. PICK c \in Copies :
            polling' = [polling EXCEPT ![p].pc = "find", ![p].at = c, ![p].seen = @ \cup {c}]
      BY <2>1 DEF NextRaw
    <3>2. polling[p].pc \in {"idle", "poll"} /\ UNCHANGED <<stored, reported>>
      BY <2>1 DEF NextRaw
    <3>3. /\ polling'[p].seen = polling[p].seen \cup {c} /\ polling'[p].pc = "find"
          /\ polling'[p].at = c /\ \A q \in Polls \ {p} : polling'[q] = polling[q]
      BY <2>0, <3>1 DEF PollingRow
    <3>4. \A d \in polling[p].seen : Covered(d, p)
      BY <3>2 DEF CoverInv
    <3> QED
      BY <2>q, <3>2, <3>3, <3>4
  <2>2. ASSUME NEW p \in Polls, Find(p) PROVE CoverInv' /\ IngestedIsStored'
    <3>0. /\ polling[p].at \in Copies /\ UNCHANGED <<stored, reported>> /\ polling[p].pc = "find"
          /\ polling[p] \in PollingRow
      BY <2>0, <2>2 DEF Find, HandInv
    <3>1. CASE polling' = [polling EXCEPT ![p].pc = "insert"]
      <4>1. /\ polling'[p].seen = polling[p].seen /\ polling'[p].pc = "insert"
            /\ polling'[p].at = polling[p].at /\ \A q \in Polls \ {p} : polling'[q] = polling[q]
        BY <2>0, <3>0, <3>1 DEF PollingRow
      <4>2. \A d \in polling'[p].seen : Covered(d, p) \/ polling'[p].at = d
        BY <4>1 DEF CoverInv
      <4> QED
        BY <2>q, <3>0, <4>1, <4>2
    <3>2. ASSUME NEW c \in FindExisting(p, polling[p].at),
                 polling' = [polling EXCEPT ![p].pc = "poll", ![p].touched = @ \cup {c}]
          PROVE  CoverInv' /\ IngestedIsStored'
      <4>1. /\ polling'[p].seen = polling[p].seen
            /\ \A q \in Polls \ {p} : polling'[q] = polling[q]
        BY <2>0, <3>0, <3>2 DEF PollingRow
      <4>2. Covered(polling[p].at, p)
        BY <3>0, <3>2 DEF FindExisting, Visible, Covered, SameOpening
      <4>3. \A d \in polling'[p].seen : Covered(d, p)
        BY <4>1, <4>2 DEF CoverInv
      <4> QED
        BY <2>q, <3>0, <4>1, <4>3
    <3> QED
      BY <2>2, <3>1, <3>2 DEF Find
  <2>3. ASSUME NEW p \in Polls, Insert(p) PROVE CoverInv' /\ IngestedIsStored'
    <3>1. polling[p].at \in Copies /\ reported' = reported
      BY <2>3 DEF Insert, HandInv
    <3>2. /\ stored'[polling[p].at] \in {p, "db"}
          /\ \A c \in Copies : stored[c] # "none" => stored'[c] = stored[c]
          /\ \E row \in PollingRow : /\ polling' = [polling EXCEPT ![p] = row]
                                     /\ row.pc = "poll" /\ row.seen = polling[p].seen
      BY <2>3, <3>1, InsertIs
    <3>3. /\ polling'[p].seen = polling[p].seen
          /\ \A q \in Polls \ {p} : polling'[q] = polling[q]
      BY <2>0, <3>2
    <3>4. IngestedIsStored'
      BY <3>1, <3>2, CommittedStay
    <3>5. ASSUME NEW q \in Polls, NEW c \in polling'[q].seen
          PROVE  Covered(c, q)' \/ (polling'[q].pc \in {"find", "insert"} /\ polling'[q].at = c)
      <4>0. c \in Copies /\ c \in polling[q].seen
        BY <2>0, <3>3
      <4>1. CASE Covered(c, q)
        BY <2>0, <3>2, <4>0, <4>1, RowsStay
      <4>2. CASE ~Covered(c, q) /\ q # p
        BY <3>3, <4>0, <4>2 DEF CoverInv
      <4>3. CASE ~Covered(c, q) /\ q = p
        <5>1. polling[p].at = c
          BY <4>0, <4>3 DEF CoverInv
        <5> QED
          BY <3>2, <4>0, <4>3, <5>1 DEF Covered, SameOpening
      <4> QED
        BY <4>1, <4>2, <4>3
    <3>6. CoverInv'
      BY <3>5 DEF CoverInv
    <3> QED
      BY <3>4, <3>6
  <2>4. ASSUME NEW p \in Polls, DeadlockVictim(p) PROVE CoverInv' /\ IngestedIsStored'
    <3>1. /\ UNCHANGED <<stored, reported>>
          /\ polling' = [polling EXCEPT ![p].pc = "poll", ![p].seen = @ \ {polling[p].at}]
      BY <2>4 DEF DeadlockVictim
    <3>2. /\ polling'[p].seen = polling[p].seen \ {polling[p].at}
          /\ \A q \in Polls \ {p} : polling'[q] = polling[q]
      BY <2>0, <3>1 DEF PollingRow
    <3>3. \A d \in polling'[p].seen : Covered(d, p)
      BY <3>2 DEF CoverInv
    <3> QED
      BY <2>q, <3>1, <3>2, <3>3
  <2>5. ASSUME NEW p \in Polls, ScoreAndCommit(p) PROVE CoverInv' /\ IngestedIsStored'
    <3>1. /\ stored' = [c \in Copies |-> IF stored[c] = p THEN "db" ELSE stored[c]]
          /\ polling[p].pc = "poll" /\ reported' = reported \cup polling[p].seen
          /\ polling' = [polling EXCEPT ![p] = [AtRest EXCEPT !.pc = "enqueue"]]
      BY <2>5 DEF ScoreAndCommit
    <3>2. [AtRest EXCEPT !.pc = "enqueue"].seen = {}
      BY DEF AtRest
    <3>3. polling'[p].seen = {} /\ \A q \in Polls \ {p} : polling'[q] = polling[q]
      BY <2>0, <3>1, <3>2
    <3>4. \A d \in Copies : stored[d] \in {"db", p} => stored'[d] = "db"
      BY <2>0, <3>1
    <3>5. ASSUME NEW q \in Polls, NEW c \in polling'[q].seen
          PROVE  Covered(c, q)' \/ (polling'[q].pc \in {"find", "insert"} /\ polling'[q].at = c)
      <4>1. q # p /\ polling'[q] = polling[q] /\ c \in Copies
        BY <2>0, <3>3
      <4>2. \A d \in Copies : stored[d] \in {"db", q} => stored'[d] \in {"db", q}
        BY <2>0, <3>1, <4>1
      <4>3. CASE Covered(c, q)
        BY <4>1, <4>2, <4>3, RowsStay
      <4> QED
        BY <4>1, <4>3 DEF CoverInv
    <3>6. CoverInv'
      BY <3>5 DEF CoverInv
    <3>7. ASSUME NEW c \in reported' PROVE \E d \in SameOpening(c) : stored'[d] = "db"
      <4>1. CASE c \in reported
        BY <3>4, <4>1 DEF IngestedIsStored, SameOpening
      <4>2. CASE c \in polling[p].seen
        <5>1. Covered(c, p)
          BY <3>1, <4>2 DEF CoverInv
        <5> QED
          BY <3>4, <5>1 DEF Covered, SameOpening
      <4> QED
        BY <3>1, <4>1, <4>2
    <3>8. IngestedIsStored'
      BY <3>7 DEF IngestedIsStored, SameOpening
    <3> QED
      BY <3>6, <3>8
  <2>6. ASSUME NEW p \in Polls, EnqueueQualified(p) PROVE CoverInv' /\ IngestedIsStored'
    <3>1. UNCHANGED <<stored, reported>> /\ polling' = [polling EXCEPT ![p] = AtRest]
      BY <2>6 DEF EnqueueQualified
    <3>2. polling'[p].seen = {} /\ \A q \in Polls \ {p} : polling'[q] = polling[q]
      BY <2>0, <3>1, AtRestIs
    <3> QED
      BY <2>q, <3>1, <3>2
  <2>7. ASSUME NEW p \in Polls, PollDies(p) PROVE CoverInv' /\ IngestedIsStored'
    <3>1. /\ stored' = [c \in Copies |-> IF stored[c] = p THEN "none" ELSE stored[c]]
          /\ reported' = reported /\ polling' = [polling EXCEPT ![p] = AtRest]
      BY <2>7 DEF PollDies
    <3>2. polling'[p].seen = {} /\ \A q \in Polls \ {p} : polling'[q] = polling[q]
      BY <2>0, <3>1, AtRestIs
    <3>3. ASSUME NEW q \in Polls, NEW c \in polling'[q].seen
          PROVE  Covered(c, q)' \/ (polling'[q].pc \in {"find", "insert"} /\ polling'[q].at = c)
      <4>1. q # p /\ polling'[q] = polling[q] /\ c \in Copies
        BY <2>0, <3>2
      <4>2. \A d \in Copies : stored[d] \in {"db", q} => stored'[d] \in {"db", q}
        BY <2>0, <3>1, <4>1
      <4>3. CASE Covered(c, q)
        BY <4>1, <4>2, <4>3, RowsStay
      <4> QED
        BY <4>1, <4>3 DEF CoverInv
    <3>4. CoverInv'
      BY <3>3 DEF CoverInv
    <3>5. \A d \in Copies : stored[d] = "db" => stored'[d] = "db"
      BY <2>0, <3>1
    <3> QED
      BY <3>1, <3>4, <3>5, CommittedStay
  <2>8. CASE UNCHANGED <<stored, reported, polling>>
    BY <2>8 DEF CoverInv, Covered, IngestedIsStored
  <2>9. ASSUME NEW c \in Copies, PrepareApplication(c) \/ Expire(c)
        PROVE  UNCHANGED <<stored, reported, polling>>
    BY <2>9 DEF PrepareApplication, Expire
  <2>10. UNCHANGED discVars => UNCHANGED <<stored, reported, polling>>
    BY DEF discVars
  <2> QED
    BY <2>1, <2>2, <2>3, <2>4, <2>5, <2>6, <2>7, <2>8, <2>9, <2>10 DEF DiscNext, PollStep
<1> QED
  BY <1>1, <1>2, DiscHolds, PTL DEF DiscSpec

-----------------------------------------------------------------------------
(* BoardSearch.                                                            *)

YieldRow == [board : BoardsAsked, job : Wanted]
Place == [going : BOOLEAN, pass : 1 .. 2, board : BoardsAsked, page : 1 .. MaxPages,
          got : Nat, tries : 1 .. MaxAttempts]
Cached == UNION {[D -> Feeds] : D \in SUBSET (1 .. MaxPages)}

SearchShape ==
  /\ paged \in BOOLEAN /\ limit \in Limits
  /\ feed \in [BoardsAsked -> Feeds]
  /\ pages \in [BoardsAsked -> Cached]
  /\ search \in Place
  /\ yielded \in Seq(YieldRow)
  /\ met \in [BoardsAsked -> SUBSET Wanted]
  /\ lost \subseteq BoardsAsked
  /\ changed \in 0 .. MaxBoardChanges

\* There are boards to ask, and the sizes of a search are numbers.
LEMMA SearchNumbers ==
  /\ Len(BoardList) \in Nat /\ Len(BoardList) > 0 /\ BoardsAsked = 1 .. Len(BoardList)
  /\ IsFiniteSet(Jobs) /\ Wanted \subseteq Jobs /\ Cardinality(Jobs) \in Nat
  /\ Limits \subseteq Nat \ {0}
  /\ PageSize \in Nat /\ PageSize > 0 /\ MaxPages \in Nat /\ MaxPages > 0
  /\ MaxAttempts \in Nat /\ MaxAttempts > 0 /\ MaxBoardChanges \in Nat
  /\ SizeOfPage \in Nat /\ SizeOfPage > 0
<1>1. Cardinality(Jobs) \in Nat
  BY BoardSearchAssumption, FS_CardinalityType
<1>2. Len(BoardList) \in Nat /\ Len(BoardList) > 0 /\ BoardsAsked = 1 .. Len(BoardList)
  BY BoardSearchAssumption DEF BoardsAsked
<1> QED
  BY <1>1, <1>2, BoardSearchAssumption DEF SizeOfPage

\* A feed lists postings, each once; that there are no more of them than postings follows.
LEMMA FeedsAre == Feeds = {s \in Seq(Jobs) : IsInjective(s)}
<1>1. ASSUME NEW s \in Feeds PROVE s \in Seq(Jobs) /\ IsInjective(s)
  BY SearchNumbers DEF Feeds, BoundedSeq, SeqOf
<1>2. ASSUME NEW s \in Seq(Jobs), IsInjective(s) PROVE s \in Feeds
  <2>1. /\ DOMAIN s = 1 .. Len(s) /\ Len(s) \in Nat
        /\ IsFiniteSet(DOMAIN s) /\ Cardinality(DOMAIN s) = Len(s)
    BY PositionsOf
  <2>2. s \in [DOMAIN s -> Jobs] /\ \A i, j \in DOMAIN s : s[i] = s[j] => i = j
    BY <1>2 DEF IsInjective
  <2>3. Len(s) <= Cardinality(Jobs)
    BY <2>1, <2>2, SearchNumbers, FewerThan
  <2>4. Len(s) \in 0 .. Cardinality(Jobs) /\ s \in [1 .. Len(s) -> Jobs]
    BY <2>1, <2>2, <2>3, SearchNumbers
  <2> QED
    BY <1>2, <2>4 DEF Feeds, BoundedSeq, SeqOf
<1> QED
  BY <1>1, <1>2

\* The fair share is a positive part of the budget.
LEMMA ShareIs ==
  ASSUME limit \in Limits
  PROVE  /\ limit \in Nat /\ limit > 0
         /\ FairShare \in Nat /\ FairShare > 0
         /\ Max({1, limit \div Len(BoardList)}) = FairShare
<1> DEFINE len == Len(BoardList)
           part == limit \div len
<1>0. len \in Nat /\ len > 0
  BY SearchNumbers
<1>1. limit \in Nat /\ limit > 0
  BY SearchNumbers
<1>2. FairShare = IF len <= 1 THEN limit ELSE Max({1, part})
  BY DEF FairShare
<1> HIDE DEF len
<1>3. part \in Nat /\ (len = 1 => part = limit)
  BY <1>0, <1>1
<1> HIDE DEF part
<1>4. Max({1, part}) = IF 1 >= part THEN 1 ELSE part
  <2>1. 1 \in Int /\ part \in Int
    BY <1>3
  <2>2. (CHOOSE x \in {1, part} : \A y \in {1, part} : x >= y) = IF 1 >= part THEN 1 ELSE part
    BY <2>1, LesserAndGreater
  <2> QED
    BY <2>2, Zenon DEF Max
<1> DEFINE m == Max({1, part})
<1>5. Max({1, limit \div Len(BoardList)}) = m
  BY DEF len, part
<1> HIDE DEF m
<1>6. m = (IF 1 >= part THEN 1 ELSE part) /\ FairShare = IF len <= 1 THEN limit ELSE m
  BY <1>2, <1>4 DEF m
<1> QED
  BY <1>0, <1>1, <1>3, <1>5, <1>6

\* A page is a part of the feed, and a short one is its last.
LEMMA PageIs ==
  ASSUME NEW s \in Feeds, NEW n \in Nat \ {0}
  PROVE  LET items == SubSeq(s, (n - 1) * SizeOfPage + 1, Min({n * SizeOfPage, Len(s)}))
         IN /\ items \in Feeds
            /\ \A m \in DOMAIN s : (n - 1) * SizeOfPage < m /\ m <= n * SizeOfPage =>
                 \E i \in DOMAIN items : items[i] = s[m]
            /\ Len(items) # SizeOfPage => Len(s) < n * SizeOfPage
<1> DEFINE size == SizeOfPage
           a == (n - 1) * size
           z == n * size
           len == Len(s)
           e == Min({z, len})
           items == SubSeq(s, a + 1, e)
           count == Len(items)
<1>0. size \in Nat /\ size > 0
  BY SearchNumbers
<1>1. /\ s \in Seq(Jobs) /\ len \in Nat /\ DOMAIN s = 1 .. len
      /\ \A i, j \in DOMAIN s : s[i] = s[j] => i = j
  BY FeedsAre DEF IsInjective
<1>2. a \in Nat /\ z \in Nat /\ z = a + size
  <2> HIDE DEF size
  <2> QED
    BY <1>0
<1> HIDE DEF size, a, z
<1>3. e = IF z <= len THEN z ELSE len
  <2> HIDE DEF len
  <2>1. (CHOOSE x \in {z, len} : \A y \in {z, len} : x <= y) = IF z <= len THEN z ELSE len
    <3>1. z \in Int /\ len \in Int
      BY <1>1, <1>2
    <3> QED
      BY <3>1, LesserAndGreater
  <2> QED
    BY <2>1, Zenon DEF Min
<1> HIDE DEF e
<1>4. ASSUME a + 1 <= e
      PROVE  /\ items \in Seq(Jobs) /\ count = e - a /\ DOMAIN items = 1 .. (e - a)
             /\ \A i \in 1 .. (e - a) : items[i] = s[a + i]
  <2>1. a + 1 \in 1 .. (len + 1) /\ e \in 0 .. len /\ a \in Nat /\ e \in Nat
    <3> HIDE DEF len
    <3> QED
      BY <1>1, <1>2, <1>3, <1>4
  <2>2. /\ items \in Seq(Jobs) /\ count = e - (a + 1) + 1 /\ DOMAIN items = 1 .. (e - (a + 1) + 1)
        /\ \A i \in 1 .. (e - (a + 1) + 1) : items[i] = s[a + 1 + i - 1]
    BY <1>1, <1>4, <2>1
  <2>3. e - (a + 1) + 1 = e - a /\ \A i \in Int : a + 1 + i - 1 = a + i
    BY <2>1
  <2> HIDE DEF items, count
  <2>4. DOMAIN items = 1 .. (e - a) /\ count = e - a
    BY <2>2, <2>3
  <2>5. \A i \in 1 .. (e - a) : items[i] = s[a + i]
    <3> SUFFICES ASSUME NEW i \in 1 .. (e - a) PROVE items[i] = s[a + i]
      OBVIOUS
    <3>1. i \in 1 .. (e - (a + 1) + 1) /\ a + 1 + i - 1 = a + i
      BY <2>1, <2>3
    <3> QED
      BY <2>2, <3>1
  <2> QED
    BY <2>2, <2>4, <2>5
<1>5. ASSUME ~(a + 1 <= e) PROVE items = <<>> /\ count = 0
  <2>1. e \in Nat /\ e < a + 1
    <3> HIDE DEF len
    <3> QED
      BY <1>1, <1>2, <1>3, <1>5
  <2>2. items = <<>>
    BY <1>1, <1>2, <2>1
  <2> QED
    BY <2>2
<1>6. items \in Feeds
  <2>1. CASE a + 1 <= e
    <3> HIDE DEF len, items, count
    <3>1. \A i \in 1 .. (e - a) : a + i \in DOMAIN s
      BY <1>1, <1>2, <1>3, <2>1
    <3>2. \A i, j \in 1 .. (e - a) : items[i] = items[j] => i = j
      <4> SUFFICES ASSUME NEW i \in 1 .. (e - a), NEW j \in 1 .. (e - a), items[i] = items[j]
                   PROVE  i = j
        OBVIOUS
      <4>1. s[a + i] = s[a + j] /\ a + i \in DOMAIN s /\ a + j \in DOMAIN s
        BY <1>4, <2>1, <3>1
      <4>2. a + i = a + j
        BY <1>1, <4>1
      <4> QED
        BY <1>2, <4>2
    <3> QED
      BY <1>4, <2>1, <3>2, FeedsAre DEF IsInjective
  <2>2. CASE ~(a + 1 <= e)
    <3>1. <<>> \in Feeds
      BY FeedsAre DEF IsInjective
    <3> HIDE DEF items
    <3> QED
      BY <1>5, <2>2, <3>1
  <2> QED
    BY <2>1, <2>2
<1> HIDE DEF len, items, count
<1>7. ASSUME NEW m \in DOMAIN s, a < m, m <= z PROVE \E i \in DOMAIN items : items[i] = s[m]
  <2>0. m \in Nat /\ m <= len /\ len \in Nat
    BY <1>1
  <2>1. m \in Nat /\ e \in Nat /\ a + 1 <= e /\ m <= e
    BY <1>2, <1>3, <1>7, <2>0
  <2>2. m - a \in 1 .. (e - a) /\ a + (m - a) = m
    BY <1>2, <1>7, <2>1
  <2> QED
    BY <1>4, <2>1, <2>2
<1>8. count # size => len < z
  BY <1>0, <1>1, <1>2, <1>3, <1>4, <1>5
<1> QED
  BY <1>6, <1>7, <1>8 DEF size, a, z, len, e, items, count

-----------------------------------------------------------------------------
\* What TakePage yields of a page of the board it reads.
FreshOf(items) ==
  Subsequence(items, {i \in DOMAIN items :
    items[i] \in Wanted /\ Posting(search.board, items[i]) \notin ToSet(yielded)})
TakenOf(items) == SubSeq(FreshOf(items), 1, Min({Room, Len(FreshOf(items))}))

\* The postings of b yielded.
Got(b) == {j \in Wanted : Posting(b, j) \in ToSet(yielded)}

\* The budget: no posting twice, and while the search goes on there is room for more.
RoomInv ==
  /\ Len(yielded) <= limit /\ IsInjective(yielded)
  /\ search.got <= Len(yielded)
  /\ search.going => Len(yielded) < limit /\ search.got < Cap

\* The room left for a page: what is left of the budget, or of what the board may have.
LEMMA RoomIs ==
  ASSUME SearchShape, RoomInv, search.going
  PROVE  /\ Room \in Nat /\ Room > 0 /\ Room <= limit - Len(yielded) /\ Room <= Cap - search.got
         /\ Room = limit - Len(yielded) \/ Room = Cap - search.got
         /\ Len(yielded) \in Nat /\ limit \in Nat /\ search.got \in Nat /\ Cap \in Nat
<1> DEFINE len == Len(yielded)
           got == search.got
           cap == Cap
<1>1. len \in Nat /\ got \in Nat
  BY DEF SearchShape, Place
<1>2. limit \in Nat /\ FairShare \in Nat
  BY ShareIs DEF SearchShape
<1>3. cap \in Nat
  BY <1>2 DEF Cap
<1>4. len < limit /\ got < cap
  BY DEF RoomInv
<1>5. Room = Min({limit - len, cap - got})
  BY DEF Room
<1> HIDE DEF len, got, cap
<1>6. Room = IF limit - len <= cap - got THEN limit - len ELSE cap - got
  <2>1. limit - len \in Int /\ cap - got \in Int
    BY <1>1, <1>2, <1>3
  <2> DEFINE p == limit - len
             q == cap - got
  <2>2. p \in Int /\ q \in Int
    BY <2>1
  <2>3. Room = Min({p, q})
    BY <1>5
  <2> HIDE DEF p, q
  <2>4. (CHOOSE x \in {p, q} : \A y \in {p, q} : x <= y) = IF p <= q THEN p ELSE q
    BY <2>2, LesserAndGreater
  <2>5. Room = IF p <= q THEN p ELSE q
    BY <2>3, <2>4, Zenon DEF Min
  <2> QED
    BY <2>5 DEF p, q
<1>7. /\ Room \in Nat /\ Room > 0 /\ Room <= limit - len /\ Room <= cap - got
      /\ Room = limit - len \/ Room = cap - got
  BY <1>1, <1>2, <1>3, <1>4, <1>6
<1> QED
  BY <1>1, <1>2, <1>3, <1>7 DEF len, got, cap

\* The first of what is fresh, as much as there is room for: all of it, or a roomful.
LEMMA TakenIs ==
  ASSUME SearchShape, RoomInv, search.going, NEW items \in Feeds
  PROVE  /\ TakenOf(items) \in Seq(Wanted)
         /\ Len(TakenOf(items)) \in Nat /\ Len(FreshOf(items)) \in Nat
         /\ Len(TakenOf(items)) = IF Room <= Len(FreshOf(items)) THEN Room ELSE Len(FreshOf(items))
         /\ \A n \in 1 .. Len(TakenOf(items)) :
              Posting(search.board, TakenOf(items)[n]) \notin ToSet(yielded)
         /\ \A m, n \in 1 .. Len(TakenOf(items)) : TakenOf(items)[m] = TakenOf(items)[n] => m = n
         /\ Len(FreshOf(items)) <= Room =>
              \A i \in DOMAIN items :
                items[i] \in Wanted /\ Posting(search.board, items[i]) \notin ToSet(yielded) =>
                  \E n \in 1 .. Len(TakenOf(items)) : TakenOf(items)[n] = items[i]
<1> DEFINE P == {i \in DOMAIN items :
                   items[i] \in Wanted /\ Posting(search.board, items[i]) \notin ToSet(yielded)}
           fresh == FreshOf(items)
           c == Cardinality(P)
           room == Room
           e == Min({room, c})
           taken == SubSeq(fresh, 1, e)
           k == Len(taken)
<1>1. items \in Seq(Jobs) /\ \A i, j \in DOMAIN items : items[i] = items[j] => i = j
  BY FeedsAre DEF IsInjective
<1>2. P \subseteq DOMAIN items /\ \A i \in P : items[i] \in Wanted /\ Posting(search.board, items[i]) \notin ToSet(yielded)
  OBVIOUS
<1>3. fresh = Subsequence(items, P)
  BY DEF FreshOf
<1>4. \A i \in DOMAIN items : items[i] \in Wanted /\ Posting(search.board, items[i]) \notin ToSet(yielded) => i \in P
  OBVIOUS
<1> HIDE DEF P, fresh
<1>5. /\ c \in Nat /\ fresh \in Seq(Jobs) /\ Len(fresh) = c /\ DOMAIN fresh = 1 .. c
      /\ \A n \in 1 .. c : \E i \in P : fresh[n] = items[i]
      /\ \A i \in P : \E n \in 1 .. c : fresh[n] = items[i]
      /\ \A m, n \in 1 .. c : fresh[m] = fresh[n] => m = n
  <2> DEFINE sub == Subsequence(items, P)
  <2>1. \A i, j \in P : items[i] = items[j] => i = j
    BY <1>1, <1>2
  <2>2. /\ c \in Nat /\ sub \in Seq(Jobs) /\ Len(sub) = c /\ DOMAIN sub = 1 .. c
        /\ \A n \in 1 .. c : \E i \in P : sub[n] = items[i]
        /\ \A i \in P : \E n \in 1 .. c : sub[n] = items[i]
        /\ \A m, n \in 1 .. c : sub[m] = sub[n] => m = n
    BY <1>1, <1>2, <2>1, SubsequenceIs
  <2>3. fresh = sub
    BY <1>3
  <2> HIDE DEF sub, c
  <2> QED
    BY <2>2, <2>3
<1>6. room \in Nat /\ room > 0
  BY RoomIs
<1> HIDE DEF c, room
<1>7. e = IF room <= c THEN room ELSE c
  <2>1. (CHOOSE x \in {room, c} : \A y \in {room, c} : x <= y) = IF room <= c THEN room ELSE c
    <3>1. room \in Int /\ c \in Int
      BY <1>5, <1>6
    <3> QED
      BY <3>1, LesserAndGreater
  <2> QED
    BY <2>1, Zenon DEF Min
<1>8. TakenOf(items) = taken
  BY <1>5 DEF TakenOf, fresh, c, room
<1> HIDE DEF e
<1>9. e \in Nat /\ e <= c
  BY <1>5, <1>6, <1>7
<1>10. /\ k = e /\ DOMAIN taken = 1 .. e /\ taken \in Seq(Jobs)
       /\ \A n \in 1 .. e : taken[n] = fresh[n]
  <2>1. CASE e >= 1
    <3>1. e - 1 + 1 = e /\ \A n \in Int : 1 + n - 1 = n
      BY <1>9
    <3>2. 1 \in 1 .. (c + 1) /\ e \in 0 .. c
      BY <1>5, <1>9, <2>1
    <3>3. /\ taken \in Seq(Jobs) /\ k = e /\ DOMAIN taken = 1 .. e
          /\ \A n \in 1 .. e : taken[n] = fresh[n]
      BY <1>5, <1>9, <2>1, <3>1, <3>2
    <3> QED
      BY <3>3
  <2>2. CASE ~(e >= 1)
    <3>1. e = 0
      BY <1>9, <2>2
    <3>2. taken = <<>>
      BY <1>5, <3>1
    <3> QED
      BY <3>1, <3>2
  <2> QED
    BY <2>1, <2>2
<1> HIDE DEF taken, k
<1>11. \A n \in 1 .. e : n \in 1 .. c
  BY <1>5, <1>9
<1>12. ASSUME NEW n \in 1 .. e
       PROVE  taken[n] \in Wanted /\ Posting(search.board, taken[n]) \notin ToSet(yielded)
  <2>1. PICK i \in P : fresh[n] = items[i]
    BY <1>5, <1>11
  <2> QED
    BY <1>2, <1>10, <2>1
<1>13. taken \in Seq(Wanted)
  BY <1>9, <1>10, <1>12
<1>14. \A m, n \in 1 .. e : taken[m] = taken[n] => m = n
  BY <1>5, <1>10, <1>11
<1>15. ASSUME c <= room, NEW i \in P PROVE \E n \in 1 .. e : taken[n] = items[i]
  <2>1. e = c
    BY <1>5, <1>6, <1>7, <1>15
  <2> QED
    BY <1>5, <1>10, <2>1
<1>16. Len(FreshOf(items)) = c /\ Len(taken) = k /\ Room = room
  BY <1>5 DEF fresh, k, room
<1> QED
  BY <1>4, <1>5, <1>7, <1>8, <1>9, <1>10, <1>12, <1>13, <1>14, <1>15, <1>16

\* A board's postings are counted.
LEMMA FromIs ==
  ASSUME SearchShape, NEW b
  PROVE  From(b) \subseteq DOMAIN yielded /\ IsFiniteSet(From(b)) /\ Cardinality(From(b)) \in Nat
<1>1. From(b) \subseteq DOMAIN yielded
  BY DEF From
<1>2. IsFiniteSet(DOMAIN yielded)
  BY PositionsOf DEF SearchShape
<1> QED
  BY <1>1, <1>2, RestOf

\* What a page adds to what is yielded.
LEMMA YieldIs ==
  ASSUME SearchShape, RoomInv, search.going, NEW items \in Feeds,
         NEW here \in BoardsAsked, here = search.board,
         yielded' = yielded \o [i \in DOMAIN TakenOf(items) |-> Posting(search.board, TakenOf(items)[i])]
  PROVE  /\ yielded' \in Seq(YieldRow) /\ IsInjective(yielded')
         /\ Len(yielded') = Len(yielded) + Len(TakenOf(items)) /\ Len(yielded') <= limit
         /\ \A b : b # here => From(b)' = From(b)
         /\ Cardinality(From(here)') = Cardinality(From(here)) + Len(TakenOf(items))
         /\ \A b : Got(b) \subseteq Got(b)'
         /\ Len(FreshOf(items)) <= Room => ToSet(items) \cap Wanted \subseteq Got(here)'
<1> DEFINE taken == TakenOf(items)
           k == Len(taken)
           len == Len(yielded)
           new == [i \in DOMAIN taken |-> Posting(here, taken[i])]
           total == Len(yielded')
<1>1. /\ taken \in Seq(Wanted) /\ k \in Nat /\ DOMAIN taken = 1 .. k
      /\ \A n \in 1 .. k : taken[n] \in Wanted /\ Posting(here, taken[n]) \notin ToSet(yielded)
      /\ \A m, n \in 1 .. k : taken[m] = taken[n] => m = n
      /\ k <= Room
      /\ Len(FreshOf(items)) <= Room =>
           \A i \in DOMAIN items :
             items[i] \in Wanted /\ Posting(here, items[i]) \notin ToSet(yielded) =>
               \E n \in 1 .. k : taken[n] = items[i]
  <2>1. /\ TakenOf(items) \in Seq(Wanted)
        /\ Len(TakenOf(items)) \in Nat /\ Len(FreshOf(items)) \in Nat
        /\ Len(TakenOf(items)) = IF Room <= Len(FreshOf(items)) THEN Room ELSE Len(FreshOf(items))
        /\ \A n \in 1 .. Len(TakenOf(items)) :
             Posting(search.board, TakenOf(items)[n]) \notin ToSet(yielded)
        /\ \A m, n \in 1 .. Len(TakenOf(items)) : TakenOf(items)[m] = TakenOf(items)[n] => m = n
        /\ Len(FreshOf(items)) <= Room =>
             \A i \in DOMAIN items :
               items[i] \in Wanted /\ Posting(search.board, items[i]) \notin ToSet(yielded) =>
                 \E n \in 1 .. Len(TakenOf(items)) : TakenOf(items)[n] = items[i]
    BY TakenIs
  <2>2. Room \in Nat
    BY RoomIs
  <2>3. taken \in Seq(Wanted) /\ DOMAIN taken = 1 .. k /\ \A n \in 1 .. k : taken[n] \in Wanted
    BY <2>1
  <2> HIDE DEF taken
  <2>4. k <= Room
    BY <2>1, <2>2 DEF taken
  <2> QED
    BY <2>1, <2>3, <2>4 DEF taken
<1>2. /\ yielded \in Seq(YieldRow) /\ len \in Nat /\ DOMAIN yielded = 1 .. len
      /\ \A m, n \in 1 .. len : yielded[m] = yielded[n] => m = n
  BY DEF SearchShape, RoomInv, IsInjective
<1>3. yielded' = yielded \o new
  OBVIOUS
<1>4. Room \in Nat /\ Room <= limit - len /\ limit \in Nat
  BY RoomIs
<1> HIDE DEF taken, k
<1>5. /\ new \in Seq(YieldRow) /\ Len(new) = k /\ DOMAIN new = 1 .. k
      /\ \A n \in 1 .. k : new[n] = Posting(here, taken[n])
  <2>1. \A n \in 1 .. k : Posting(here, taken[n]) \in YieldRow
    BY <1>1 DEF Posting, YieldRow
  <2>2. new \in [1 .. k -> YieldRow] /\ \A n \in 1 .. k : new[n] = Posting(here, taken[n])
    BY <1>1, <2>1
  <2> HIDE DEF new
  <2> QED
    BY <1>1, <2>2
<1> HIDE DEF new, len, total
<1>6. /\ yielded' \in Seq(YieldRow) /\ total = len + k /\ DOMAIN yielded' = 1 .. (len + k)
      /\ \A n \in 1 .. len : yielded'[n] = yielded[n]
      /\ \A n \in 1 .. (len + k) : n > len => yielded'[n] = new[n - len]
  <2> DEFINE both == yielded \o new
  <2>0. yielded \in Seq(YieldRow) /\ new \in Seq(YieldRow)
    BY <1>2, <1>5
  <2>1. /\ both \in Seq(YieldRow) /\ Len(both) = Len(yielded) + Len(new)
        /\ DOMAIN both = 1 .. (Len(yielded) + Len(new))
        /\ \A n \in 1 .. Len(yielded) : both[n] = yielded[n]
        /\ \A n \in 1 .. (Len(yielded) + Len(new)) : n > Len(yielded) => both[n] = new[n - Len(yielded)]
    BY <2>0
  <2>2. yielded' = both
    BY <1>3
  <2> HIDE DEF both
  <2> QED
    BY <1>5, <2>1, <2>2 DEF len, total
<1>7. ASSUME NEW n \in 1 .. (len + k), n > len
      PROVE  n - len \in 1 .. k /\ yielded'[n] = Posting(here, taken[n - len])
  <2>1. n - len \in 1 .. k
    BY <1>1, <1>2, <1>7
  <2> QED
    BY <1>5, <1>6, <1>7, <2>1
<1>8. \A n \in 1 .. len : yielded[n] \in ToSet(yielded)
  BY <1>2 DEF ToSet
<1>8a. ASSUME NEW m \in 1 .. len, NEW n \in 1 .. (len + k), n > len
       PROVE  yielded'[m] # yielded'[n]
  <2>1. yielded'[m] \in ToSet(yielded)
    BY <1>6, <1>8
  <2>2. n - len \in 1 .. k /\ yielded'[n] = Posting(here, taken[n - len])
    BY <1>7, <1>8a
  <2>3. Posting(here, taken[n - len]) \notin ToSet(yielded)
    BY <1>1, <2>2
  <2> QED
    BY <2>1, <2>2, <2>3
<1>9. IsInjective(yielded')
  <2> SUFFICES ASSUME NEW m \in 1 .. (len + k), NEW n \in 1 .. (len + k), yielded'[m] = yielded'[n]
               PROVE  m = n
    BY <1>6 DEF IsInjective
  <2>0. len \in Nat /\ m \in Nat /\ n \in Nat /\ m >= 1 /\ n >= 1
    BY <1>1, <1>2
  <2>1. CASE m <= len /\ n <= len
    <3>1. m \in 1 .. len /\ n \in 1 .. len
      BY <2>0, <2>1
    <3> QED
      BY <1>2, <1>6, <3>1
  <2>2. CASE m <= len /\ n > len
    <3>1. m \in 1 .. len
      BY <2>0, <2>2
    <3> QED
      BY <1>8a, <2>2, <3>1
  <2>3. CASE m > len /\ n <= len
    <3>1. n \in 1 .. len
      BY <2>0, <2>3
    <3> QED
      BY <1>8a, <2>3, <3>1
  <2>4. CASE m > len /\ n > len
    <3>0. Posting(here, taken[m - len]) = Posting(here, taken[n - len])
      BY <1>7, <2>4
    <3>1. taken[m - len] = taken[n - len]
      BY <3>0 DEF Posting
    <3>2. m - len = n - len
      BY <1>1, <1>7, <2>4, <3>1
    <3> QED
      BY <2>0, <3>2
  <2> QED
    BY <2>0, <2>1, <2>2, <2>3, <2>4
<1>10. total <= limit
  BY <1>1, <1>2, <1>4, <1>6
<1> DEFINE N == (len + 1) .. (len + k)
<1>11. \A n \in 1 .. (len + k) : n \in 1 .. len \/ n \in N
  BY <1>1, <1>2
<1>12. \A n \in N : n \in 1 .. (len + k) /\ n > len /\ n \notin 1 .. len
  <2>1. len \in Nat /\ k \in Nat
    BY <1>1, <1>2
  <2> QED
    BY <2>1
<1>13. \A n \in N : yielded'[n].board = here
  <2>1. \A j : Posting(here, j).board = here
    BY DEF Posting
  <2> QED
    BY <1>7, <1>12, <2>1
<1>14. \A n \in 1 .. len : n \in 1 .. (len + k)
  BY <1>1, <1>2
<1> HIDE DEF N
<1>15. \A b : From(b) = {i \in 1 .. len : yielded[i].board = b}
            /\ From(b)' = {i \in 1 .. (len + k) : yielded'[i].board = b}
  BY <1>2, <1>6 DEF From
<1>16. ASSUME NEW b, b # here PROVE From(b)' = From(b)
  BY <1>6, <1>11, <1>13, <1>14, <1>15, <1>16
<1>17. Cardinality(From(here)') = Cardinality(From(here)) + k
  <2>1. From(here)' = From(here) \cup N /\ From(here) \cap N = {}
    BY <1>6, <1>11, <1>12, <1>13, <1>14, <1>15
  <2>2. IsFiniteSet(N) /\ Cardinality(N) = k
    <3>1. len + 1 \in Int /\ len + k \in Int
      BY <1>1, <1>2
    <3>2. IsFiniteSet(N) /\ Cardinality(N) = IF len + 1 > len + k THEN 0 ELSE (len + k) - (len + 1) + 1
      BY <3>1, FS_Interval DEF N
    <3> QED
      BY <1>1, <1>2, <3>2
  <2> DEFINE A == From(here)
  <2>3. IsFiniteSet(A) /\ Cardinality(A) \in Nat
    BY FromIs
  <2>4. From(here)' = A \cup N /\ A \cap N = {}
    BY <2>1
  <2> HIDE DEF A
  <2>5. Cardinality(A \cup N) = Cardinality(A) + Cardinality(N) - Cardinality(A \cap N)
    BY <2>2, <2>3, FS_Union
  <2>6. Cardinality(A \cap N) = 0
    BY <2>4, FS_EmptySet
  <2>7. Cardinality(A \cup N) = Cardinality(A) + k
    BY <1>1, <2>2, <2>3, <2>5, <2>6
  <2> QED
    BY <2>4, <2>7 DEF A
<1>18. ToSet(yielded) \subseteq ToSet(yielded')
  <2> SUFFICES ASSUME NEW n \in 1 .. len PROVE yielded[n] \in ToSet(yielded')
    BY <1>2 DEF ToSet
  <2>1. n \in DOMAIN yielded' /\ yielded'[n] = yielded[n]
    BY <1>6, <1>14
  <2> QED
    BY <2>1 DEF ToSet
<1>19. \A b : Got(b) \subseteq Got(b)'
  BY <1>18 DEF Got
<1>20. ASSUME Len(FreshOf(items)) <= Room, NEW j \in ToSet(items) \cap Wanted PROVE j \in Got(here)'
  <2>1. PICK i \in DOMAIN items : items[i] = j
    BY DEF ToSet
  <2>2. CASE Posting(here, j) \in ToSet(yielded)
    BY <1>18, <2>2 DEF Got
  <2>3. CASE Posting(here, j) \notin ToSet(yielded)
    <3>1. PICK n \in 1 .. k : taken[n] = j
      BY <1>1, <1>20, <2>1, <2>3
    <3>2. len + n \in 1 .. (len + k) /\ len + n > len /\ (len + n) - len = n
      BY <1>1, <1>2
    <3>3. len + n \in DOMAIN yielded' /\ yielded'[len + n] = Posting(here, j)
      BY <1>6, <1>7, <3>1, <3>2
    <3> QED
      BY <3>3 DEF Got, ToSet
  <2> QED
    BY <2>2, <2>3
<1> QED
  BY <1>6, <1>9, <1>10, <1>16, <1>17, <1>19, <1>20 DEF k, taken, len, total

\* Where a search goes from a board.
LEMMA NextBoardIs ==
  ASSUME SearchShape, search.going
  PROVE  /\ NextBoard \in Place
         /\ \/ /\ search.board < Len(BoardList) /\ NextBoard.going
               /\ NextBoard.board = search.board + 1 /\ NextBoard.pass = search.pass
               /\ NextBoard.page = 1 /\ NextBoard.got = 0
            \/ /\ search.board = Len(BoardList) /\ search.pass = 1 /\ NextBoard.going
               /\ NextBoard.board = 1 /\ NextBoard.pass = 2
               /\ NextBoard.page = 1 /\ NextBoard.got = 0
            \/ /\ search.board = Len(BoardList) /\ search.pass = 2 /\ ~NextBoard.going
               /\ NextBoard.board = search.board /\ NextBoard.pass = 2
               /\ NextBoard.page = search.page /\ NextBoard.got = search.got
<1> DEFINE len == Len(BoardList)
<1>1. len \in Nat /\ len > 0 /\ BoardsAsked = 1 .. len
      /\ 1 \in 1 .. MaxPages /\ 1 \in 1 .. MaxAttempts /\ 0 \in Nat
  <2>1. MaxPages \in Nat /\ MaxPages > 0 /\ MaxAttempts \in Nat /\ MaxAttempts > 0
    BY SearchNumbers
  <2>2. len \in Nat /\ len > 0 /\ BoardsAsked = 1 .. len
    BY SearchNumbers
  <2> QED
    BY <2>1, <2>2
<1>2. search \in [going : BOOLEAN, pass : 1 .. 2, board : 1 .. len, page : 1 .. MaxPages,
                 got : Nat, tries : 1 .. MaxAttempts]
  BY <1>1 DEF SearchShape, Place
<1> HIDE DEF len
<1>3. CASE search.board < len
  <2> DEFINE nb == [search EXCEPT !.board = @ + 1, !.page = 1, !.got = 0, !.tries = 1]
  <2>1. NextBoard = nb
    BY <1>3 DEF NextBoard, len
  <2>2. search.board + 1 \in 1 .. len
    BY <1>1, <1>2, <1>3
  <2>3. /\ nb \in [going : BOOLEAN, pass : 1 .. 2, board : 1 .. len, page : 1 .. MaxPages,
                  got : Nat, tries : 1 .. MaxAttempts]
        /\ nb.going /\ nb.board = search.board + 1 /\ nb.pass = search.pass /\ nb.page = 1 /\ nb.got = 0
    BY <1>1, <1>2, <2>2
  <2> HIDE DEF nb
  <2> QED
    BY <1>1, <1>3, <2>1, <2>3 DEF Place, len
<1>4. CASE search.board = len /\ search.pass = 1
  <2> DEFINE nb == [search EXCEPT !.pass = 2, !.board = 1, !.page = 1, !.got = 0, !.tries = 1]
  <2>1. NextBoard = nb
    <3>1. ~(search.board < len)
      BY <1>1, <1>4
    <3> QED
      BY <1>4, <3>1 DEF NextBoard, len
  <2>2. 1 \in 1 .. len /\ 2 \in 1 .. 2
    BY <1>1
  <2>3. /\ nb \in [going : BOOLEAN, pass : 1 .. 2, board : 1 .. len, page : 1 .. MaxPages,
                  got : Nat, tries : 1 .. MaxAttempts]
        /\ nb.going /\ nb.board = 1 /\ nb.pass = 2 /\ nb.page = 1 /\ nb.got = 0
    BY <1>1, <1>2, <2>2
  <2> HIDE DEF nb
  <2> QED
    BY <1>1, <1>4, <2>1, <2>3 DEF Place, len
<1>5. CASE search.board = len /\ search.pass # 1
  <2> DEFINE nb == [search EXCEPT !.going = FALSE]
  <2>1. NextBoard = nb
    <3>1. ~(search.board < len)
      BY <1>1, <1>5
    <3> QED
      BY <1>5, <3>1 DEF NextBoard, len
  <2>2. search.pass = 2
    BY <1>2, <1>5
  <2>3. /\ nb \in [going : BOOLEAN, pass : 1 .. 2, board : 1 .. len, page : 1 .. MaxPages,
                  got : Nat, tries : 1 .. MaxAttempts]
        /\ ~nb.going /\ nb.board = search.board /\ nb.pass = search.pass
        /\ nb.page = search.page /\ nb.got = search.got
    BY <1>2
  <2> HIDE DEF nb
  <2> QED
    BY <1>1, <1>5, <2>1, <2>2, <2>3 DEF Place, len
<1> QED
  BY <1>1, <1>2, <1>3, <1>4, <1>5

\* What reading a page does to the place of the search.
LEMMA PlaceIs ==
  ASSUME SearchShape, RoomInv, search.going, NEW items \in Feeds, TakePage(items)
  PROVE  /\ yielded' = yielded \o [i \in DOMAIN TakenOf(items) |-> Posting(search.board, TakenOf(items)[i])]
         /\ met' = IF search.pass = 1
                   THEN [met EXCEPT ![search.board] = @ \cup (ToSet(items) \cap Wanted)] ELSE met
         /\ search' \in Place
         /\ \/ /\ Len(yielded) + Len(TakenOf(items)) >= limit
               /\ ~search'.going /\ search'.pass = search.pass /\ search'.board = search.board
               /\ search'.got = search.got
            \/ /\ Len(yielded) + Len(TakenOf(items)) < limit
               /\ Len(FreshOf(items)) < Room /\ search.page < MaxPages
               /\ search'.going /\ search'.pass = search.pass /\ search'.board = search.board
               /\ search'.page = search.page + 1 /\ search'.got = search.got + Len(TakenOf(items))
            \/ /\ Len(yielded) + Len(TakenOf(items)) < limit
               /\ \/ Room <= Len(FreshOf(items)) \/ Len(items) # SizeOfPage \/ search.page = MaxPages
               /\ search' = NextBoard
<1> DEFINE k == Len(TakenOf(items))
           more == Len(FreshOf(items)) < Room /\ Len(items) = SizeOfPage /\ search.page < MaxPages
           total == Len(yielded) + k
<1>1. /\ yielded' = yielded \o [i \in DOMAIN TakenOf(items) |-> Posting(search.board, TakenOf(items)[i])]
      /\ met' = IF search.pass = 1
                THEN [met EXCEPT ![search.board] = @ \cup (ToSet(items) \cap Wanted)] ELSE met
      /\ search' = CASE total >= limit -> [search EXCEPT !.going = FALSE]
                     [] total < limit /\ more ->
                          [search EXCEPT !.page = @ + 1, !.got = @ + k, !.tries = 1]
                     [] OTHER -> NextBoard
  BY Zenon DEF TakePage, TakenOf, FreshOf
<1>2. k \in Nat /\ Len(FreshOf(items)) \in Nat
  BY TakenIs
<1>3. Room \in Nat /\ Len(yielded) \in Nat /\ limit \in Nat
  BY RoomIs
<1>4. total \in Nat
  BY <1>2, <1>3
<1>5. /\ search \in Place /\ NextBoard \in Place /\ 1 \in 1 .. MaxAttempts
      /\ MaxPages \in Nat /\ search.page \in 1 .. MaxPages
  <2>1. MaxPages \in Nat /\ MaxAttempts \in Nat /\ MaxAttempts > 0
    BY SearchNumbers
  <2> QED
    BY <2>1, NextBoardIs DEF SearchShape, Place
<1> HIDE DEF k, total
<1>6. CASE total >= limit
  <2>1. search' = [search EXCEPT !.going = FALSE]
    <3>1. ~(total < limit)
      BY <1>3, <1>4, <1>6
    <3> HIDE DEF more
    <3> QED
      BY <1>1, <1>6, <3>1, Zenon
  <2>2. /\ search' \in Place /\ ~search'.going /\ search'.pass = search.pass
        /\ search'.board = search.board /\ search'.got = search.got
    BY <1>5, <2>1 DEF Place
  <2> QED
    BY <1>1, <1>6, <2>2 DEF total, k
<1>7. CASE total < limit /\ more
  <2>1. search' = [search EXCEPT !.page = @ + 1, !.got = @ + k, !.tries = 1]
    <3>1. ~(total >= limit)
      BY <1>3, <1>4, <1>7
    <3> HIDE DEF more
    <3> QED
      BY <1>1, <1>7, <3>1, Zenon
  <2>2. search.page + 1 \in 1 .. MaxPages
    BY <1>5, <1>7
  <2>3. search.got + k \in Nat
    BY <1>2, <1>5 DEF Place
  <2>4. /\ search' \in Place /\ search'.going /\ search'.pass = search.pass
        /\ search'.board = search.board /\ search'.page = search.page + 1
        /\ search'.got = search.got + k
    <3> DEFINE g == search.got + k
               p == search.page + 1
    <3>1. g \in Nat /\ p \in 1 .. MaxPages /\ search' = [search EXCEPT !.page = p, !.got = g, !.tries = 1]
      BY <2>1, <2>2, <2>3
    <3> HIDE DEF g, p
    <3>2. /\ search' \in Place /\ search'.going /\ search'.pass = search.pass
          /\ search'.board = search.board /\ search'.page = p /\ search'.got = g
      BY <1>5, <3>1 DEF Place
    <3> QED
      BY <3>2 DEF g, p
  <2> QED
    BY <1>1, <1>7, <2>4 DEF total, k
<1>8. CASE total < limit /\ ~more
  <2>1. search' = NextBoard
    <3>1. ~(total >= limit)
      BY <1>3, <1>4, <1>8
    <3> HIDE DEF more
    <3> QED
      BY <1>1, <1>8, <3>1, Zenon
  <2>2. Room <= Len(FreshOf(items)) \/ Len(items) # SizeOfPage \/ search.page = MaxPages
    BY <1>2, <1>3, <1>5, <1>8
  <2> QED
    BY <1>1, <1>5, <1>8, <2>1, <2>2 DEF total, k
<1>9. total >= limit \/ total < limit
  BY <1>3, <1>4
<1> QED
  BY <1>6, <1>7, <1>8, <1>9

\* A board got its share, or all that was read of it.
ShareGiven(b) == FairShare <= Cardinality(From(b)) \/ met[b] \subseteq Got(b)

\* The first pass: no board has more than its share, those the search is through with have
\* it or all they had, and those it did not come to have nothing.
ShareInv ==
  /\ search.pass = 1 =>
       /\ \A b \in BoardsAsked : Cardinality(From(b)) <= FairShare
       /\ \A b \in BoardsAsked : b > search.board => From(b) = {} /\ met[b] = {}
       /\ search.going => /\ search.got = Cardinality(From(search.board))
                          /\ met[search.board] \subseteq Got(search.board)
  /\ \A b \in BoardsAsked \ lost : search.pass = 2 \/ b < search.board => ShareGiven(b)

\* What the first pages of a board hold was yielded.
Upto(b, pageCount) ==
  \A n \in DOMAIN feed[b] :
    n <= pageCount * SizeOfPage /\ feed[b][n] \in Wanted => Posting(b, feed[b][n]) \in ToSet(yielded)

\* The second pass leaves nothing behind.
Behind ==
  /\ search.going /\ search.pass = 2 =>
       /\ \A b \in BoardsAsked : b < search.board => Upto(b, MaxPages)
       /\ Upto(search.board, search.page - 1)
  /\ ~search.going /\ Len(yielded) < limit => \A b \in BoardsAsked : Upto(b, MaxPages)

\* While no board failed and none changed, what is cached is what the board lists.
ReadInv ==
  lost = {} /\ changed = 0 =>
    /\ \A b \in BoardsAsked : \A n \in DOMAIN pages[b] : pages[b][n] = PageOf(b, n)
    /\ Behind

\* Leaving for another board, or for the second pass, leaves room.
LEMMA RoomOnLeaving ==
  ASSUME SearchShape, search.going, limit' = limit, search' = NextBoard, yielded' \in Seq(YieldRow),
         Len(yielded') < limit, IsInjective(yielded'), search.got <= Len(yielded')
  PROVE  RoomInv'
<1> DEFINE total == Len(yielded')
           cap == Cap'
           place == NextBoard
<1>1. limit \in Nat /\ limit > 0 /\ FairShare \in Nat /\ FairShare > 0 /\ FairShare' = FairShare
  BY ShareIs DEF SearchShape, FairShare
<1>2. cap = FairShare \/ cap = limit
  BY <1>1 DEF Cap
<1>3. total \in Nat /\ total < limit
  OBVIOUS
<1>4. search'.got = 0 \/ (search'.got = search.got /\ ~search'.going)
  <2>1. place.got = 0 \/ (place.got = search.got /\ ~place.going)
    BY NextBoardIs
  <2>2. search' = place
    OBVIOUS
  <2> HIDE DEF place
  <2> QED
    BY <2>1, <2>2
<1>7. search.got <= total
  OBVIOUS
<1> HIDE DEF total, cap
<1>5. search'.got <= total /\ (search'.going => total < limit /\ search'.got < cap)
  BY <1>1, <1>2, <1>3, <1>4, <1>7
<1>6. total <= limit
  BY <1>1, <1>3
<1> QED
  BY <1>5, <1>6 DEF RoomInv, total, cap

\* Reading a page keeps to the budget.
LEMMA TakeKeepsRoom ==
  ASSUME SearchShape, RoomInv, search.going, NEW items \in Feeds, TakePage(items), limit' = limit
  PROVE  RoomInv'
<1> DEFINE k == Len(TakenOf(items))
           c == Len(FreshOf(items))
           len == Len(yielded)
           total == Len(yielded')
           cap == Cap'
<1>1. PICK here \in BoardsAsked : here = search.board
  BY DEF SearchShape, Place
<1>2. yielded' = yielded \o [i \in DOMAIN TakenOf(items) |-> Posting(search.board, TakenOf(items)[i])]
  BY PlaceIs
<1>3. yielded' \in Seq(YieldRow) /\ IsInjective(yielded') /\ total = len + k /\ total <= limit
  BY <1>1, <1>2, YieldIs
<1>4. /\ k \in Nat /\ c \in Nat /\ k = IF Room <= c THEN Room ELSE c
  BY TakenIs
<1>5. /\ Room \in Nat /\ Room <= limit - len /\ Room <= Cap - search.got
      /\ len \in Nat /\ limit \in Nat /\ search.got \in Nat /\ Cap \in Nat
  BY RoomIs
<1>6. search.got <= len
  BY DEF RoomInv
<1>7. \/ ~search'.going /\ search'.got = search.got
      \/ /\ len + k < limit /\ c < Room /\ search'.pass = search.pass /\ search'.got = search.got + k
      \/ len + k < limit /\ search' = NextBoard
  <2> HIDE DEF len, k, c
  <2> QED
    BY PlaceIs DEF len, k, c
<1>8. search'.pass = search.pass => cap = Cap
  BY DEF Cap, FairShare
<1> HIDE DEF k, c, len, total, cap
<1>9. CASE ~search'.going /\ search'.got = search.got
  <2>1. search'.got <= total
    BY <1>3, <1>4, <1>5, <1>6, <1>9
  <2> QED
    BY <1>3, <1>9, <2>1 DEF RoomInv, total
<1>10. CASE /\ len + k < limit /\ c < Room /\ search'.pass = search.pass
            /\ search'.got = search.got + k
  <2>1. total < limit /\ search'.got < cap /\ search'.got <= total
    BY <1>3, <1>4, <1>5, <1>6, <1>8, <1>10
  <2> QED
    BY <1>3, <2>1 DEF RoomInv, total, cap
<1>11. CASE len + k < limit /\ search' = NextBoard
  <2>1. total < limit /\ search.got <= total
    BY <1>3, <1>4, <1>5, <1>6, <1>11
  <2> QED
    BY <1>3, <1>11, <2>1, RoomOnLeaving DEF total
<1> QED
  BY <1>7, <1>9, <1>10, <1>11

\* Whom the first pass served, reading on does not unserve.
LEMMA TakeKeepsServed ==
  ASSUME SearchShape, RoomInv, search.going, NEW items \in Feeds, TakePage(items), limit' = limit,
         NEW here \in BoardsAsked, here = search.board,
         NEW b \in BoardsAsked, ShareGiven(b), search.pass = 2 \/ b # here
  PROVE  ShareGiven(b)'
<1> DEFINE old == Cardinality(From(b))
           new == Cardinality(From(b))'
           k == Len(TakenOf(items))
<1>1. yielded' = yielded \o [i \in DOMAIN TakenOf(items) |-> Posting(search.board, TakenOf(items)[i])]
  BY PlaceIs
<1>2. /\ b # here => From(b)' = From(b)
      /\ Cardinality(From(here)') = Cardinality(From(here)) + k
      /\ Got(b) \subseteq Got(b)'
  BY <1>1, YieldIs
<1>3. met'[b] = met[b]
  <2>1. met' = IF search.pass = 1
               THEN [met EXCEPT ![search.board] = @ \cup (ToSet(items) \cap Wanted)] ELSE met
    BY PlaceIs
  <2> QED
    BY <2>1 DEF SearchShape
<1>4. k \in Nat /\ old \in Nat /\ FairShare \in Nat /\ FairShare' = FairShare
  BY TakenIs, FromIs, ShareIs DEF SearchShape, FairShare
<1>5. new = old \/ new = old + k
  BY <1>2
<1> HIDE DEF k, old, new
<1>6. FairShare <= old => FairShare' <= new
  BY <1>4, <1>5
<1> QED
  BY <1>2, <1>3, <1>6 DEF ShareGiven, old, new

\* A board the first pass leaves, with budget to spare, is served.
LEMMA LeftIsServed ==
  ASSUME SearchShape, RoomInv, ShareInv, search.going, NEW items \in Feeds, TakePage(items),
         limit' = limit, NEW here \in BoardsAsked, here = search.board, search.pass = 1,
         Len(yielded) + Len(TakenOf(items)) < limit
  PROVE  ShareGiven(here)'
<1> DEFINE old == Cardinality(From(here))
           new == Cardinality(From(here))'
           k == Len(TakenOf(items))
           c == Len(FreshOf(items))
           len == Len(yielded)
<1>1. yielded' = yielded \o [i \in DOMAIN TakenOf(items) |-> Posting(search.board, TakenOf(items)[i])]
  BY PlaceIs
<1>2. /\ new = old + k
      /\ Got(here) \subseteq Got(here)'
      /\ c <= Room => ToSet(items) \cap Wanted \subseteq Got(here)'
  BY <1>1, YieldIs
<1>3. met'[here] = met[here] \cup (ToSet(items) \cap Wanted)
  <2>1. met' = IF search.pass = 1
               THEN [met EXCEPT ![search.board] = @ \cup (ToSet(items) \cap Wanted)] ELSE met
    BY PlaceIs
  <2> QED
    BY <2>1 DEF SearchShape
<1>4. search.got = old /\ met[here] \subseteq Got(here)
  BY DEF ShareInv
<1>5. /\ k \in Nat /\ c \in Nat /\ k = IF Room <= c THEN Room ELSE c
  BY TakenIs
<1>6. /\ Room \in Nat /\ (Room = limit - len \/ Room = Cap - search.got)
      /\ len \in Nat /\ limit \in Nat /\ search.got \in Nat /\ Cap \in Nat
  BY RoomIs
<1>7. Cap = FairShare /\ FairShare' = FairShare
  BY DEF Cap, FairShare
<1>8. len + k < limit
  OBVIOUS
<1> HIDE DEF old, new, k, c, len
<1>9. CASE c <= Room
  BY <1>2, <1>3, <1>4, <1>9 DEF ShareGiven
<1>10. CASE ~(c <= Room)
  <2>1. FairShare' <= new
    BY <1>2, <1>4, <1>5, <1>6, <1>7, <1>8, <1>10
  <2> QED
    BY <2>1 DEF ShareGiven, new
<1> QED
  BY <1>9, <1>10

\* Reading a page keeps the shares.
LEMMA TakeKeepsShares ==
  ASSUME SearchShape, RoomInv, ShareInv, search.going, NEW items \in Feeds, TakePage(items),
         limit' = limit, lost \subseteq lost'
  PROVE  ShareInv'
<1> DEFINE k == Len(TakenOf(items))
           c == Len(FreshOf(items))
           len == Len(yielded)
<1>1. PICK here \in BoardsAsked : here = search.board
  BY DEF SearchShape, Place
<1>2. yielded' = yielded \o [i \in DOMAIN TakenOf(items) |-> Posting(search.board, TakenOf(items)[i])]
  BY PlaceIs
<1>3. /\ \A b : b # here => From(b)' = From(b)
      /\ Cardinality(From(here)') = Cardinality(From(here)) + k
      /\ \A b : Got(b) \subseteq Got(b)'
      /\ c <= Room => ToSet(items) \cap Wanted \subseteq Got(here)'
  BY <1>1, <1>2, YieldIs
<1>4. /\ search.pass = 1 => met'[here] = met[here] \cup (ToSet(items) \cap Wanted)
      /\ \A b \in BoardsAsked : b # here => met'[b] = met[b]
  <2>1. met' = IF search.pass = 1
               THEN [met EXCEPT ![search.board] = @ \cup (ToSet(items) \cap Wanted)] ELSE met
    BY PlaceIs
  <2> QED
    BY <1>1, <2>1 DEF SearchShape
<1>5. /\ k \in Nat /\ c \in Nat /\ k = IF Room <= c THEN Room ELSE c
  BY TakenIs
<1>6. /\ Room \in Nat /\ Room <= Cap - search.got
      /\ len \in Nat /\ limit \in Nat /\ search.got \in Nat /\ Cap \in Nat
  BY RoomIs
<1>7. FairShare \in Nat /\ FairShare' = FairShare
  BY ShareIs DEF SearchShape, FairShare
<1>8. /\ Len(BoardList) \in Nat /\ BoardsAsked = 1 .. Len(BoardList)
      /\ search.pass \in 1 .. 2 /\ search'.pass \in 1 .. 2
  BY SearchNumbers, PlaceIs DEF SearchShape, Place
<1>9. \/ ~search'.going /\ search'.pass = search.pass /\ search'.board = here
      \/ /\ search'.going /\ search'.pass = search.pass /\ search'.board = here
         /\ c < Room /\ search'.got = search.got + k
      \/ len + k < limit /\ search' = NextBoard
  <2> HIDE DEF len, k, c
  <2> QED
    BY <1>1, PlaceIs DEF len, k, c
<1>10. search' = NextBoard =>
         \/ /\ here < Len(BoardList) /\ search'.going
            /\ search'.board = here + 1 /\ search'.pass = search.pass /\ search'.got = 0
         \/ /\ here = Len(BoardList) /\ search.pass = 1 /\ search'.board = 1 /\ search'.pass = 2
         \/ here = Len(BoardList) /\ search.pass = 2 /\ ~search'.going /\ search'.pass = 2
  <2> DEFINE place == NextBoard
  <2>1. \/ /\ here < Len(BoardList) /\ place.going
           /\ place.board = here + 1 /\ place.pass = search.pass /\ place.got = 0
        \/ /\ here = Len(BoardList) /\ search.pass = 1 /\ place.board = 1 /\ place.pass = 2
        \/ here = Len(BoardList) /\ search.pass = 2 /\ ~place.going /\ place.pass = 2
    BY <1>1, NextBoardIs
  <2> HIDE DEF place
  <2> QED
    BY <2>1 DEF place
<1>11. len + k < limit /\ search.pass = 1 => ShareGiven(here)'
  <2> HIDE DEF len, k
  <2> QED
    BY <1>1, LeftIsServed DEF len, k
<1>12. \A b \in BoardsAsked : ShareGiven(b) /\ (search.pass = 2 \/ b # here) => ShareGiven(b)'
  <2> SUFFICES ASSUME NEW b \in BoardsAsked, ShareGiven(b), search.pass = 2 \/ b # here PROVE ShareGiven(b)'
    OBVIOUS
  <2> QED
    BY <1>1, TakeKeepsServed
<1> HIDE DEF k, c, len
<1>13. search'.pass = 1 => search.pass = 1 /\ (search'.board = here \/ (search'.board = here + 1 /\ search' = NextBoard))
  <2> DEFINE leaves == search' = NextBoard
  <2> SUFFICES ASSUME search'.pass = 1
               PROVE  search.pass = 1 /\ (search'.board = here \/ (search'.board = here + 1 /\ leaves))
    OBVIOUS
  <2>1. leaves => search'.pass = search.pass /\ search'.board = here + 1
    BY <1>8, <1>10
  <2>2. leaves \/ (search'.pass = search.pass /\ search'.board = here)
    BY <1>9
  <2> HIDE DEF leaves
  <2> QED
    BY <2>1, <2>2
<1>14. ASSUME search'.pass = 1, NEW b \in BoardsAsked PROVE Cardinality(From(b)') <= FairShare'
  <2>1. search.pass = 1
    BY <1>13, <1>14
  <2> DEFINE old == Cardinality(From(b))
             new == Cardinality(From(b)')
  <2>2. old <= FairShare /\ old \in Nat
    BY <2>1, FromIs DEF ShareInv
  <2>3. CASE b = here
    <3>1. search.got = old /\ new = old + k /\ Cap = FairShare
      BY <1>1, <1>3, <2>1, <2>3 DEF ShareInv, Cap
    <3> HIDE DEF old, new
    <3>2. new <= FairShare'
      BY <1>5, <1>6, <1>7, <2>2, <3>1
    <3> QED
      BY <3>2 DEF new
  <2>4. CASE b # here
    BY <1>3, <1>7, <2>2, <2>4
  <2> QED
    BY <2>3, <2>4
<1>15. ASSUME search'.pass = 1, NEW b \in BoardsAsked, b > search'.board
       PROVE  From(b)' = {} /\ met'[b] = {}
  <2>1. b > here
    BY <1>8, <1>13, <1>15
  <2>2. From(b) = {} /\ met[b] = {} /\ b # here
    BY <1>1, <1>8, <1>13, <1>15, <2>1 DEF ShareInv
  <2> QED
    BY <1>3, <1>4, <2>2
<1>16. ASSUME search'.pass = 1, search'.going
       PROVE  (search.got = Cardinality(From(search.board)) /\ met[search.board] \subseteq Got(search.board))'
  <2>0. search.pass = 1
    BY <1>13, <1>16
  <2>1. CASE search' = NextBoard
    <3>1. PICK nxt \in BoardsAsked : nxt = search'.board
      BY PlaceIs DEF Place
    <3>2. nxt = here + 1 /\ nxt > here /\ nxt # here /\ search'.got = 0
      BY <1>8, <1>10, <1>16, <2>1, <3>1
    <3>3. From(nxt) = {} /\ met[nxt] = {}
      BY <1>1, <2>0, <3>2 DEF ShareInv
    <3>4. From(nxt)' = {} /\ met'[nxt] = {}
      BY <1>3, <1>4, <3>2, <3>3
    <3>5. Cardinality(From(nxt)') = 0
      BY <3>4, FS_EmptySet
    <3> QED
      BY <3>1, <3>2, <3>4, <3>5 DEF From, Got
  <2>2. CASE search' # NextBoard
    <3>1. search'.board = here /\ c < Room /\ search'.got = search.got + k
      BY <1>9, <1>16, <2>2
    <3>2. search.got = Cardinality(From(here)) /\ met[here] \subseteq Got(here)
      BY <1>1, <2>0 DEF ShareInv
    <3>3. c <= Room
      BY <1>5, <1>6, <3>1
    <3>4. met'[here] \subseteq Got(here)'
      BY <1>3, <1>4, <2>0, <3>2, <3>3
    <3>5. search'.got = Cardinality(From(here)')
      BY <1>3, <3>1, <3>2
    <3> QED
      BY <3>1, <3>4, <3>5 DEF From, Got
  <2> QED
    BY <2>1, <2>2
<1>17. ASSUME NEW b \in BoardsAsked \ lost', search'.pass = 2 \/ b < search'.board PROVE ShareGiven(b)'
  <2>1. b \in BoardsAsked \ lost
    OBVIOUS
  <2>2. CASE search.pass = 2 \/ b < here
    <3>1. ShareGiven(b)
      BY <1>1, <2>1, <2>2 DEF ShareInv
    <3>2. search.pass = 2 \/ b # here
      BY <1>8, <2>2
    <3> QED
      BY <1>12, <3>1, <3>2
  <2>3. CASE ~(search.pass = 2 \/ b < here)
    <3>1. search.pass = 1 /\ b >= here /\ b <= Len(BoardList)
      BY <1>8, <2>3
    <3>2. b = here /\ len + k < limit
      BY <1>8, <1>9, <1>10, <1>17, <3>1
    <3> QED
      BY <1>11, <3>1, <3>2
  <2> QED
    BY <2>2, <2>3
<1> QED
  BY <1>14, <1>15, <1>16, <1>17 DEF ShareInv

\* While no board fails and none changes, reading a page leaves nothing behind.
LEMMA TakeLeavesNothing ==
  ASSUME SearchShape, RoomInv, search.going, TakePage(PageOf(search.board, search.page)),
         limit' = limit, paged' = paged, feed' = feed, Behind
  PROVE  Behind'
<1> DEFINE items == PageOf(search.board, search.page)
           k == Len(TakenOf(items))
           c == Len(FreshOf(items))
           len == Len(yielded)
           total == Len(yielded')
<1>1. PICK here \in BoardsAsked : here = search.board
  BY DEF SearchShape, Place
<1>0. PICK page \in Nat : page = search.page
  BY SearchNumbers DEF SearchShape, Place
<1>30. PICK size \in Nat : size = SizeOfPage
  BY SearchNumbers
<1>2. page \in Nat /\ page > 0 /\ MaxPages \in Nat /\ size \in Nat /\ size > 0 /\ page <= MaxPages
  BY <1>0, <1>30, SearchNumbers DEF SearchShape, Place
<1>3. /\ feed[here] \in Feeds /\ items \in Feeds
      /\ \A m \in DOMAIN feed[here] : (page - 1) * size < m /\ m <= page * size =>
           \E i \in DOMAIN items : items[i] = feed[here][m]
      /\ Len(items) # size => Len(feed[here]) < page * size
      /\ DOMAIN feed[here] = 1 .. Len(feed[here]) /\ Len(feed[here]) \in Nat
  <2>1. feed[here] \in Feeds
    BY DEF SearchShape
  <2>2. LET it == SubSeq(feed[here], (page - 1) * SizeOfPage + 1, Min({page * SizeOfPage, Len(feed[here])}))
        IN /\ it \in Feeds
           /\ \A m \in DOMAIN feed[here] : (page - 1) * SizeOfPage < m /\ m <= page * SizeOfPage =>
                \E i \in DOMAIN it : it[i] = feed[here][m]
           /\ Len(it) # SizeOfPage => Len(feed[here]) < page * SizeOfPage
    <3>1. page \in Nat \ {0}
      BY <1>2
    <3> QED
      BY <2>1, <3>1, PageIs
  <2>3. items = SubSeq(feed[here], (page - 1) * SizeOfPage + 1, Min({page * SizeOfPage, Len(feed[here])}))
    BY <1>0, <1>1 DEF PageOf
  <2>4. DOMAIN feed[here] = 1 .. Len(feed[here]) /\ Len(feed[here]) \in Nat
    BY <2>1, FeedsAre
  <2> HIDE DEF items
  <2> QED
    BY <1>30, <2>1, <2>2, <2>3, <2>4, Zenon
<1>4. TakePage(items)
  OBVIOUS
<1> HIDE DEF items
<1>5. yielded' = yielded \o [i \in DOMAIN TakenOf(items) |-> Posting(search.board, TakenOf(items)[i])]
  BY <1>3, <1>4, PlaceIs
<1>6. /\ total = len + k
      /\ \A b : Got(b) \subseteq Got(b)'
      /\ c <= Room => ToSet(items) \cap Wanted \subseteq Got(here)'
  BY <1>1, <1>3, <1>5, YieldIs
<1>7. /\ k \in Nat /\ c \in Nat /\ k = IF Room <= c THEN Room ELSE c
  BY <1>3, TakenIs
<1>8. /\ Room \in Nat /\ Room <= limit - len /\ (Room = limit - len \/ Room = Cap - search.got)
      /\ len \in Nat /\ limit \in Nat /\ search.got \in Nat /\ Cap \in Nat
  BY RoomIs
<1>9. search.got <= len /\ (search.pass = 2 => Cap = limit)
  BY DEF RoomInv, Cap
<1>10. \/ len + k >= limit /\ ~search'.going
       \/ /\ len + k < limit /\ c < Room
          /\ search'.going /\ search'.pass = search.pass /\ search'.board = here /\ search'.page = page + 1
       \/ /\ len + k < limit
          /\ Room <= c \/ Len(items) # size \/ page = MaxPages
          /\ search' = NextBoard
  <2> HIDE DEF len, k, c
  <2> QED
    BY <1>0, <1>30, <1>1, <1>3, <1>4, PlaceIs DEF len, k, c
<1>11. search' = NextBoard =>
         \/ /\ here < Len(BoardList) /\ search'.going /\ search'.page = 1
            /\ search'.board = here + 1 /\ search'.pass = search.pass
         \/ /\ here = Len(BoardList) /\ search.pass = 1 /\ search'.board = 1 /\ search'.pass = 2
            /\ search'.going /\ search'.page = 1
         \/ here = Len(BoardList) /\ search.pass = 2 /\ ~search'.going /\ search'.pass = 2
  <2> DEFINE place == NextBoard
  <2>1. \/ /\ here < Len(BoardList) /\ place.going /\ place.page = 1
           /\ place.board = here + 1 /\ place.pass = search.pass
        \/ /\ here = Len(BoardList) /\ search.pass = 1 /\ place.board = 1 /\ place.pass = 2
           /\ place.going /\ place.page = 1
        \/ here = Len(BoardList) /\ search.pass = 2 /\ ~place.going /\ place.pass = 2
    BY <1>1, NextBoardIs
  <2> HIDE DEF place
  <2> QED
    BY <2>1 DEF place
<1>12. SizeOfPage' = size
  BY <1>30 DEF SizeOfPage
<1>13. ASSUME NEW b, NEW n PROVE /\ Upto(b, n) <=> \A m \in DOMAIN feed[b] :
                                   m <= n * size /\ feed[b][m] \in Wanted => feed[b][m] \in Got(b)
                                 /\ Upto(b, n)' <=> \A m \in DOMAIN feed[b] :
                                   m <= n * size /\ feed[b][m] \in Wanted => feed[b][m] \in Got(b)'
  <2>1. Upto(b, n) <=> \A m \in DOMAIN feed[b] :
          m <= n * size /\ feed[b][m] \in Wanted => feed[b][m] \in Got(b)
    BY <1>30 DEF Upto, Got
  <2>2. Upto(b, n)' <=> \A m \in DOMAIN feed[b] :
          m <= n * size /\ feed[b][m] \in Wanted => feed[b][m] \in Got(b)'
    BY <1>12 DEF Upto, Got
  <2> QED
    BY <2>1, <2>2
<1> HIDE DEF len, k, c, total
<1>14. \A b, n : Upto(b, n) => Upto(b, n)'
  <2> SUFFICES ASSUME NEW b, NEW n, Upto(b, n) PROVE Upto(b, n)'
    OBVIOUS
  <2> QED
    BY <1>6, <1>13
<1>15. ASSUME c <= Room, Upto(here, page - 1) PROVE Upto(here, page)'
  <2> SUFFICES ASSUME NEW m \in DOMAIN feed[here], m <= page * size, feed[here][m] \in Wanted
               PROVE  feed[here][m] \in Got(here)'
    BY <1>13
  <2>1. CASE m <= (page - 1) * size
    BY <1>6, <1>13, <1>15, <2>1
  <2>2. CASE ~(m <= (page - 1) * size)
    <3>1. (page - 1) * size \in Int /\ m \in Int
      <4>1. page - 1 \in Int
        BY <1>2
      <4>2. m \in Int
        BY <1>3
      <4> QED
        BY <1>2, <4>1, <4>2
    <3> DEFINE low == (page - 1) * size
    <3>2. low < m
      <4>1. low \in Int /\ ~(m <= low)
        BY <2>2, <3>1
      <4> HIDE DEF low
      <4> QED
        BY <3>1, <4>1
    <3>3. PICK i \in DOMAIN items : items[i] = feed[here][m]
      BY <1>3, <3>2
    <3> QED
      BY <1>6, <1>15, <3>3 DEF ToSet
  <2> QED
    BY <2>1, <2>2
<1>16. ASSUME Upto(here, page)', Len(items) # size \/ page = MaxPages PROVE Upto(here, MaxPages)'
  <2>1. CASE page = MaxPages
    BY <1>16, <2>1
  <2>2. CASE Len(items) # size
    <3> SUFFICES ASSUME NEW m \in DOMAIN feed[here], feed[here][m] \in Wanted
                 PROVE  feed[here][m] \in Got(here)'
      BY <1>13
    <3> DEFINE high == page * size
    <3>1. high \in Int
      BY <1>2
    <3>2. Len(feed[here]) < high /\ m \in 1 .. Len(feed[here]) /\ Len(feed[here]) \in Nat
      BY <1>3, <2>2
    <3> HIDE DEF high
    <3>3. m <= high
      BY <3>1, <3>2
    <3> QED
      BY <1>13, <1>16, <3>3 DEF high
  <2> QED
    BY <1>16, <2>1, <2>2
<1>17. \A b \in BoardsAsked : Upto(b, 0)'
  <2> SUFFICES ASSUME NEW b \in BoardsAsked, NEW m \in DOMAIN feed[b], m <= 0 * size, feed[b][m] \in Wanted
               PROVE  feed[b][m] \in Got(b)'
    BY <1>13
  <2>1. 0 * size = 0 /\ DOMAIN feed[b] = 1 .. Len(feed[b])
    BY <1>2, FeedsAre DEF SearchShape
  <2> QED
    BY <2>1
<1>18. /\ Len(BoardList) \in Nat /\ BoardsAsked = 1 .. Len(BoardList)
       /\ search.pass \in 1 .. 2
  BY SearchNumbers DEF SearchShape, Place
<1>19. ASSUME search.pass = 2, len + k < limit PROVE c < Room
  BY <1>7, <1>8, <1>9, <1>19
<1>20. search.pass = 2 => /\ \A b \in BoardsAsked : b < here => Upto(b, MaxPages)
                          /\ Upto(here, page - 1)
  BY <1>0, <1>1 DEF Behind
<1>21. search.pass = 2 /\ len + k < limit => Upto(here, page)'
  <2> SUFFICES ASSUME search.pass = 2, len + k < limit PROVE Upto(here, page)'
    OBVIOUS
  <2>1. c <= Room
    BY <1>7, <1>8, <1>19
  <2> QED
    BY <1>15, <1>20, <2>1
<1>22. ASSUME search' = NextBoard, search.pass = 2, len + k < limit
       PROVE  \A b \in BoardsAsked : b <= here => Upto(b, MaxPages)'
  <2>1. Len(items) # size \/ page = MaxPages
    <3>1. len + k \in Nat /\ here \in Nat
      BY <1>7, <1>8, <1>18
    <3>2. ~search'.going \/ search'.board = here + 1
      BY <1>11, <1>22
    <3>3. Room <= c \/ Len(items) # size \/ page = MaxPages
      BY <1>8, <1>10, <1>22, <3>1, <3>2
    <3> QED
      BY <1>7, <1>8, <1>19, <1>22, <3>3
  <2>2. Upto(here, MaxPages)'
    BY <1>16, <1>21, <1>22, <2>1
  <2>3. \A b \in BoardsAsked : b <= here => b < here \/ b = here
    BY <1>18
  <2> QED
    BY <1>14, <1>20, <1>22, <2>2, <2>3
<1>23. ASSUME search'.going, search'.pass = 2
       PROVE  /\ \A b \in BoardsAsked : b < search'.board => Upto(b, MaxPages)'
              /\ Upto(search.board, search.page - 1)'
  <2>1. CASE search' = NextBoard
    <3>1. CASE search.pass = 2
      <4>1. search'.board = here + 1 /\ search'.page = 1
        BY <1>11, <1>18, <1>23, <2>1, <3>1
      <4>2. len + k < limit
        BY <1>7, <1>8, <1>10, <1>23
      <4>3. \A b \in BoardsAsked : b < here + 1 => b <= here
        BY <1>18
      <4>4. Upto(here + 1, 0)'
        <5>1. here + 1 \in BoardsAsked
          BY <1>11, <1>18, <1>23, <2>1, <3>1
        <5> QED
          BY <1>17, <5>1
      <4>5. search'.page - 1 = 0
        BY <4>1
      <4> QED
        BY <1>22, <2>1, <3>1, <4>1, <4>2, <4>3, <4>4, <4>5 DEF Upto
    <3>2. CASE search.pass # 2
      <4>1. search'.board = 1 /\ search'.page = 1
        BY <1>11, <1>18, <1>23, <2>1, <3>2
      <4>2. search'.page - 1 = 0 /\ \A b \in BoardsAsked : ~(b < 1)
        BY <1>18, <4>1
      <4>3. Upto(1, 0)'
        <5>1. 1 \in BoardsAsked
          BY <1>18
        <5> QED
          BY <1>17, <5>1
      <4> QED
        BY <4>1, <4>2, <4>3 DEF Upto
    <3> QED
      BY <3>1, <3>2
  <2>2. CASE search' # NextBoard
    <3>1. /\ search'.pass = search.pass /\ search'.board = here /\ search'.page = page + 1
          /\ len + k < limit
      BY <1>10, <1>23, <2>2
    <3>2. search'.page - 1 = page
      BY <1>2, <3>1
    <3>3. \A b \in BoardsAsked : b < here => Upto(b, MaxPages)'
      BY <1>14, <1>20, <1>23, <3>1
    <3>4. Upto(here, page)'
      BY <1>21, <1>23, <3>1
    <3> QED
      BY <3>1, <3>2, <3>3, <3>4 DEF Upto
  <2> QED
    BY <2>1, <2>2
<1>24. ASSUME ~search'.going, total < limit, NEW b \in BoardsAsked PROVE Upto(b, MaxPages)'
  <2>1. search' = NextBoard /\ len + k < limit
    BY <1>6, <1>7, <1>8, <1>10, <1>24
  <2>2. search.pass = 2 /\ here = Len(BoardList)
    BY <1>11, <1>24, <2>1
  <2>3. b <= here
    BY <1>18, <2>2
  <2> QED
    BY <1>22, <2>1, <2>2, <2>3
<1> QED
  BY <1>23, <1>24 DEF Behind, total
-----------------------------------------------------------------------------
\* One search, whatever the boards answer.
SearchInv == SearchShape /\ RoomInv /\ ShareInv /\ ReadInv

\* What holds when a search starts.
LEMMA SearchInvInit == SearchInit => SearchInv
<1> SUFFICES ASSUME SearchInit PROVE SearchInv
  OBVIOUS
<1>1. limit \in Nat /\ limit > 0 /\ FairShare \in Nat /\ FairShare > 0
  BY ShareIs DEF SearchInit
<1>2. SearchShape
  <2>1. <<>> \in Cached
    <3>1. <<>> \in [{} -> Feeds] /\ {} \in SUBSET (1 .. MaxPages)
      OBVIOUS
    <3> QED
      BY <3>1 DEF Cached
  <2>2. search \in Place
    <3>1. 1 \in BoardsAsked /\ 1 \in 1 .. MaxPages /\ 1 \in 1 .. MaxAttempts
      BY SearchNumbers
    <3> QED
      BY <3>1 DEF SearchInit, Place
  <2>3. 0 \in 0 .. MaxBoardChanges
    BY SearchNumbers
  <2>4. /\ paged \in BOOLEAN /\ limit \in Limits /\ feed \in [BoardsAsked -> Feeds]
        /\ yielded \in Seq(YieldRow) /\ lost \subseteq BoardsAsked /\ changed = 0
    BY DEF SearchInit
  <2>5. pages \in [BoardsAsked -> Cached] /\ met \in [BoardsAsked -> SUBSET Wanted]
    BY <2>1 DEF SearchInit
  <2> QED
    BY <2>2, <2>3, <2>4, <2>5 DEF SearchShape
<1>3. /\ yielded = <<>> /\ Len(yielded) = 0 /\ search.going /\ search.pass = 1 /\ search.board = 1
      /\ search.got = 0
  BY DEF SearchInit
<1>4. RoomInv
  BY <1>1, <1>3 DEF RoomInv, IsInjective, Cap
<1>5. \A b : From(b) = {}
  BY <1>3 DEF From
<1>6. \A b : Cardinality(From(b)) = 0
  BY <1>5, FS_EmptySet
<1>7. ShareInv
  <2>1. \A b \in BoardsAsked : ~(b < 1) /\ met[b] = {}
    BY SearchNumbers DEF SearchInit
  <2>2. 1 \in BoardsAsked
    BY SearchNumbers
  <2> QED
    BY <1>1, <1>3, <1>5, <1>6, <2>1, <2>2 DEF ShareInv
<1>8. ReadInv
  <2>1. \A b \in BoardsAsked : DOMAIN pages[b] = {}
    BY DEF SearchInit
  <2> QED
    BY <1>3, <2>1 DEF ReadInv, Behind
<1> QED
  BY <1>2, <1>4, <1>7, <1>8 DEF SearchInv

\* Reading a page, from the cache or from the board.
LEMMA TakeKeepsShape ==
  ASSUME SearchInv, search.going, NEW items \in Feeds, TakePage(items),
         paged' = paged, limit' = limit, feed' = feed, changed' = changed,
         pages' \in [BoardsAsked -> Cached], lost' \subseteq BoardsAsked, lost \subseteq lost'
  PROVE  SearchShape' /\ RoomInv' /\ ShareInv'
<1>1. SearchShape /\ RoomInv /\ ShareInv
  BY DEF SearchInv
<1>2. RoomInv' /\ ShareInv'
  BY <1>1, TakeKeepsRoom, TakeKeepsShares
<1>3. yielded' = yielded \o [i \in DOMAIN TakenOf(items) |-> Posting(search.board, TakenOf(items)[i])]
  BY <1>1, PlaceIs
<1>4. yielded' \in Seq(YieldRow)
  <2>1. PICK here \in BoardsAsked : here = search.board
    BY <1>1 DEF SearchShape, Place
  <2> QED
    BY <1>1, <1>3, <2>1, YieldIs
<1>5. search' \in Place
  BY <1>1, PlaceIs
<1>6. met' \in [BoardsAsked -> SUBSET Wanted]
  <2>1. met' = IF search.pass = 1
               THEN [met EXCEPT ![search.board] = @ \cup (ToSet(items) \cap Wanted)] ELSE met
    BY <1>1, PlaceIs
  <2> QED
    BY <1>1, <2>1 DEF SearchShape
<1>7. SearchShape'
  <2>1. YieldRow' = YieldRow /\ Place' = Place /\ Cached' = Cached /\ Feeds' = Feeds
    BY DEF YieldRow, Place, Cached, Feeds
  <2> QED
    BY <1>1, <1>4, <1>5, <1>6, <2>1 DEF SearchShape
<1> QED
  BY <1>2, <1>7

\* What a board lists on a page is a feed, and a page stored is there.
LEMMA StoreIs ==
  ASSUME SearchShape, NEW items \in Feeds, Store(items)
  PROVE  /\ pages' \in [BoardsAsked -> Cached]
         /\ \A b \in BoardsAsked : b # search.board => pages'[b] = pages[b]
         /\ DOMAIN pages'[search.board] = DOMAIN pages[search.board] \cup {search.page}
         /\ \A n \in DOMAIN pages'[search.board] :
              pages'[search.board][n] = IF n = search.page THEN items ELSE pages[search.board][n]
<1>1. PICK here \in BoardsAsked, page \in 1 .. MaxPages : here = search.board /\ page = search.page
  BY DEF SearchShape, Place
<1>2. pages \in [BoardsAsked -> Cached]
  BY DEF SearchShape
<1>3. PICK D \in SUBSET (1 .. MaxPages) : pages[here] \in [D -> Feeds]
  BY <1>2 DEF Cached
<1> DEFINE new == [n \in D \cup {page} |-> IF n = page THEN items ELSE pages[here][n]]
<1>4. pages' = [pages EXCEPT ![here] = new]
  BY <1>1, <1>3 DEF Store
<1>5. new \in [D \cup {page} -> Feeds] /\ D \cup {page} \in SUBSET (1 .. MaxPages)
  BY <1>3
<1>6. /\ DOMAIN new = D \cup {page}
      /\ \A n \in D \cup {page} : new[n] = IF n = page THEN items ELSE pages[here][n]
  OBVIOUS
<1> HIDE DEF new
<1>7. new \in Cached
  BY <1>5 DEF Cached
<1> QED
  BY <1>1, <1>2, <1>3, <1>4, <1>6, <1>7

\* Reading what a board answers keeps what is cached and what is left behind.
LEMMA PageOfIs ==
  ASSUME SearchShape
  PROVE  PageOf(search.board, search.page) \in Feeds /\ search.board \in BoardsAsked
<1>1. PICK here \in BoardsAsked, page \in Nat \ {0} : here = search.board /\ page = search.page
  BY SearchNumbers DEF SearchShape, Place
<1>2. feed[here] \in Feeds
  BY DEF SearchShape
<1>3. SubSeq(feed[here], (page - 1) * SizeOfPage + 1, Min({page * SizeOfPage, Len(feed[here])})) \in Feeds
  BY <1>2, PageIs
<1> QED
  BY <1>1, <1>3 DEF PageOf

\* Whatever a page of the first or the second pass reads, the invariant is kept.
LEMMA PageKeepsRead ==
  ASSUME SearchInv, search.going, UNCHANGED <<paged, limit, feed, lost, changed>>,
         TakePage(PageOf(search.board, search.page)), lost = {}, changed = 0,
         \A b \in BoardsAsked : \A n \in DOMAIN pages'[b] : pages'[b][n] = PageOf(b, n)
  PROVE  ReadInv'
<1>1. SearchShape /\ RoomInv /\ Behind
  BY DEF SearchInv, ReadInv
<1>2. Behind'
  BY <1>1, TakeLeavesNothing
<1>3. \A b, n : PageOf(b, n)' = PageOf(b, n)
  BY DEF PageOf, SizeOfPage
<1>4. \A b \in BoardsAsked : \A n \in DOMAIN pages'[b] : pages'[b][n] = PageOf(b, n)'
  BY <1>3
<1>5. BoardsAsked' = BoardsAsked
  BY DEF BoardsAsked
<1> QED
  BY <1>2, <1>4, <1>5 DEF ReadInv

\* A board that is given up is lost, and the search goes on with the others.
LEMMA LeavingKeepsShares ==
  ASSUME SearchShape, ShareInv, search.going, search' = NextBoard, lost' = lost \cup {search.board},
         UNCHANGED <<limit, yielded, met>>
  PROVE  ShareInv'
<1>1. PICK here \in BoardsAsked : here = search.board
  BY DEF SearchShape, Place
<1>2. /\ Len(BoardList) \in Nat /\ BoardsAsked = 1 .. Len(BoardList)
      /\ search.pass \in 1 .. 2 /\ BoardsAsked' = BoardsAsked
  BY SearchNumbers DEF SearchShape, Place, BoardsAsked
<1>3. \/ /\ here < Len(BoardList) /\ search'.board = here + 1 /\ search'.pass = search.pass
         /\ search'.got = 0
      \/ here = Len(BoardList) /\ search'.pass = 2
  <2> DEFINE place == NextBoard
  <2>1. \/ /\ here < Len(BoardList) /\ place.board = here + 1 /\ place.pass = search.pass
           /\ place.got = 0
        \/ here = Len(BoardList) /\ place.pass = 2
    BY <1>1, NextBoardIs
  <2>2. search' = place
    OBVIOUS
  <2> HIDE DEF place
  <2> QED
    BY <2>1, <2>2
<1>4. /\ FairShare' = FairShare /\ \A b : ShareGiven(b)' <=> ShareGiven(b)
      /\ \A b : From(b)' = From(b) /\ Got(b)' = Got(b)
  <2>1. FairShare' = FairShare /\ \A b : From(b)' = From(b) /\ Got(b)' = Got(b)
    BY DEF FairShare, From, Got
  <2> QED
    BY <2>1 DEF ShareGiven
<1>5. ASSUME search'.pass = 1, NEW b \in BoardsAsked
      PROVE  /\ Cardinality(From(b)') <= FairShare'
             /\ b > search'.board => From(b)' = {} /\ met'[b] = {}
  <2>1. search.pass = 1 /\ search'.board = here + 1
    BY <1>3, <1>5
  <2>2. b > here + 1 => b > here
    BY <1>2
  <2> QED
    BY <1>1, <1>4, <2>1, <2>2 DEF ShareInv
<1>6. ASSUME search'.pass = 1
      PROVE  (search.got = Cardinality(From(search.board)) /\ met[search.board] \subseteq Got(search.board))'
  <2>1. search.pass = 1 /\ search'.board = here + 1 /\ search'.got = 0 /\ here < Len(BoardList)
    BY <1>3, <1>6
  <2>2. PICK nxt \in BoardsAsked : nxt = here + 1
    BY <1>2, <2>1
  <2>3. nxt > here
    BY <1>2, <2>2
  <2>4. From(nxt) = {} /\ met[nxt] = {}
    BY <1>1, <2>1, <2>3 DEF ShareInv
  <2>5. From(nxt)' = {} /\ met'[nxt] = {} /\ Cardinality(From(nxt)') = 0
    BY <1>4, <2>4, FS_EmptySet
  <2> QED
    BY <2>1, <2>2, <2>5 DEF From, Got
<1>7. ASSUME NEW b \in BoardsAsked \ lost', search'.pass = 2 \/ b < search'.board PROVE ShareGiven(b)'
  <2>1. b \in BoardsAsked \ lost /\ b # here
    BY <1>1
  <2>2. search.pass = 2 \/ b < here
    BY <1>2, <1>3, <1>7, <2>1
  <2> QED
    BY <1>1, <1>4, <2>1, <2>2 DEF ShareInv
<1> QED
  BY <1>2, <1>5, <1>6, <1>7 DEF ShareInv

\* A step that leaves the search where it is.
LEMMA StayingKeeps ==
  ASSUME SearchInv, UNCHANGED <<limit, yielded, met, lost>>,
         search'.going = search.going, search'.pass = search.pass, search'.board = search.board,
         search'.page = search.page, search'.got = search.got
  PROVE  RoomInv' /\ ShareInv'
<1>1. FairShare' = FairShare /\ \A b : From(b)' = From(b) /\ Got(b)' = Got(b)
  BY DEF FairShare, From, Got
<1>2. BoardsAsked' = BoardsAsked /\ Cap' = Cap /\ \A b : ShareGiven(b)' <=> ShareGiven(b)
  BY <1>1 DEF ShareGiven, BoardsAsked, Cap
<1>3. RoomInv'
  BY <1>2 DEF SearchInv, RoomInv
<1>4. ShareInv'
  <2>1. \A b \in BoardsAsked : Cardinality(From(b))' = Cardinality(From(b))
    BY <1>1
  <2>2. From(search.board)' = From(search.board) /\ Got(search.board)' = Got(search.board)
    BY DEF From, Got
  <2> QED
    BY <1>1, <1>2, <2>1, <2>2 DEF SearchInv, ShareInv
<1> QED
  BY <1>3, <1>4

\* A board that withdraws a posting lists the others.
LEMMA WithdrawnIs ==
  ASSUME NEW s \in Feeds, NEW j
  PROVE  Subsequence(s, {i \in DOMAIN s : s[i] # j}) \in Feeds
<1> DEFINE P == {i \in DOMAIN s : s[i] # j}
           sub == Subsequence(s, P)
           c == Cardinality(P)
<1>1. s \in Seq(Jobs) /\ \A m, n \in DOMAIN s : s[m] = s[n] => m = n
  BY FeedsAre DEF IsInjective
<1>2. P \subseteq DOMAIN s
  OBVIOUS
<1> HIDE DEF P
<1>3. \A m, n \in P : s[m] = s[n] => m = n
  BY <1>1, <1>2
<1>4. s \in Seq(Jobs)
  BY <1>1
<1>5. /\ c \in Nat /\ sub \in Seq(Jobs) /\ Len(sub) = c /\ DOMAIN sub = 1 .. c
      /\ \A n \in 1 .. c : \E i \in P : sub[n] = s[i]
      /\ \A i \in P : \E n \in 1 .. c : sub[n] = s[i]
      /\ \A m, n \in 1 .. c : sub[m] = sub[n] => m = n
  BY <1>2, <1>3, <1>4, SubsequenceIs
<1> HIDE DEF sub
<1>6. sub \in Feeds
  BY <1>5, FeedsAre DEF IsInjective
<1> QED
  BY <1>6 DEF sub, P

\* Every step of a search keeps its invariant.
LEMMA SearchInvStep == SearchInv /\ [SearchNext]_searchVars => SearchInv'
<1> SUFFICES ASSUME SearchInv, [SearchNext]_searchVars PROVE SearchInv'
  OBVIOUS
<1>1. SearchShape /\ RoomInv /\ ShareInv /\ ReadInv
  BY DEF SearchInv
<1>2. /\ YieldRow' = YieldRow /\ Place' = Place /\ Cached' = Cached /\ Feeds' = Feeds /\ BoardsAsked' = BoardsAsked
  BY DEF YieldRow, Place, Cached, Feeds, BoardsAsked
<1>3. CASE ReadCached
  <2>1. /\ search.going /\ UNCHANGED <<paged, limit, feed, pages, lost, changed>>
        /\ search.page \in DOMAIN pages[search.board]
        /\ TakePage(pages[search.board][search.page])
    BY <1>3, Zenon DEF ReadCached
  <2>2. PICK here \in BoardsAsked : here = search.board
    BY <1>1 DEF SearchShape, Place
  <2>3. pages[here] \in Cached
    BY <1>1 DEF SearchShape
  <2>4. pages[here][search.page] \in Feeds
    BY <2>1, <2>2, <2>3 DEF Cached
  <2>5. SearchShape' /\ RoomInv' /\ ShareInv'
    <3>1. pages' \in [BoardsAsked -> Cached] /\ lost' \subseteq BoardsAsked /\ lost \subseteq lost'
      BY <1>1, <2>1 DEF SearchShape
    <3>2. pages[search.board][search.page] \in Feeds
      BY <2>2, <2>4
    <3> QED
      BY <2>1, <3>1, <3>2, TakeKeepsShape
  <2>6. ReadInv'
    <3>1. CASE lost = {} /\ changed = 0
      <4>1. \A b \in BoardsAsked : \A n \in DOMAIN pages[b] : pages[b][n] = PageOf(b, n)
        BY <1>1, <3>1 DEF ReadInv
      <4>2. TakePage(PageOf(search.board, search.page))
        <5>1. pages[search.board][search.page] = PageOf(search.board, search.page)
          BY <2>1, <2>2, <4>1
        <5> QED
          BY <2>1, <5>1
      <4>3. \A b \in BoardsAsked : \A n \in DOMAIN pages'[b] : pages'[b][n] = PageOf(b, n)
        BY <2>1, <4>1
      <4>4. UNCHANGED <<paged, limit, feed, lost, changed>>
        BY <2>1
      <4> QED
        BY <2>1, <3>1, <4>2, <4>3, <4>4, PageKeepsRead
    <3>2. CASE ~(lost = {} /\ changed = 0)
      BY <2>1, <3>2 DEF ReadInv
    <3> QED
      BY <3>1, <3>2
  <2> QED
    BY <2>5, <2>6 DEF SearchInv
<1>4. CASE ReadAnswered
  <2>1. /\ search.going /\ UNCHANGED <<paged, limit, feed, lost, changed>>
        /\ Store(PageOf(search.board, search.page))
        /\ TakePage(PageOf(search.board, search.page))
    BY <1>4, Zenon DEF ReadAnswered, Asking
  <2>2. PageOf(search.board, search.page) \in Feeds /\ search.board \in BoardsAsked
    BY <1>1, PageOfIs
  <2>3. /\ pages' \in [BoardsAsked -> Cached]
        /\ \A b \in BoardsAsked : b # search.board => pages'[b] = pages[b]
        /\ DOMAIN pages'[search.board] = DOMAIN pages[search.board] \cup {search.page}
        /\ \A n \in DOMAIN pages'[search.board] :
             pages'[search.board][n] = IF n = search.page THEN PageOf(search.board, search.page)
                                       ELSE pages[search.board][n]
    BY <1>1, <2>1, <2>2, StoreIs
  <2>4. SearchShape' /\ RoomInv' /\ ShareInv'
    <3>1. lost' \subseteq BoardsAsked /\ lost \subseteq lost'
      BY <1>1, <2>1 DEF SearchShape
    <3> QED
      BY <2>1, <2>2, <2>3, <3>1, TakeKeepsShape
  <2>5. ReadInv'
    <3>1. CASE lost = {} /\ changed = 0
      <4>1. \A b \in BoardsAsked : \A n \in DOMAIN pages[b] : pages[b][n] = PageOf(b, n)
        BY <1>1, <3>1 DEF ReadInv
      <4>2. \A b \in BoardsAsked : \A n \in DOMAIN pages'[b] : pages'[b][n] = PageOf(b, n)
        BY <2>2, <2>3, <4>1
      <4> QED
        BY <2>1, <3>1, <4>2, PageKeepsRead
    <3>2. CASE ~(lost = {} /\ changed = 0)
      BY <2>1, <3>2 DEF ReadInv
    <3> QED
      BY <3>1, <3>2
  <2> QED
    BY <2>4, <2>5 DEF SearchInv
<1>5. CASE ReadMalformed
  <2>1. /\ search.going /\ UNCHANGED <<paged, limit, feed, changed>>
        /\ Store(<<>>) /\ TakePage(<<>>) /\ lost' = lost \cup {search.board}
    BY <1>5, Zenon DEF ReadMalformed, Asking
  <2>2. <<>> \in Feeds /\ search.board \in BoardsAsked
    BY <1>1, FeedsAre DEF IsInjective, SearchShape, Place
  <2>3. pages' \in [BoardsAsked -> Cached]
    BY <1>1, <2>1, <2>2, StoreIs
  <2>4. SearchShape' /\ RoomInv' /\ ShareInv'
    <3>1. lost' \subseteq BoardsAsked /\ lost \subseteq lost'
      BY <1>1, <2>1, <2>2 DEF SearchShape
    <3> QED
      BY <2>1, <2>2, <2>3, <3>1, TakeKeepsShape
  <2>5. ReadInv'
    BY <2>1 DEF ReadInv
  <2> QED
    BY <2>4, <2>5 DEF SearchInv
<1>6. CASE Retry
  <2>1. /\ search.tries < MaxAttempts /\ search' = [search EXCEPT !.tries = @ + 1]
        /\ UNCHANGED <<paged, limit, feed, pages, yielded, met, lost, changed>>
    BY <1>6 DEF Retry
  <2>2. /\ search' \in Place
        /\ search'.going = search.going /\ search'.pass = search.pass /\ search'.board = search.board
        /\ search'.page = search.page /\ search'.got = search.got
    <3>1. search.tries + 1 \in 1 .. MaxAttempts /\ search \in Place
      BY <1>1, <2>1, SearchNumbers DEF SearchShape, Place
    <3> QED
      BY <2>1, <3>1 DEF Place
  <2>3. RoomInv' /\ ShareInv'
    BY <2>1, <2>2, StayingKeeps
  <2>4. SearchShape'
    BY <1>1, <1>2, <2>1, <2>2 DEF SearchShape
  <2>5. ReadInv'
    <3>1. \A b, n : PageOf(b, n)' = PageOf(b, n) /\ (Upto(b, n)' <=> Upto(b, n))
      BY <2>1 DEF PageOf, Upto, SizeOfPage
    <3>2. Upto(search.board, search.page - 1)' <=> Upto(search.board, search.page - 1)
      BY <2>1, <2>2 DEF Upto, SizeOfPage
    <3> QED
      BY <1>1, <1>2, <2>1, <2>2, <3>1, <3>2 DEF ReadInv, Behind
  <2> QED
    BY <2>3, <2>4, <2>5 DEF SearchInv
<1>7. CASE BoardFails
  <2>1. /\ search.going /\ lost' = lost \cup {search.board} /\ search' = NextBoard
        /\ UNCHANGED <<paged, limit, feed, pages, yielded, met, changed>>
    BY <1>7 DEF BoardFails, Asking
  <2>2. RoomInv'
    <3>1. Len(yielded') < limit /\ IsInjective(yielded') /\ search.got <= Len(yielded') /\ yielded' \in Seq(YieldRow)
      BY <1>1, <2>1 DEF RoomInv, SearchShape
    <3> QED
      BY <1>1, <2>1, <3>1, RoomOnLeaving
  <2>3. ShareInv'
    BY <1>1, <2>1, LeavingKeepsShares
  <2>4. SearchShape'
    <3>1. search' \in Place
      BY <1>1, <2>1, NextBoardIs
    <3>2. lost' \subseteq BoardsAsked
      BY <1>1, <2>1 DEF SearchShape, Place
    <3> QED
      BY <1>1, <1>2, <2>1, <3>1, <3>2 DEF SearchShape
  <2>5. ReadInv'
    BY <2>1 DEF ReadInv
  <2> QED
    BY <2>2, <2>3, <2>4, <2>5 DEF SearchInv
<1>8. CASE BoardChanges
  <2>1. PICK b \in BoardsAsked, j \in Jobs :
          /\ changed < MaxBoardChanges /\ changed' = changed + 1
          /\ feed' = [feed EXCEPT ![b] = IF j \in ToSet(@)
                                         THEN Subsequence(@, {i \in DOMAIN @ : @[i] # j})
                                         ELSE <<j>> \o @]
          /\ UNCHANGED <<paged, limit, pages, search, yielded, met, lost>>
    BY <1>8 DEF BoardChanges
  <2> DEFINE s == feed[b]
             rest == Subsequence(s, {i \in DOMAIN s : s[i] # j})
             more == <<j>> \o s
  <2>2. s \in Seq(Jobs) /\ (\A m, n \in DOMAIN s : s[m] = s[n] => m = n) /\ DOMAIN s = 1 .. Len(s)
    BY <1>1, FeedsAre DEF SearchShape, IsInjective
  <2>3. rest \in Feeds
    <3>1. s \in Feeds
      BY <1>1 DEF SearchShape
    <3> HIDE DEF s
    <3> QED
      BY <3>1, WithdrawnIs
  <2>4. ASSUME j \notin ToSet(s) PROVE more \in Feeds
    <3> DEFINE len == Len(s)
    <3>1. \A n \in 1 .. len : s[n] # j
      BY <2>2, <2>4 DEF ToSet
    <3> HIDE DEF s
    <3>2. /\ more \in Seq(Jobs) /\ DOMAIN more = 1 .. (1 + len) /\ len \in Nat
          /\ \A n \in 1 .. (1 + len) : more[n] = IF n = 1 THEN j ELSE s[n - 1]
      BY <2>2
    <3> HIDE DEF more, len
    <3>3. \A n \in 1 .. (1 + len) : n # 1 => n - 1 \in 1 .. len
      BY <3>2
    <3>4. ASSUME NEW m \in 1 .. (1 + len), NEW n \in 1 .. (1 + len), more[m] = more[n] PROVE m = n
      <4>1. CASE m # 1 /\ n # 1
        <5>1. s[m - 1] = s[n - 1] /\ m - 1 \in 1 .. len /\ n - 1 \in 1 .. len
          BY <3>2, <3>3, <3>4, <4>1
        <5>2. m - 1 = n - 1
          BY <2>2, <5>1 DEF len
        <5> QED
          BY <3>2, <5>2
      <4> QED
        BY <3>1, <3>2, <3>3, <3>4, <4>1
    <3> QED
      BY <3>2, <3>4, FeedsAre DEF IsInjective
  <2>5. feed' \in [BoardsAsked -> Feeds]
    <3>1. feed' = [feed EXCEPT ![b] = IF j \in ToSet(s) THEN rest ELSE more]
      BY <1>1, <2>1 DEF SearchShape
    <3> DEFINE nf == IF j \in ToSet(s) THEN rest ELSE more
    <3>2. nf \in Feeds
      BY <2>3, <2>4
    <3>3. feed' = [feed EXCEPT ![b] = nf]
      BY <3>1
    <3> HIDE DEF nf
    <3> QED
      BY <1>1, <3>2, <3>3 DEF SearchShape
  <2>6. changed' \in 0 .. MaxBoardChanges /\ changed' # 0
    BY <1>1, <2>1, SearchNumbers DEF SearchShape
  <2>7. SearchShape'
    BY <1>1, <1>2, <2>1, <2>5, <2>6 DEF SearchShape
  <2>8. RoomInv' /\ ShareInv'
    BY <2>1, StayingKeeps
  <2>9. ReadInv'
    BY <2>6 DEF ReadInv
  <2> QED
    BY <2>7, <2>8, <2>9 DEF SearchInv
<1>9. CASE UNCHANGED searchVars
  <2>1. UNCHANGED <<paged, limit, feed, pages, search, yielded, met, lost, changed>>
    BY <1>9 DEF searchVars
  <2>2. RoomInv' /\ ShareInv'
    BY <2>1, StayingKeeps
  <2>3. SearchShape'
    BY <1>1, <1>2, <2>1 DEF SearchShape
  <2>4. ReadInv'
    <3>1. \A b, n : PageOf(b, n)' = PageOf(b, n) /\ (Upto(b, n)' <=> Upto(b, n))
      BY <2>1 DEF PageOf, Upto, SizeOfPage
    <3>2. Upto(search.board, search.page - 1)' <=> Upto(search.board, search.page - 1)
      BY <2>1 DEF Upto, SizeOfPage
    <3> QED
      BY <1>1, <1>2, <2>1, <3>1, <3>2 DEF ReadInv, Behind
  <2> QED
    BY <2>2, <2>3, <2>4 DEF SearchInv
<1> QED
  BY <1>3, <1>4, <1>5, <1>6, <1>7, <1>8, <1>9 DEF SearchNext

\* A board all of whose postings read were yielded has as many of those.
LEMMA AllOfMetIs ==
  ASSUME SearchShape, NEW b \in BoardsAsked, met[b] \subseteq Got(b)
  PROVE  Cardinality(met[b]) <= Cardinality(From(b))
<1> DEFINE place == [j \in met[b] |-> CHOOSE i \in DOMAIN yielded : yielded[i] = Posting(b, j)]
<1>1. ASSUME NEW j \in met[b]
      PROVE  place[j] \in From(b) /\ yielded[place[j]] = Posting(b, j)
  <2>1. \E i \in DOMAIN yielded : yielded[i] = Posting(b, j)
    BY DEF Got, ToSet
  <2>2. place[j] \in DOMAIN yielded /\ yielded[place[j]] = Posting(b, j)
    BY <2>1
  <2>3. Posting(b, j).board = b
    BY DEF Posting
  <2> HIDE DEF place
  <2> QED
    BY <2>2, <2>3 DEF From
<1>2. place \in [met[b] -> From(b)]
  <2>1. \A j \in met[b] : place[j] \in From(b)
    BY <1>1
  <2> QED
    BY <2>1
<1> HIDE DEF place
<1>3. ASSUME NEW i \in met[b], NEW j \in met[b], place[i] = place[j] PROVE i = j
  <2>1. Posting(b, i) = Posting(b, j)
    BY <1>1, <1>3
  <2> QED
    BY <2>1 DEF Posting
<1>4. IsFiniteSet(From(b))
  BY FromIs
<1>5. IsFiniteSet(met[b])
  <2>1. met[b] \subseteq Jobs /\ IsFiniteSet(Jobs)
    BY SearchNumbers DEF SearchShape
  <2> QED
    BY <2>1, FS_Subset
<1> QED
  BY <1>2, <1>3, <1>4, <1>5, FewerThan

\* What BoardsShareTheBudget says follows from the invariant.
LEMMA SharesFollow == SearchInv => SearchTypeOK /\ BoardsShareTheBudget
<1> SUFFICES ASSUME SearchInv PROVE SearchTypeOK /\ BoardsShareTheBudget
  OBVIOUS
<1>1. SearchShape /\ RoomInv /\ ShareInv /\ ReadInv
  BY DEF SearchInv
<1>2. /\ limit \in Nat /\ FairShare \in Nat
      /\ Max({1, limit \div Len(BoardList)}) = FairShare
  BY <1>1, ShareIs DEF SearchShape
<1>3. SearchTypeOK
  <2>1. \A b \in BoardsAsked :
          DOMAIN pages[b] \subseteq 1 .. MaxPages /\ \A n \in DOMAIN pages[b] : pages[b][n] \in Feeds
    <3> SUFFICES ASSUME NEW b \in BoardsAsked
                 PROVE  DOMAIN pages[b] \subseteq 1 .. MaxPages /\ \A n \in DOMAIN pages[b] : pages[b][n] \in Feeds
      OBVIOUS
    <3>1. PICK D \in SUBSET (1 .. MaxPages) : pages[b] \in [D -> Feeds]
      BY <1>1 DEF SearchShape, Cached
    <3> QED
      BY <3>1
  <2>2. search.got \in 0 .. limit
    <3>1. search.got \in Nat /\ Len(yielded) \in Nat /\ Len(yielded) <= limit /\ search.got <= Len(yielded)
      BY <1>1 DEF SearchShape, RoomInv, Place
    <3> HIDE DEF SearchInv
    <3> QED
      BY <1>2, <3>1
  <2>3. search \in [going : BOOLEAN, pass : 1 .. 2, board : BoardsAsked, page : 1 .. MaxPages,
                    got : 0 .. limit, tries : 1 .. MaxAttempts]
    BY <1>1, <2>2 DEF SearchShape, Place
  <2> QED
    BY <1>1, <2>1, <2>3 DEF SearchShape, SearchTypeOK, YieldRow
<1>4. \A b \in BoardsAsked : search.pass = 1 => Cardinality(From(b)) <= FairShare
  BY <1>1 DEF ShareInv
<1>5. ASSUME NEW b \in BoardsAsked \ lost, search.pass = 2
      PROVE  Cardinality(From(b)) >= Min({FairShare, Cardinality(met[b])})
  <2> DEFINE p == FairShare
             q == Cardinality(met[b])
             r == Cardinality(From(b))
  <2>1. p <= r \/ q <= r
    <3>1. ShareGiven(b)
      BY <1>1, <1>5 DEF ShareInv
    <3>2. met[b] \subseteq Got(b) => q <= r
      BY <1>1, AllOfMetIs
    <3> QED
      BY <3>1, <3>2 DEF ShareGiven
  <2>2. p \in Nat /\ q \in Nat /\ r \in Nat
    <3>1. met[b] \subseteq Jobs /\ IsFiniteSet(Jobs)
      BY <1>1, SearchNumbers DEF SearchShape
    <3> QED
      BY <1>1, <1>2, <3>1, FromIs, FS_Subset, FS_CardinalityType
  <2> HIDE DEF p, q, r
  <2>3. Min({p, q}) = IF p <= q THEN p ELSE q
    <3>1. (CHOOSE x \in {p, q} : \A y \in {p, q} : x <= y) = IF p <= q THEN p ELSE q
      BY <2>2, LesserAndGreater
    <3> QED
      BY <3>1, Zenon DEF Min
  <2>4. r >= Min({p, q})
    BY <2>1, <2>2, <2>3
  <2> QED
    BY <2>4 DEF p, q, r
<1>6. ASSUME ~search.going, Len(yielded) < limit, lost = {}, changed = 0, NEW b \in BoardsAsked
      PROVE  \A n \in DOMAIN feed[b] :
               n <= MaxPages * SizeOfPage /\ feed[b][n] \in Wanted =>
                 Posting(b, feed[b][n]) \in ToSet(yielded)
  BY <1>1, <1>6 DEF ReadInv, Behind, Upto
<1>7. BoardsShareTheBudget
  BY <1>1, <1>2, <1>4, <1>5, <1>6 DEF BoardsShareTheBudget, RoomInv
<1> QED
  BY <1>3, <1>7

\* A search keeps its types, however long it runs and whatever the boards answer.
THEOREM SearchTypes == SearchSpec => []SearchTypeOK
<1>1. SearchInv => SearchTypeOK
  BY SharesFollow
<1> QED
  BY <1>1, SearchInvInit, SearchInvStep, PTL DEF SearchSpec

\* The budget of a search is shared fairly among the boards asked, none of which is given a
\* second helping before every other had the first; nothing is yielded twice, and nothing the
\* boards list is left behind while there is budget for it.
THEOREM BudgetIsShared == SearchSpec => []BoardsShareTheBudget
<1>1. SearchInv => BoardsShareTheBudget
  BY SharesFollow
<1> QED
  BY <1>1, SearchInvInit, SearchInvStep, PTL DEF SearchSpec

-----------------------------------------------------------------------------
(* Polls that take turns.  The tiers of find_existing see the committed rows and the  *)
(* poll's own; what they miss is in the transaction of a poll under way.              *)

\* A poll is under way from its first posting to its commit; the hand-over comes after.
Ingesting(p) == polling[p].pc \in {"poll", "find", "insert"}
InTurn == \A p, q \in Polls : Ingesting(p) /\ Ingesting(q) => p = q

\* One row for each opening; only the poll under way has rows of its own; it inserts only
\* where the whole table has no row of the opening; what is prepared is committed.
OneRow ==
  \A c, d \in Copies : stored[c] # "none" /\ stored[d] # "none" /\ c.opening = d.opening => c = d
OwnRows == \A c \in Copies : \A p \in Polls : stored[c] = p => Ingesting(p)
InsertsNew ==
  \A p \in Polls : polling[p].pc = "insert" => \A d \in SameOpening(polling[p].at) : stored[d] = "none"
PreparedIsStored == \A c \in prepare \cup applied : stored[c] = "db"
ListedOnce == OneRow /\ OwnRows /\ InsertsNew /\ PreparedIsStored

\* A step of a poll that touches no row.
LEMMA RowsStand ==
  ASSUME DiscTypeOK, ListedOnce, NEW p \in Polls, stored' = stored, UNCHANGED applied,
         prepare' \subseteq prepare \cup {c \in Copies : stored[c] = "db"},
         \A q \in Polls \ {p} : polling'[q] = polling[q],
         \/ Ingesting(p)'
         \/ \A c \in Copies : stored[c] # p,
         polling'[p].pc = "insert" => \A d \in SameOpening(polling'[p].at) : stored[d] = "none"
  PROVE  ListedOnce'
<1>1. OneRow'
  BY DEF ListedOnce, OneRow
<1>2. OwnRows'
  <2> SUFFICES ASSUME NEW c \in Copies, NEW q \in Polls, stored[c] = q PROVE Ingesting(q)'
    BY DEF OwnRows
  <2>1. CASE q = p
    BY <2>1
  <2>2. CASE q # p
    BY <2>2 DEF ListedOnce, OwnRows, Ingesting
  <2> QED
    BY <2>1, <2>2
<1>3. InsertsNew'
  <2> SUFFICES ASSUME NEW q \in Polls, polling'[q].pc = "insert", NEW d \in SameOpening(polling'[q].at)
               PROVE  stored[d] = "none"
    BY DEF InsertsNew, SameOpening
  <2>1. CASE q = p
    BY <2>1
  <2>2. CASE q # p
    BY <2>2 DEF ListedOnce, InsertsNew
  <2> QED
    BY <2>1, <2>2
<1>4. PreparedIsStored'
  BY DEF ListedOnce, PreparedIsStored
<1> QED
  BY <1>1, <1>2, <1>3, <1>4 DEF ListedOnce

LEMMA ListedStep ==
  ASSUME DiscTypeOK, HandInv, InTurn, InTurn', ListedOnce, [DiscNext]_discVars
  PROVE  ListedOnce'
<1>0. /\ stored \in [Copies -> Polls \cup {"none", "db"}] /\ polling \in [Polls -> PollingRow]
      /\ prepare \subseteq Copies /\ applied \subseteq Copies
      /\ \A p \in Polls : p # "none" /\ p # "db"
  BY DiscParts, DiscoveryAssumption
<1>1. ASSUME NEW p \in Polls, NextRaw(p) PROVE ListedOnce'
  <2>1. PICK c \in Copies :
          polling' = [polling EXCEPT ![p].pc = "find", ![p].at = c, ![p].seen = @ \cup {c}]
    BY <1>1, Zenon DEF NextRaw
  <2>2. polling'[p].pc = "find" /\ \A q \in Polls \ {p} : polling'[q] = polling[q]
    BY <1>0, <2>1 DEF PollingRow
  <2> QED
    BY <1>1, <2>2, RowsStand DEF NextRaw, Ingesting
<1>2. ASSUME NEW p \in Polls, Find(p) PROVE ListedOnce'
  <2>0. /\ UNCHANGED <<stored, prepare, applied>> /\ polling[p].pc = "find"
        /\ polling[p].at \in Copies
    BY <1>2 DEF Find, HandInv
  <2>1. CASE FindExisting(p, polling[p].at) = {}
    <3>1. polling' = [polling EXCEPT ![p].pc = "insert"]
      BY <1>2, <2>1 DEF Find
    <3>2. /\ polling'[p].pc = "insert" /\ polling'[p].at = polling[p].at
          /\ \A q \in Polls \ {p} : polling'[q] = polling[q]
      BY <1>0, <3>1 DEF PollingRow
    <3>3. ASSUME NEW d \in SameOpening(polling[p].at) PROVE stored[d] = "none"
      <4>1. d \in Copies /\ stored[d] \notin {"db", p}
        BY <2>1, <3>3 DEF FindExisting, SameOpening, Visible
      <4>2. ASSUME NEW q \in Polls, stored[d] = q PROVE FALSE
        <5>1. Ingesting(q) /\ Ingesting(p)
          BY <2>0, <4>1, <4>2 DEF ListedOnce, OwnRows, Ingesting
        <5> QED
          BY <4>1, <4>2, <5>1 DEF InTurn
      <4> QED
        BY <1>0, <4>1, <4>2
    <3> QED
      BY <2>0, <3>2, <3>3, RowsStand DEF Ingesting
  <2>2. CASE FindExisting(p, polling[p].at) # {}
    <3>1. PICK c : polling' = [polling EXCEPT ![p].pc = "poll", ![p].touched = @ \cup {c}]
      BY <1>2, <2>2 DEF Find
    <3>2. polling'[p].pc = "poll" /\ \A q \in Polls \ {p} : polling'[q] = polling[q]
      BY <1>0, <3>1 DEF PollingRow
    <3> QED
      BY <2>0, <3>2, RowsStand DEF Ingesting
  <2> QED
    BY <2>1, <2>2
<1>3. ASSUME NEW p \in Polls, Insert(p) PROVE ListedOnce'
  <2> DEFINE c == polling[p].at
  <2>1. /\ polling[p].pc = "insert" /\ c \in Copies /\ UNCHANGED <<prepare, applied>>
        /\ \A d \in SameOpening(c) : stored[d] = "none"
    BY <1>3 DEF Insert, HandInv, ListedOnce, InsertsNew
  <2>2. stored[c] = "none" /\ stored' = [stored EXCEPT ![c] = p]
    BY <1>3, <2>1 DEF Insert, SameOpening
  <2>3. polling'[p].pc = "poll" /\ \A q \in Polls \ {p} : polling'[q] = polling[q]
    BY <1>0, <1>3 DEF Insert, PollingRow
  <2> HIDE DEF c
  <2>4. stored'[c] = p /\ \A d \in Copies \ {c} : stored'[d] = stored[d]
    BY <1>0, <2>1, <2>2
  <2>5. \A q \in Polls \ {p} : ~Ingesting(q)
    BY <2>1 DEF InTurn, Ingesting
  <2>6. OneRow'
    <3> SUFFICES ASSUME NEW d \in Copies, NEW e \in Copies, stored'[d] # "none", stored'[e] # "none",
                        d.opening = e.opening, d # e
                 PROVE  FALSE
      BY DEF OneRow
    <3>1. CASE d # c /\ e # c
      BY <2>4, <3>1 DEF ListedOnce, OneRow
    <3>2. CASE d = c \/ e = c
      BY <2>1, <2>4, <3>2 DEF SameOpening
    <3> QED
      BY <3>1, <3>2
  <2>7. OwnRows'
    <3> SUFFICES ASSUME NEW d \in Copies, NEW q \in Polls, stored'[d] = q PROVE Ingesting(q)'
      BY DEF OwnRows
    <3>1. CASE q = p
      BY <2>3, <3>1 DEF Ingesting
    <3>2. CASE q # p
      BY <2>4, <2>5, <3>2 DEF ListedOnce, OwnRows
    <3> QED
      BY <3>1, <3>2
  <2>8. InsertsNew'
    <3>1. \A q \in Polls : polling'[q].pc # "insert"
      BY <2>3, <2>5 DEF Ingesting
    <3> QED
      BY <3>1 DEF InsertsNew
  <2>9. PreparedIsStored'
    BY <1>0, <2>1, <2>2, <2>4 DEF ListedOnce, PreparedIsStored
  <2> QED
    BY <2>6, <2>7, <2>8, <2>9 DEF ListedOnce
<1>4. ASSUME NEW p \in Polls, DeadlockVictim(p) PROVE ListedOnce'
  <2>1. PICK q \in Polls \ {p} : polling[q].pc = "insert"
    BY <1>4 DEF DeadlockVictim
  <2> QED
    BY <1>4, <2>1 DEF DeadlockVictim, InTurn, Ingesting
\* A poll that leaves: its rows are committed, or taken back.
<1>l. ASSUME NEW p \in Polls, NEW s \in {"none", "db"}, UNCHANGED <<prepare, applied>>,
             stored' = [c \in Copies |-> IF stored[c] = p THEN s ELSE stored[c]],
             \A q \in Polls \ {p} : polling'[q] = polling[q], polling'[p].pc # "insert",
             Ingesting(p)
      PROVE  ListedOnce'
  <2>1. \A c \in Copies : /\ stored'[c] # "none" => stored[c] # "none"
                          /\ stored[c] = "db" => stored'[c] = "db"
                          /\ \A q \in Polls : stored'[c] = q => stored[c] = q /\ q # p
    BY <1>0, <1>l
  <2>2. OneRow'
    BY <2>1 DEF ListedOnce, OneRow
  <2>3. OwnRows'
    BY <1>l, <2>1 DEF ListedOnce, OwnRows, Ingesting
  <2>4. InsertsNew'
    <3>1. \A q \in Polls \ {p} : polling[q].pc # "insert"
      BY <1>l DEF InTurn, Ingesting
    <3> QED
      BY <1>l, <3>1 DEF InsertsNew
  <2>5. PreparedIsStored'
    BY <1>0, <1>l, <2>1 DEF ListedOnce, PreparedIsStored
  <2> QED
    BY <2>2, <2>3, <2>4, <2>5 DEF ListedOnce
<1>5. ASSUME NEW p \in Polls, ScoreAndCommit(p) PROVE ListedOnce'
  <2>1. [AtRest EXCEPT !.pc = "enqueue"].pc = "enqueue"
    BY DEF AtRest
  <2>2. polling' = [polling EXCEPT ![p] = [AtRest EXCEPT !.pc = "enqueue"]]
    BY <1>5 DEF ScoreAndCommit
  <2>3. polling'[p].pc = "enqueue" /\ \A q \in Polls \ {p} : polling'[q] = polling[q]
    BY <1>0, <2>1, <2>2
  <2> QED
    BY <1>5, <2>3, <1>l DEF ScoreAndCommit, Ingesting
<1>6. ASSUME NEW p \in Polls, EnqueueQualified(p) PROVE ListedOnce'
  <2>1. polling'[p].pc = "idle" /\ \A q \in Polls \ {p} : polling'[q] = polling[q]
    BY <1>0, <1>6, AtRestIs DEF EnqueueQualified
  <2>2. \A c \in Copies : stored[c] # p
    BY <1>6 DEF EnqueueQualified, ListedOnce, OwnRows, Ingesting
  <2> QED
    BY <1>6, <2>1, <2>2, RowsStand DEF EnqueueQualified, Qualified
<1>7. ASSUME NEW c \in Copies, PrepareApplication(c) \/ Expire(c) PROVE ListedOnce'
  <2>1. UNCHANGED <<stored, polling>> /\ prepare' \cup applied' \subseteq prepare \cup applied
    BY <1>7 DEF PrepareApplication, Expire
  <2> QED
    BY <2>1 DEF ListedOnce, OneRow, OwnRows, Ingesting, InsertsNew, SameOpening, PreparedIsStored
<1>8. ASSUME NEW p \in Polls, PollDies(p) PROVE ListedOnce'
  <2>1. polling'[p].pc = "idle" /\ \A q \in Polls \ {p} : polling'[q] = polling[q]
    BY <1>0, <1>8, AtRestIs DEF PollDies
  <2>2. Ingesting(p)
    BY <1>0, <1>8 DEF PollDies, Ingesting, PollingRow
  <2> QED
    BY <1>8, <2>1, <2>2, <1>l DEF PollDies
<1>9. CASE UNCHANGED discVars
  BY <1>9 DEF discVars, ListedOnce, OneRow, OwnRows, Ingesting, InsertsNew, SameOpening, PreparedIsStored
<1> QED
  BY <1>1, <1>2, <1>3, <1>4, <1>5, <1>6, <1>7, <1>8, <1>9 DEF DiscNext, PollStep

\* If no two polls are ever under way together, each opening is applied for once, however
\* many boards carry it, however often it is polled and whatever dies: the copies that
\* slip through find_existing (dedupe_service.py) are those of transactions still open.
THEOREM TurnsApplyOnce == DiscSpec /\ []InTurn => []AppliedOncePerOpening
<1>1. DiscInit => ListedOnce
  <2> SUFFICES ASSUME DiscInit PROVE ListedOnce
    OBVIOUS
  <2>1. /\ \A c \in Copies : stored[c] = "none"
        /\ \A p \in Polls : polling[p].pc = "idle" /\ p # "none"
        /\ prepare = {} /\ applied = {}
    BY AtRestIs, DiscoveryAssumption DEF DiscInit
  <2> QED
    BY <2>1 DEF ListedOnce, OneRow, OwnRows, InsertsNew, PreparedIsStored
<1>2. DiscTypeOK /\ ListedOnce => AppliedOncePerOpening
  BY DEF DiscTypeOK, ListedOnce, OneRow, PreparedIsStored, AppliedOncePerOpening
<1>3. DiscTypeOK /\ HandInv /\ InTurn /\ InTurn' /\ ListedOnce /\ [DiscNext]_discVars => ListedOnce'
  BY ListedStep
<1> QED
  BY <1>1, <1>2, <1>3, DiscHolds, PTL DEF DiscSpec
=============================================================================
