------------------------------ MODULE Artifacts ------------------------------
(***************************************************************************)
(* What an application leaves behind and how it is swept: the catalogue of *)
(* files, the bytes in the storage, the archives, and the maintenance task *)
(* that prunes them, whose database work is one transaction while its file *)
(* work happens at once and is not undone.  One application and its        *)
(* screenshots; one upload that several rows may share.                    *)
(***************************************************************************)
EXTENDS Naturals, FiniteSets

CONSTANTS
  MaxRows,  \* bound: rows of the catalogue ever inserted
  LastDay,  \* bound: clock ticks
  Age       \* older_than_days, in ticks of the clock

ASSUME ArtifactsAssumption == {MaxRows, LastDay, Age} \subseteq Nat \ {0}

VARIABLES
  day,       \* the clock
  filed,     \* the application: its status and confirmation_screenshot_id
  artifact,  \* uploaded_files: kind, created_at, deleted_at, state
  bytes,     \* the storage keys under which there is an object
  archive,   \* the rows exported so far
  sweep      \* prune_artifacts: where it is, the rows it has selected

artVars == <<day, filed, artifact, bytes, archive, sweep>>

Rows == 1..MaxRows
NoArtifact == [kind |-> "none", born |-> 0, died |-> 0, state |-> "none"]
Unused == {r \in Rows : artifact[r] = NoArtifact}
NextRow == CHOOSE r \in Unused : \A q \in Unused : r <= q
IdleSweep == [at |-> "idle", retired |-> {}, releasable |-> {}]

\* The key of a screenshot is made of the user, the application and a file name that
\* counts from one in every attempt; the key of an upload of the hash of its bytes.
KeyOf(kind) == kind

ArtInit ==
  /\ day = 0
  /\ filed = [status |-> "ready", proof |-> 0]
  /\ artifact = [r \in Rows |-> NoArtifact]
  /\ bytes = {}
  /\ archive = {}
  /\ sweep = IdleSweep

Inserted(kind) ==
  /\ Unused # {}
  /\ artifact' = [artifact EXCEPT ![NextRow] =
       [kind |-> kind, born |-> day, died |-> 0, state |-> "live"]]
  /\ bytes' = bytes \cup {KeyOf(kind)}

\* _finalize: the screenshots are stored and the last one becomes the proof.
Attempt ==
  /\ filed.status = "ready"
  /\ Inserted("screenshot")
  /\ \E status \in {"submitted", "confirmed", "needs_review", "failed"} :
       filed' = [status |-> status, proof |-> NextRow]
  /\ UNCHANGED <<day, archive, sweep>>

\* What happens to the application afterwards: a retry, a signal of the tracking.
Proceeds ==
  /\ \/ filed.status \in {"needs_review", "failed"} /\ filed' = [filed EXCEPT !.status = "ready"]
     \/ filed.status = "submitted" /\ filed' = [filed EXCEPT !.status = "confirmed"]
     \/ filed.status \in {"submitted", "confirmed"} /\ filed' = [filed EXCEPT !.status = "rejected"]
  /\ UNCHANGED <<day, artifact, bytes, archive, sweep>>

\* upload_file, and delete_file, which forgets the row and leaves the bytes.
Upload == Inserted("upload") /\ UNCHANGED <<day, filed, archive, sweep>>

Forget(r) ==
  /\ artifact[r].kind = "upload" /\ artifact[r].state = "live"
  /\ artifact' = [artifact EXCEPT ![r].state = "retired", ![r].died = day]
  /\ UNCHANGED <<day, filed, bytes, archive, sweep>>

\* Rendered documents: stored for the submission, and discarded by cleanup_application
\* once it is over.  The file goes first, and a failed commit brings back the row only.
RenderDocument == /\ filed.status = "ready"
          /\ Inserted("document")
          /\ UNCHANGED <<day, filed, archive, sweep>>

Discard(r) ==
  /\ artifact[r].kind = "document" /\ artifact[r].state = "live"
  /\ filed.status \in {"submitted", "confirmed", "rejected"}
  /\ bytes' = bytes \ {KeyOf("document")}
  /\ \/ artifact' = [artifact EXCEPT ![r].state = "retired", ![r].died = day]
     \/ UNCHANGED artifact
  /\ UNCHANGED <<day, filed, archive, sweep>>

NextDay == /\ day < LastDay /\ day' = day + 1
           /\ UNCHANGED <<filed, artifact, bytes, archive, sweep>>

-----------------------------------------------------------------------------
(* prune_artifacts. *)

\* A row is proof while the application it belongs to is confirmed.
IsProof(r) == filed.proof = r /\ filed.status = "confirmed"

Select ==
  /\ sweep.at = "idle"
  /\ sweep' = [at |-> "selected",
       retired |-> {r \in Rows : artifact[r].state = "retired" /\ artifact[r].died + Age <= day},
       releasable |-> {r \in Rows : /\ artifact[r].state = "live" /\ artifact[r].kind = "screenshot"
                                    /\ artifact[r].born + Age <= day /\ ~IsProof(r)}]
  /\ UNCHANGED <<day, filed, artifact, bytes, archive>>

\* Mutant of Archive: only what is about to be deleted now is exported.
ArchiveReleasable ==
  /\ sweep.at = "selected"
  /\ archive' = archive \cup sweep.releasable
  /\ sweep' = [sweep EXCEPT !.at = "archived"]
  /\ UNCHANGED <<day, filed, artifact, bytes>>

\* The exports are complete before anything is deleted.
Archive ==
  /\ sweep.at = "selected"
  /\ archive' = archive \cup sweep.retired \cup sweep.releasable
  /\ sweep' = [sweep EXCEPT !.at = "archived"]
  /\ UNCHANGED <<day, filed, artifact, bytes>>

\* _release_bytes: the object goes, whoever else has its key.  A failing storage is
\* logged and passed over.
ReleaseBytes ==
  /\ sweep.at = "archived"
  /\ \E gone \in SUBSET {KeyOf(artifact[r].kind) : r \in sweep.releasable} : bytes' = bytes \ gone
  /\ sweep' = [sweep EXCEPT !.at = "released"]
  /\ UNCHANGED <<day, filed, artifact, archive>>

Committed(r) ==
  IF r \in sweep.retired THEN [artifact[r] EXCEPT !.state = "gone"]
  ELSE IF r \in sweep.releasable THEN [artifact[r] EXCEPT !.state = "retired", !.died = day]
  ELSE artifact[r]

Commit ==
  /\ sweep.at = "released"
  /\ artifact' = [r \in Rows |-> Committed(r)]
  /\ sweep' = IdleSweep
  /\ UNCHANGED <<day, filed, bytes, archive>>

\* The task dies or its commit fails; retried, it starts over.
PruneAborts ==
  /\ sweep.at # "idle"
  /\ sweep' = IdleSweep
  /\ UNCHANGED <<day, filed, artifact, bytes, archive>>

Prune == Select \/ Archive \/ ReleaseBytes \/ Commit

ArtNext ==
  \/ Attempt \/ Proceeds \/ Upload \/ RenderDocument
  \/ \E r \in Rows : Forget(r) \/ Discard(r)
  \/ NextDay \/ Prune \/ PruneAborts

ArtSpec == ArtInit /\ [][ArtNext]_artVars
-----------------------------------------------------------------------------
ArtTypeOK ==
  /\ day \in 0..LastDay
  /\ filed \in [status : {"ready", "submitted", "confirmed", "needs_review", "failed", "rejected"},
                proof : 0..MaxRows]
  /\ artifact \in [Rows -> [kind : {"none", "screenshot", "document", "upload"}, born : 0..LastDay,
                       died : 0..LastDay, state : {"none", "live", "retired", "gone"}]]
  /\ bytes \subseteq {"screenshot", "document", "upload"}
  /\ archive \subseteq Rows
  /\ sweep \in [at : {"idle", "selected", "archived", "released"},
                retired : SUBSET Rows, releasable : SUBSET Rows]

\* However often the sweep dies half-way and is run again, and whatever happens to the
\* rows between its steps, no row has disappeared that is not in an archive, and none
\* before it had been retired for the whole window.
NothingVanishes ==
  \A r \in Rows : artifact[r].state = "gone" => r \in archive /\ artifact[r].died + Age <= day

\* "This is the user's proof they applied; it outlives every retention window, every age
\* argument and every apply=True" (cleanup.py 109-111): a sweep that has left the proof
\* of a confirmed application out of its selection does not take its bytes either.
ProofIsKept ==
  [][filed.status = "confirmed" /\ filed.proof \notin sweep.releasable
       => (KeyOf("screenshot") \in bytes => KeyOf("screenshot") \in bytes')]_bytes
=============================================================================
