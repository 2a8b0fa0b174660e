------------------------------ MODULE Documents ------------------------------
(***************************************************************************)
(* The documents of one application: what `prepare` generates, renders and *)
(* persists, what `submit` takes from disk, and the sweep of stale files.  *)
(* Rows are transactional, the files of the render directory are not.      *)
(***************************************************************************)
EXTENDS Integers, Sequences

CONSTANTS
  MaxVersions,   \* bound: documents generated for the application
  Offered,       \* the master résumés to come, in order: [name, size]
  DocFaults      \* among "error", "killed", "swept", "lost"

ASSUME DocumentsAssumption ==
  /\ MaxVersions \in Nat
  /\ Offered \in Seq([name : STRING, size : Nat])
  /\ \A u \in DOMAIN Offered : Offered[u].name # "none"
  /\ DocFaults \subseteq {"error", "killed", "swept", "lost"}

VARIABLES
  folder,    \* the render directory: what each file of it contains
  versions,  \* the résumés generated, by number, with the format their rows record
  letters,   \* the letters generated
  paper,     \* the Application row as committed
  uploads,   \* the master résumés, oldest first: is it still there?
  prefers,   \* settings.resume_source
  desk,      \* the task at work: its step, its copy of the row, the files it chose
  posted,    \* history: what the employer was sent, at most once
  torn       \* history: an attempt failed or was cut off after it had rendered, and its files
             \* are still there

docVars == <<folder, versions, letters, paper, uploads, prefers, desk, posted, torn>>
-----------------------------------------------------------------------------
Formats == {"pdf", "md"}          \* the ladder ends in markdown
ResumeFile == [f \in Formats |-> IF f = "pdf" THEN "resume.pdf" ELSE "resume.md"]
LetterFile == [f \in Formats |-> IF f = "pdf" THEN "cover-letter.pdf" ELSE "cover-letter.md"]
Files == {ResumeFile[f] : f \in Formats} \cup {LetterFile[f] : f \in Formats}
           \cup {Offered[u].name : u \in DOMAIN Offered}

\* What a file may contain: a résumé or a letter generated, or a copy of an upload.
Nothing == [what |-> "nothing", of |-> 0]
Resume(n) == [what |-> "resume", of |-> n]
Letter(n) == [what |-> "letter", of |-> n]
Copy(u) == [what |-> "upload", of |-> u]
Contents == [what : {"nothing", "resume", "letter", "upload"}, of : 0 .. MaxVersions + Len(Offered)]

NoFile == "none"
Off == [at |-> "idle", row |-> [status |-> "none", version |-> 0, letter |-> 0, upload |-> 0],
        cv |-> NoFile, cover |-> NoFile]
EmptyFolder == [f \in Files |-> Nothing]
On(f) == folder[f] # Nothing
SizeOf(content) == Offered[content.of].size

\* The newest master résumé that was not deleted.
Live == {u \in DOMAIN uploads : uploads[u]}
Master == IF Live = {} THEN 0 ELSE CHOOSE u \in Live : \A v \in Live : v <= u

DocInit ==
  /\ folder = EmptyFolder
  /\ versions = <<>> /\ letters = <<>>
  /\ paper = [status |-> "draft", version |-> 0, letter |-> 0, upload |-> 0]
  /\ uploads = <<>>
  /\ prefers \in {"generated", "master"}
  /\ desk = Off
  /\ posted = <<>>
  /\ torn = FALSE

Commits(status) ==
  /\ paper' = [desk.row EXCEPT !.status = status]
  /\ desk' = Off
-----------------------------------------------------------------------------
(* prepare. *)

TakePrepare ==
  /\ desk = Off
  /\ paper.status \in {"draft", "preparing", "needs_review", "failed"}
  /\ Len(versions) < MaxVersions
  /\ paper' = [paper EXCEPT !.status = "preparing"]
  /\ desk' = [Off EXCEPT !.at = "render", !.row = paper']
  /\ UNCHANGED <<folder, versions, letters, uploads, prefers, posted, torn>>

\* The posting gives orders to the model, or tailoring raises: nothing was rendered.
TailorRefused ==
  /\ desk.at = "render"
  /\ \E status \in {"needs_review"} \cup (IF "error" \in DocFaults THEN {"failed"} ELSE {}) :
       Commits(status)
  /\ UNCHANGED <<folder, versions, letters, uploads, prefers, posted, torn>>

\* _render_resume_file down its ladder: a PDF that fits, one that is too long, which
\* stays in the directory, and markdown after it, or markdown alone; store and persist.
RenderResume ==
  /\ desk.at = "render"
  /\ LET n == Len(versions) + 1 IN
     \E left \in SUBSET Formats, f \in Formats :
       /\ f \in left /\ (f = "pdf" => "md" \notin left)
       /\ folder' = [file \in Files |->
            IF \E g \in left : file = ResumeFile[g] THEN Resume(n) ELSE folder[file]]
       /\ versions' = Append(versions, f)
       /\ desk' = [desk EXCEPT !.at = "letter", !.row.version = n]
  /\ UNCHANGED <<letters, paper, uploads, prefers, posted, torn>>

\* The ladder is exhausted, or storing fails, after files were left in the directory.
RenderFails ==
  /\ desk.at = "render" /\ "error" \in DocFaults
  /\ \E left \in SUBSET Formats :
       /\ folder' = [file \in Files |->
            IF \E g \in left : file = ResumeFile[g] THEN Resume(Len(versions) + 1)
            ELSE folder[file]]
       /\ torn' = (torn \/ left # {})
  /\ versions' = Append(versions, "pdf")   \* no row names it
  /\ Commits("failed")
  /\ UNCHANGED <<letters, uploads, prefers, posted>>

\* should_write, write and persist; or no letter, and the row keeps the one it names.
WriteLetter ==
  /\ desk.at = "letter"
  /\ \/ \E f \in Formats :
          /\ folder' = [folder EXCEPT ![LetterFile[f]] = Letter(Len(letters) + 1)]
          /\ letters' = Append(letters, f)
          /\ desk' = [desk EXCEPT !.at = "finish", !.row.letter = Len(letters) + 1]
     \/ /\ desk' = [desk EXCEPT !.at = "finish"]
        /\ UNCHANGED <<folder, letters>>
  /\ UNCHANGED <<versions, paper, uploads, prefers, posted, torn>>

\* _fail commits with the status what the session had flushed: the new version.
LetterFails ==
  /\ desk.at = "letter" /\ "error" \in DocFaults
  /\ Commits("failed")
  /\ UNCHANGED <<folder, versions, letters, uploads, prefers, posted, torn>>

\* Ready, or an empty résumé for a person to look at; the task's transaction commits.
EndPrepare ==
  /\ desk.at = "finish"
  /\ \E status \in {"ready", "needs_review"} : Commits(status)
  /\ torn' = FALSE
  /\ UNCHANGED <<folder, versions, letters, uploads, prefers, posted>>

-----------------------------------------------------------------------------
(* submit. *)

BeginSubmission ==
  /\ desk = Off
  /\ paper.status = "ready"
  /\ desk' = [Off EXCEPT !.at = "choose", !.row = paper]
  /\ UNCHANGED <<folder, versions, letters, paper, uploads, prefers, posted, torn>>

\* _master_resume_path: a copy under the name the person gave it, made when there is
\* none or its size differs.  No letter goes with it.  A generated file differs in size.
ChooseMaster ==
  /\ desk.at = "choose" /\ prefers = "master" /\ Master # 0
  /\ LET file == Offered[Master].name
         same == On(file) /\ folder[file].what = "upload" /\ SizeOf(folder[file]) = Offered[Master].size
     IN /\ folder' = IF same THEN folder ELSE [folder EXCEPT ![file] = Copy(Master)]
        /\ desk' = [desk EXCEPT !.at = "claim", !.cv = file, !.row.upload = Master]
  /\ UNCHANGED <<versions, letters, paper, uploads, prefers, posted, torn>>

\* _master_resume_path answers None without an upload, and when its bytes are gone.
UsesGenerated == prefers = "generated" \/ Master = 0 \/ "lost" \in DocFaults

\* Mutant of ChooseGenerated: the row goes on naming the upload of an earlier attempt.
ChooseKeepingUpload ==
  /\ desk.at = "choose" /\ UsesGenerated
  /\ LET v == desk.row.version
         file == IF v = 0 THEN NoFile ELSE ResumeFile[versions[v]]
     IN /\ folder' = IF v = 0 \/ On(file) THEN folder ELSE [folder EXCEPT ![file] = Resume(v)]
        /\ desk' = [desk EXCEPT !.at = "cover", !.cv = file]
  /\ UNCHANGED <<versions, letters, paper, uploads, prefers, posted, torn>>

\* The file of the version's format as it lies in the directory, or rendered again, in
\* whatever format the ladder gives now; no file at all for a row without a version.
ChooseGenerated ==
  /\ desk.at = "choose" /\ UsesGenerated
  /\ LET v == desk.row.version
         file == IF v = 0 THEN NoFile ELSE ResumeFile[versions[v]]
         Goes(f) == desk' = [desk EXCEPT !.at = "cover", !.cv = f, !.row.upload = 0]
     IN IF v = 0 \/ On(file) THEN Goes(file) /\ folder' = folder
        ELSE \E f \in Formats :
               /\ folder' = [folder EXCEPT ![ResumeFile[f]] = Resume(v)]
               /\ Goes(ResumeFile[f])
  /\ UNCHANGED <<versions, letters, paper, uploads, prefers, posted, torn>>

\* glob("cover-letter.*") in directory order, or rendered again.
ChooseLetter ==
  /\ desk.at = "cover"
  /\ LET found == {f \in Formats : On(LetterFile[f])} IN
     \/ desk.row.letter = 0 /\ desk' = [desk EXCEPT !.at = "claim"] /\ folder' = folder
     \/ /\ desk.row.letter # 0
        /\ \E f \in (IF found = {} THEN Formats ELSE found) :
             /\ desk' = [desk EXCEPT !.at = "claim", !.cover = LetterFile[f]]
             /\ folder' = IF found # {} THEN folder
                          ELSE [folder EXCEPT ![LetterFile[f]] = Letter(desk.row.letter)]
  /\ UNCHANGED <<versions, letters, paper, uploads, prefers, posted, torn>>

\* The claim commits the row, the upload it names included; or the attempt is a
\* rehearsal, which leaves the row ready.
ClaimOrRehearse ==
  /\ desk.at = "claim"
  /\ \/ /\ paper' = [desk.row EXCEPT !.status = "submitting"]
        /\ desk' = [desk EXCEPT !.at = "send", !.row.status = "submitting"]
     \/ Commits("ready")
  /\ UNCHANGED <<folder, versions, letters, uploads, prefers, posted, torn>>

\* The provider reads the files when it fills the form.
Post ==
  /\ desk.at = "send"
  /\ \A f \in {desk.cv, desk.cover} \ {NoFile} : On(f)
  /\ LET Read(f) == IF f = NoFile THEN Nothing ELSE folder[f]
     IN posted' = <<[cv |-> Read(desk.cv), cover |-> Read(desk.cover), torn |-> torn]>>
  /\ Commits("submitted")
  /\ UNCHANGED <<folder, versions, letters, uploads, prefers, torn>>

\* A blocker, or a file that is gone: back to a person, or failed; or no document could
\* be rendered again.  Nothing was sent.
NotPosted ==
  /\ \/ desk.at = "send" /\ \E status \in {"needs_review", "failed"} : Commits(status)
     \/ desk.at = "cover" /\ "error" \in DocFaults /\ Commits("failed")
  /\ UNCHANGED <<folder, versions, letters, uploads, prefers, posted, torn>>

-----------------------------------------------------------------------------
(* A person, the operating system, the sweep. *)

\* A review is resolved: ready again without new documents, be there any or none.
Resolved ==
  /\ desk = Off
  /\ paper.status = "needs_review"
  /\ paper' = [paper EXCEPT !.status = "ready"]
  /\ UNCHANGED <<folder, versions, letters, uploads, prefers, desk, posted, torn>>

\* A résumé uploaded as the master; a preview of a generated version is catalogued so too,
\* under the name it was rendered to.
UploadsMaster ==
  /\ Len(uploads) < Len(Offered)
  /\ uploads' = Append(uploads, TRUE)
  /\ UNCHANGED <<folder, versions, letters, paper, prefers, desk, posted, torn>>

\* The newest upload is deleted, or the setting changed.
ChangesSource ==
  /\ \/ Master # 0 /\ uploads' = [uploads EXCEPT ![Master] = FALSE] /\ prefers' = prefers
     \/ prefers' \in {"generated", "master"} \ {prefers} /\ uploads' = uploads
  /\ UNCHANGED <<folder, versions, letters, paper, desk, posted, torn>>

\* A cancellation or the death of the task: what it had not committed rolls back, the files stay.
KilledAtDesk ==
  /\ "killed" \in DocFaults
  /\ desk.at \in {"render", "letter", "finish", "choose", "cover", "claim"}
  /\ desk' = Off
  /\ torn' = (torn \/ desk.at \in {"letter", "finish"})
  /\ UNCHANGED <<folder, versions, letters, paper, uploads, prefers, posted>>

\* temp_documents removes a directory nothing was added to for a day, whoever is using it.
Sweep ==
  /\ "swept" \in DocFaults
  /\ folder # EmptyFolder
  /\ folder' = EmptyFolder
  /\ torn' = FALSE
  /\ UNCHANGED <<versions, letters, paper, uploads, prefers, desk, posted>>

DocNext ==
  \/ TakePrepare \/ TailorRefused \/ RenderResume \/ RenderFails
  \/ WriteLetter \/ LetterFails \/ EndPrepare
  \/ BeginSubmission \/ ChooseMaster \/ ChooseGenerated \/ ChooseLetter
  \/ ClaimOrRehearse \/ Post \/ NotPosted
  \/ Resolved \/ UploadsMaster \/ ChangesSource \/ KilledAtDesk \/ Sweep

DocSpec == DocInit /\ [][DocNext]_docVars
-----------------------------------------------------------------------------
DocTypeOK ==
  /\ folder \in [Files -> Contents]
  /\ versions \in Seq(Formats) /\ letters \in Seq(Formats)
  /\ {paper, desk.row} \subseteq
       [status : {"none", "draft", "preparing", "ready", "submitting", "submitted", "needs_review", "failed"},
        version : 0 .. MaxVersions, letter : 0 .. MaxVersions, upload : 0 .. Len(Offered)]
  /\ prefers \in {"generated", "master"}
  /\ {desk.cv, desk.cover} \subseteq Files \cup {NoFile}
  /\ torn \in BOOLEAN

\* The résumé a row names.
NamedBy(row) ==
  IF row.upload # 0 THEN Copy(row.upload)
  ELSE IF row.version # 0 THEN Resume(row.version) ELSE Nothing
Named == NamedBy(paper)

\* "NULL means the generated version in resume_version_id is what was sent"
\* (models/application.py): the row names the résumé the employer received, through
\* failed and rehearsed attempts, changes of the source, sweeps and fall-backs, unless an
\* attempt that failed or was cut off before its row named what it had rendered left that
\* file under the version's name.
\* Uploads that collide with a generated file, or with each other by name and size, are
\* not in this property's scope.
ResumeSentIsRecorded == posted # <<>> /\ ~posted[1].torn => posted[1].cv = Named

\* The same promise without the exception.  Violated: a second preparation fails once it has
\* rendered, a third is refused, a person resolves the review, and what goes out is the file
\* of the second under the version of the first.
VersionIsWhatWasSent ==
  posted # <<>> /\ paper.upload = 0 /\ paper.version # 0 => posted[1].cv = Resume(paper.version)

\* The letter sent is the one the row names.
LetterSentIsRecorded ==
  posted # <<>> /\ ~posted[1].torn /\ posted[1].cover # Nothing => posted[1].cover = Letter(paper.letter)
=============================================================================
