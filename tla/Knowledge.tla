------------------------------ MODULE Knowledge ------------------------------
(***************************************************************************)
(* The knowledge base on SQLite: sources a person registers, index tasks   *)
(* that read them into documents, chunks and facts, and a vector store     *)
(* that is a file of its own, written at once while the rows wait for the  *)
(* commit.  Every source has one document; what it says, its text, is also *)
(* the one claim that is extracted from it, so that two sources may make   *)
(* the same claim.                                                         *)
(***************************************************************************)
EXTENDS Naturals, FiniteSets

CONSTANTS
  Sources,
  Texts,      \* what a source may say
  IndexTasks,      \* index tasks
  MaxChunks,  \* bound: generations of chunks
  MaxEdits,   \* bound: changes of the world, the registrations and the facts by people
  MaxMishaps  \* bound: passes and removals that break off

ASSUME KnowledgeAssumption ==
  {MaxChunks, MaxEdits, MaxMishaps} \subseteq Nat /\ IsFiniteSet(Sources)

VARIABLES
  world,     \* what each source says now
  source,    \* knowledge_sources: status, content_hash
  document,  \* knowledge_documents and its chunks: text, generation, embedded
  fact,      \* knowledge_facts per claim: state, document it came from, wording, embedding
  second,    \* claims of which there is a second fact, in the source's wording
  chunkVecs, \* the vector store, collection chunks: generations
  factVecs,  \* ... and collection facts: claims
  memo,      \* the memoized fingerprint of each source
  pass,      \* each index task: where it is, what it loaded, what it will commit
  backlog,   \* embed_backlog: the generations and claims it selected
  removal,   \* remove_source: the ids it has read, and what it still has to do
  orphans,   \* history: generations that were replaced or removed by their document's id,
             \* after their own had not been among those read
  nextChunk, edits, mishaps

knowledgeVars == <<world, source, document, fact, second, chunkVecs, factVecs, memo, pass,
                   backlog, removal, orphans, nextChunk, edits, mishaps>>

NoHash == "none"
NoSource == [status |-> "absent", hash |-> NoHash]
NoDocument == [text |-> "none", chunk |-> 0, embedded |-> FALSE]
NoFact == [state |-> "none", from |-> "none", wording |-> "source", embedded |-> FALSE]
NoPass == [pc |-> "idle", of |-> "none", force |-> FALSE, hash |-> NoHash,
           text |-> "none", locked |-> FALSE, gone |-> FALSE, stale |-> 0,
           doc |-> NoDocument, row |-> NoFact, again |-> FALSE]
NoBacklog == [at |-> "idle", chunks |-> {}, claims |-> {}]
NoRemoval == [at |-> "none", of |-> "none", chunks |-> {}, claims |-> {}]

KnowledgeInit ==
  /\ world \in [Sources -> Texts]
  /\ source = [s \in Sources |-> NoSource]
  /\ document = [s \in Sources |-> NoDocument]
  /\ fact = [c \in Texts |-> NoFact]
  /\ second = {}
  /\ chunkVecs = {} /\ factVecs = {}
  /\ memo = [s \in Sources |-> NoHash]
  /\ pass = [t \in IndexTasks |-> NoPass]
  /\ backlog = NoBacklog
  /\ removal = NoRemoval /\ orphans = {}
  /\ nextChunk = 1 /\ edits = 0 /\ mishaps = 0

Registered(s) == source[s] # NoSource

\* The vector store: upsert and delete by id, in a file of its own.
Stored(vectors, ids) == vectors \cup ids
Dropped(vectors, ids) == vectors \ ids

\* A transaction that has written keeps the database's write lock until it commits; what
\* is read before the first write is not protected.
IndexWriting == {t \in IndexTasks : pass[t].locked}
MayWrite(t) == IndexWriting \subseteq {t}

\* The document's row as a pass sees it: what it has flushed itself, or what is committed.
RowSeen(t) == IF pass[t].locked THEN pass[t].doc ELSE document[pass[t].of]

-----------------------------------------------------------------------------
(* KnowledgeIndexer.index_source. *)

\* Stage 1: the source is marked and the mark is committed.
BeginIndex(t, s, force) ==
  /\ pass[t].pc = "idle" /\ Registered(s) /\ IndexWriting = {}
  /\ source' = [source EXCEPT ![s].status = "indexing"]
  /\ pass' = [pass EXCEPT ![t] = [NoPass EXCEPT !.pc = "probe", !.of = s, !.force = force,
                                                !.hash = source[s].hash]]
  /\ UNCHANGED <<world, document, fact, second, chunkVecs, factVecs, memo, removal, orphans,
                 nextChunk, edits, mishaps, backlog>>

\* Mutant of RefreshDue: abandoned passes are not looked for.
RefreshOnlyNamed(s) == source[s].status \in {"pending", "stale", "failed", "indexed"}

\* What the scheduler takes up: pending, stale or failed sources, old ones, and those
\* left indexing for more than the grace by a pass that is no more.
RefreshDue(s) ==
  \/ source[s].status \in {"pending", "stale", "failed", "indexed"}
  \/ source[s].status = "indexing" /\ \A t \in IndexTasks : pass[t].of # s \/ pass[t].gone

RefreshStale(t) == \E s \in Sources : RefreshDue(s) /\ BeginIndex(t, s, FALSE)

\* Stages 2 and 3: the fingerprint, memoized for a while, decides whether to go on.
Probe(t) ==
  /\ pass[t].pc = "probe" /\ ~pass[t].gone
  /\ LET s == pass[t].of
         seen == IF ~pass[t].force /\ memo[s] # NoHash THEN memo[s] ELSE world[s]
         skips == ~pass[t].force /\ pass[t].hash = seen
     IN  /\ memo' = [memo EXCEPT ![s] = seen]
         /\ skips => IndexWriting = {}
         /\ source' = IF skips THEN [source EXCEPT ![s].status = "indexed"] ELSE source
         /\ pass' = [pass EXCEPT ![t] = IF skips THEN NoPass ELSE [@ EXCEPT !.pc = "analyze"]]
  /\ UNCHANGED <<world, document, fact, second, chunkVecs, factVecs, removal, orphans, nextChunk,
                 edits, mishaps, backlog>>

Analyze(t) ==
  /\ pass[t].pc = "analyze"
  /\ pass' = [pass EXCEPT ![t].pc = "documents", ![t].text = world[pass[t].of]]
  /\ UNCHANGED <<world, source, document, fact, second, chunkVecs, factVecs, memo, removal, orphans,
                 nextChunk, edits, mishaps, backlog>>

\* _upsert_documents flushes the row if a column of it differs; what is new, different,
\* forced or without chunks is chunked again.
Differs(t) == document[pass[t].of].text # pass[t].text
Changed(t) == pass[t].force \/ Differs(t) \/ document[pass[t].of].chunk = 0

Documents(t) ==
  /\ pass[t].pc = "documents" /\ ~pass[t].gone
  /\ \E writes \in BOOLEAN :
       /\ Differs(t) => writes
       /\ writes => IndexWriting = {}
       /\ pass' = [pass EXCEPT ![t].pc = IF Changed(t) THEN "rechunk" ELSE "facts",
                    ![t].locked = writes, ![t].stale = document[pass[t].of].chunk,
                    ![t].doc = [document[pass[t].of] EXCEPT !.text = pass[t].text]]
  /\ UNCHANGED <<world, source, document, fact, second, chunkVecs, factVecs, memo, removal,
                 orphans, nextChunk, edits, mishaps, backlog>>

\* Mutant of Swapped: the old vectors are left to be overwritten.
SwappedKeepOld(t, new) == Stored(chunkVecs, new)

Swapped(t, new) == Stored(Dropped(chunkVecs, {pass[t].stale}), new)

\* _rechunk: the document's chunk rows are deleted, fresh ones come, embedded if they can
\* be; in the store the vectors of the new ones replace those of the ids that were read.
Rechunk(t) ==
  /\ pass[t].pc = "rechunk" /\ ~pass[t].gone /\ MayWrite(t)
  /\ nextChunk <= MaxChunks
  /\ nextChunk' = nextChunk + 1
  /\ \E embedded \in BOOLEAN :
       /\ pass' = [pass EXCEPT ![t].pc = "facts", ![t].locked = TRUE,
                    ![t].doc = [RowSeen(t) EXCEPT !.chunk = nextChunk, !.embedded = embedded]]
       /\ chunkVecs' = Swapped(t, IF embedded THEN {nextChunk} ELSE {})
  /\ orphans' = Dropped(orphans \cup IF RowSeen(t).embedded THEN {RowSeen(t).chunk} ELSE {},
                        {pass[t].stale})
  /\ UNCHANGED <<world, source, document, fact, second, factVecs, memo, removal,
                 edits, mishaps, backlog>>

\* Mutant of MergeFacts: a claim seen again is active again.
MergeRevives(t) ==
  /\ pass[t].pc = "facts" /\ MayWrite(t)
  /\ pass' = [pass EXCEPT ![t].pc = "finalize", ![t].locked = TRUE, ![t].doc = RowSeen(t),
                          ![t].row = [fact[pass[t].text] EXCEPT !.state = "active"]]
  /\ UNCHANGED <<world, source, document, fact, second, chunkVecs, factVecs, memo, backlog,
                 removal, orphans, nextChunk, edits, mishaps>>

\* A new row is written; a row that is merged into may have nothing left to change.
Merged(t, row, again) ==
  \E writes \in BOOLEAN :
    /\ pass[t].locked \/ again \/ row # fact[pass[t].text] => writes
    /\ writes => MayWrite(t)
    /\ pass' = [pass EXCEPT ![t].pc = "finalize", ![t].locked = writes, ![t].doc = RowSeen(t),
                            ![t].row = row, ![t].again = again]

\* A claim nobody has made yet becomes a row, with a vector if it can be embedded.
InsertFact(t) ==
  LET c == pass[t].text
  IN  /\ fact[c].state = "none"
      /\ \E embedded \in BOOLEAN :
           /\ Merged(t, [state |-> "active", from |-> pass[t].of, wording |-> "source",
                         embedded |-> embedded], FALSE)
           /\ factVecs' = Stored(factVecs, IF embedded THEN {c} ELSE {})

\* A row with the claim's hash is merged into, active or retired.
MergeSame(t) ==
  LET c == pass[t].text
  IN  /\ fact[c].state # "none" /\ fact[c].wording = "source"
      /\ Merged(t, fact[c], FALSE)
      /\ UNCHANGED factVecs

\* An active row in other words is merged into when its vector is near enough; otherwise
\* the claim becomes a second row.
MergeNear(t) ==
  LET c == pass[t].text
  IN  /\ fact[c].wording = "user"
      /\ \E near \in {FALSE, fact[c].state = "active" /\ c \in factVecs} : Merged(t, fact[c], ~near)
      /\ UNCHANGED factVecs

\* FactService.upsert_many on the one claim of the text.
MergeFacts(t) ==
  /\ pass[t].pc = "facts" /\ ~pass[t].gone
  /\ InsertFact(t) \/ MergeSame(t) \/ MergeNear(t)
  /\ UNCHANGED <<world, source, document, fact, second, chunkVecs, memo, backlog, removal, orphans,
                 nextChunk, edits, mishaps>>

\* _finalize: the fingerprint of what was analyzed, and the commit.  A column that equals
\* what the task loaded is not written.
Finalize(t) ==
  /\ pass[t].pc = "finalize" /\ ~pass[t].gone /\ MayWrite(t)
  /\ LET s == pass[t].of
         c == pass[t].text
     IN  /\ document' = [document EXCEPT ![s] = RowSeen(t)]
         /\ fact' = [fact EXCEPT ![c] = IF pass[t].locked THEN pass[t].row ELSE @]
         /\ second' = IF pass[t].again THEN second \cup {c} ELSE second
         /\ source' = [source EXCEPT ![s].status = "indexed",
                                     ![s].hash = IF c = pass[t].hash THEN @ ELSE c]
  /\ pass' = [pass EXCEPT ![t] = NoPass]
  /\ UNCHANGED <<world, chunkVecs, factVecs, memo, backlog, removal, orphans, nextChunk, edits,
                 mishaps>>

\* _fail: an analyzer raises, the database does, or the task is cancelled.  A pass whose
\* source has been removed finds no row to insert its document under or to update: it fails
\* at its next write, before anything of it is stored.
FailIndex(t) ==
  /\ pass[t].pc # "idle" /\ MayWrite(t)
  /\ \/ mishaps < MaxMishaps /\ mishaps' = mishaps + 1
     \/ pass[t].gone /\ UNCHANGED mishaps
  /\ source' = IF pass[t].gone THEN source
               ELSE [source EXCEPT ![pass[t].of].status = "failed"]
  /\ pass' = [pass EXCEPT ![t] = NoPass]
  /\ UNCHANGED <<world, document, fact, second, chunkVecs, factVecs, memo, removal, orphans,
                 nextChunk, edits, backlog>>

\* The process dies: the mark stays.
IndexDies(t) ==
  /\ pass[t].pc # "idle" /\ mishaps < MaxMishaps
  /\ mishaps' = mishaps + 1
  /\ pass' = [pass EXCEPT ![t] = NoPass]
  /\ UNCHANGED <<world, source, document, fact, second, chunkVecs, factVecs, memo, removal, orphans,
                 nextChunk, edits, backlog>>

-----------------------------------------------------------------------------
(* Registration, and what a person does with facts. *)

AddSource(s) ==
  /\ IndexWriting = {} /\ edits < MaxEdits /\ ~Registered(s)
  /\ source' = [source EXCEPT ![s] = [NoSource EXCEPT !.status = "pending"]]
  /\ edits' = edits + 1
  /\ UNCHANGED <<world, document, fact, second, chunkVecs, factVecs, memo, pass, removal, orphans,
                 nextChunk, mishaps, backlog>>

\* _update_source: another config makes what is stored meaningless, and is part of the
\* key a probe is memoized under.
UpdateSource(s) ==
  /\ IndexWriting = {} /\ edits < MaxEdits /\ Registered(s)
  /\ source' = [source EXCEPT ![s] = [status |-> "stale", hash |-> NoHash]]
  /\ memo' = [memo EXCEPT ![s] = NoHash]
  /\ edits' = edits + 1
  /\ UNCHANGED <<world, document, fact, second, chunkVecs, factVecs, pass, removal, orphans,
                 nextChunk, mishaps, backlog>>

\* remove_source reads the ids of the document's chunks and of its active facts, with no
\* lock ...
RemoveRead(s) ==
  /\ Registered(s) /\ removal = NoRemoval
  /\ removal' = [at |-> "commit", of |-> s, chunks |-> {document[s].chunk},
                 claims |-> {c \in Texts : fact[c].from = s /\ fact[c].state = "active"}]
  /\ UNCHANGED <<world, source, document, fact, second, chunkVecs, factVecs, memo, pass, orphans,
                 nextChunk, edits, mishaps, backlog>>

\* ... retires those facts and deletes the source and all that is the source's by then, in
\* one commit ...
RemoveCommit ==
  /\ removal.at = "commit" /\ IndexWriting = {}
  /\ LET s == removal.of
     IN  /\ fact' = [c \in Texts |->
              [fact[c] EXCEPT !.from = IF @ = s THEN "none" ELSE @,
                              !.state = IF c \in removal.claims THEN "retired" ELSE @]]
         /\ orphans' = orphans \cup
              (IF document[s].embedded THEN {document[s].chunk} \ removal.chunks ELSE {})
         /\ source' = [source EXCEPT ![s] = NoSource]
         /\ document' = [document EXCEPT ![s] = NoDocument]
         /\ memo' = [memo EXCEPT ![s] = NoHash]
         /\ pass' = [t \in IndexTasks |->
              IF pass[t].of = s THEN [pass[t] EXCEPT !.gone = TRUE] ELSE pass[t]]
  /\ removal' = [removal EXCEPT !.at = "chunks"]
  /\ UNCHANGED <<world, second, chunkVecs, factVecs, nextChunk, edits, mishaps, backlog>>

\* ... and the two collections of vectors follow, by the ids read.
RemoveVectors ==
  /\ \/ /\ removal.at = "chunks"
        /\ chunkVecs' = Dropped(chunkVecs, removal.chunks)
        /\ orphans' = Dropped(orphans, removal.chunks)
        /\ removal' = [removal EXCEPT !.at = "facts"]
        /\ UNCHANGED factVecs
     \/ /\ removal.at = "facts"
        /\ factVecs' = Dropped(factVecs, removal.claims)
        /\ removal' = NoRemoval
        /\ UNCHANGED <<chunkVecs, orphans>>
  /\ UNCHANGED <<world, source, document, fact, second, memo, pass, nextChunk, edits, mishaps, backlog>>

RemovalDies ==
  /\ removal # NoRemoval /\ mishaps < MaxMishaps
  /\ mishaps' = mishaps + 1
  /\ removal' = NoRemoval
  /\ UNCHANGED <<world, source, document, fact, second, chunkVecs, factVecs, memo, pass, orphans,
                 nextChunk, edits, backlog>>

\* update_text: new words, and a new embedding if there is an embedder.
EditFact(c) ==
  /\ IndexWriting = {} /\ edits < MaxEdits /\ fact[c].state # "none" /\ fact[c].wording = "source"
  /\ edits' = edits + 1
  /\ \E embedded \in BOOLEAN :
       /\ fact' = [fact EXCEPT ![c].wording = "user", ![c].embedded = embedded]
       /\ factVecs' = IF embedded /\ fact[c].state = "active" THEN factVecs \cup {c} ELSE factVecs
  /\ UNCHANGED <<world, source, document, second, chunkVecs, memo, pass, removal, orphans,
                 nextChunk, mishaps, backlog>>

\* deactivate, and the way back, which has only the old embedding to offer.
SetActive(c) ==
  /\ IndexWriting = {} /\ edits < MaxEdits /\ fact[c].state # "none"
  /\ edits' = edits + 1
  /\ IF fact[c].state = "active"
     THEN /\ fact' = [fact EXCEPT ![c].state = "retired"]
          /\ factVecs' = Dropped(factVecs, {c})
     ELSE /\ fact' = [fact EXCEPT ![c].state = "active"]
          /\ factVecs' = IF fact[c].embedded THEN factVecs \cup {c} ELSE factVecs
  /\ UNCHANGED <<world, source, document, second, chunkVecs, memo, pass, removal, orphans,
                 nextChunk, mishaps, backlog>>

\* embed_backlog selects the chunks and the active facts without an embedding ...
BacklogSelect ==
  /\ backlog.at = "idle"
  /\ backlog' = [at |-> "chunks",
       chunks |-> {document[s].chunk : s \in {s \in Sources : /\ document[s].chunk # 0
                                                              /\ ~document[s].embedded}},
       claims |-> {c \in Texts : fact[c].state = "active" /\ ~fact[c].embedded}]
  /\ UNCHANGED <<world, source, document, fact, second, chunkVecs, factVecs, memo, pass, removal, orphans,
                 nextChunk, edits, mishaps>>

\* ... embeds the chunks and writes rows and vectors, unless one of them is no more ...
ChunksEmbedded ==
  /\ backlog.at = "chunks" /\ IndexWriting = {}
  /\ LET due == {s \in Sources : document[s].chunk \in backlog.chunks}
     IN  IF Cardinality(due) = Cardinality(backlog.chunks)
         THEN /\ document' = [s \in Sources |-> [document[s] EXCEPT !.embedded = @ \/ s \in due]]
              /\ chunkVecs' = Stored(chunkVecs, backlog.chunks)
              /\ backlog' = [backlog EXCEPT !.at = "facts", !.chunks = {}]
         ELSE backlog' = NoBacklog /\ UNCHANGED <<document, chunkVecs>>
  /\ UNCHANGED <<world, source, fact, second, factVecs, memo, pass, removal, orphans, nextChunk, edits,
                 mishaps>>

\* ... and the facts, which are not looked at again.
FactsEmbedded ==
  /\ backlog.at = "facts" /\ IndexWriting = {}
  /\ fact' = [c \in Texts |-> [fact[c] EXCEPT !.embedded = @ \/ c \in backlog.claims]]
  /\ factVecs' = Stored(factVecs, backlog.claims)
  /\ backlog' = NoBacklog
  /\ UNCHANGED <<world, source, document, second, chunkVecs, memo, pass, removal, orphans, nextChunk,
                 edits, mishaps>>

(* The world goes on, and a memoized probe expires. *)

SourceChanges(s) ==
  /\ edits < MaxEdits
  /\ \E text \in Texts \ {world[s]} : world' = [world EXCEPT ![s] = text]
  /\ edits' = edits + 1
  /\ UNCHANGED <<source, document, fact, second, chunkVecs, factVecs, memo, pass, removal, orphans,
                 nextChunk, mishaps, backlog>>

MemoExpires(s) ==
  /\ memo[s] # NoHash
  /\ memo' = [memo EXCEPT ![s] = NoHash]
  /\ UNCHANGED <<world, source, document, fact, second, chunkVecs, factVecs, pass, removal, orphans,
                 nextChunk, edits, mishaps, backlog>>

IndexStep(t) ==
  \/ Probe(t) \/ Analyze(t) \/ Documents(t) \/ Rechunk(t) \/ MergeFacts(t) \/ Finalize(t)
  \/ pass[t].gone /\ FailIndex(t)

KnowledgeNext ==
  \/ \E t \in IndexTasks : RefreshStale(t) \/ IndexStep(t) \/ FailIndex(t) \/ IndexDies(t)
  \/ \E t \in IndexTasks, s \in Sources : BeginIndex(t, s, TRUE)
  \/ \E s \in Sources : AddSource(s) \/ UpdateSource(s) \/ RemoveRead(s)
                        \/ SourceChanges(s) \/ MemoExpires(s)
  \/ \E c \in Texts : EditFact(c) \/ SetActive(c)
  \/ RemoveCommit \/ RemoveVectors \/ RemovalDies \/ BacklogSelect \/ ChunksEmbedded \/ FactsEmbedded

\* The scheduler refreshes, a pass goes on, probes are forgotten.
KnowledgeFairness ==
  /\ \A t \in IndexTasks : WF_knowledgeVars(IndexStep(t))
  /\ \A s \in Sources : WF_knowledgeVars(MemoExpires(s))
                        /\ SF_knowledgeVars(\E t \in IndexTasks :
                                               RefreshDue(s) /\ BeginIndex(t, s, FALSE))

KnowledgeSpec == KnowledgeInit /\ [][KnowledgeNext]_knowledgeVars
KnowledgeFairSpec == KnowledgeSpec /\ KnowledgeFairness
-----------------------------------------------------------------------------
DocumentRow == [text : Texts \cup {"none"}, chunk : 0..MaxChunks, embedded : BOOLEAN]
FactRow == [state : {"none", "active", "retired"}, from : Sources \cup {"none"},
            wording : {"source", "user"}, embedded : BOOLEAN]
PassRow == [pc : {"idle", "probe", "analyze", "documents", "rechunk", "facts", "finalize"},
            of : Sources \cup {"none"}, force : BOOLEAN, hash : Texts \cup {NoHash},
            text : Texts \cup {"none"}, locked : BOOLEAN, gone : BOOLEAN,
            stale : 0..MaxChunks, doc : DocumentRow, row : FactRow, again : BOOLEAN]

KnowledgeTypeOK ==
  /\ world \in [Sources -> Texts]
  /\ source \in [Sources -> [status : {"absent", "pending", "indexing", "indexed", "stale", "failed"},
                             hash : Texts \cup {NoHash}]]
  /\ document \in [Sources -> DocumentRow]
  /\ fact \in [Texts -> FactRow]
  /\ second \subseteq Texts /\ chunkVecs \subseteq 0..MaxChunks /\ factVecs \subseteq Texts
  /\ memo \in [Sources -> Texts \cup {NoHash}]
  /\ pass \in [IndexTasks -> PassRow]
  /\ \A t \in IndexTasks :
       /\ pass[t].pc # "idle" => pass[t].of \in Sources
       /\ pass[t].pc \in {"documents", "rechunk", "facts", "finalize"} => pass[t].text \in Texts
  /\ removal \in [at : {"none", "commit", "chunks", "facts"}, of : Sources \cup {"none"},
                  chunks : SUBSET (0..MaxChunks), claims : SUBSET Texts]
  /\ removal.at = "commit" => removal.of \in Sources
  /\ orphans \subseteq 0..MaxChunks
  /\ backlog \in [at : {"idle", "chunks", "facts"}, chunks : SUBSET (1..MaxChunks),
                  claims : SUBSET Texts]
  /\ nextChunk \in 1..(MaxChunks + 1) /\ edits \in 0..MaxEdits /\ mishaps \in 0..MaxMishaps

\* Semantic search and the rows agree: although the vectors are written before the commit
\* and deleted after it, once nothing is under way the collection holds the vector of every
\* embedded chunk, and of a chunk that is no more only where a pass or a removal had read
\* the ids of the old chunks before another's commit, or one of them has broken off.
VectorsFollowRows ==
  mishaps = 0 /\ IndexWriting = {} /\ removal.at # "chunks"
  => chunkVecs \ {0}
       = {document[s].chunk : s \in {s \in Sources : document[s].embedded}} \cup orphans

\* What a person does to a fact outlives the indexing (facts.py: a rediscovered claim is
\* merged, never revived or reworded): no pass, removal or backlog brings a retired fact
\* back or gives up the person's words, whatever it had loaded before they were written.
PersonHasTheLastWord ==
  [][\A c \in Texts :
       /\ fact[c].state = "retired" /\ fact'[c].state = "active" => SetActive(c)
       /\ fact[c].wording = "user" => fact'[c].wording = "user"]_knowledgeVars

\* Change detection never freezes the knowledge base (the module's docstring, 37-44): what
\* a registered source says in the end is what its document says in the end, whichever
\* passes were skipped, failed, cancelled or killed.
ContentArrives ==
  \A s \in Sources : \A text \in Texts :
    <>[](Registered(s) /\ world[s] = text)
      => <>(document[s].text = text) \/ []<>(nextChunk > MaxChunks)
=============================================================================
