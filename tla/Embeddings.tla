----------------------------- MODULE Embeddings -----------------------------
(***************************************************************************)
(* embed_texts: blanks set aside, duplicates collapsed, what the cache has *)
(* taken from it, the rest sent to the provider batch by batch, retried,   *)
(* read back in request order, cached and put where it belongs.  Several   *)
(* calls share a cache that outlives the process; the next process may be  *)
(* configured with another provider or model.                              *)
(***************************************************************************)
EXTENDS Ranking, SequencesExt

CONSTANTS
  EmbedCalls,    \* tasks that call embed_texts
  Inputs,        \* the lists of texts they call it with; "" is a blank
  Settings,      \* the configurations a process may start with
  BatchSize,     \* OPENAI_BATCH_SIZE
  Attempts,      \* llm_max_retries + 1
  MaxRestarts    \* bound: processes

ASSUME EmbeddingsAssumption ==
  /\ {BatchSize, Attempts} \subseteq Nat \ {0} /\ MaxRestarts \in Nat
  /\ \A i \in Inputs : i \in Seq(STRING) /\ i # <<>>

VARIABLES
  settings,    \* of this process: provider, model, hasKey, caching
  vectorCache, \* the `embedding` namespace of the cache, on disk
  embedding,   \* the call of each task
  restarts

embedVars == <<settings, vectorCache, embedding, restarts>>
-----------------------------------------------------------------------------
NoText == ""
WordsIn(i) == ToSet(i) \ {NoText}
Words == UNION {WordsIn(i) : i \in Inputs}
Zero == [by |-> [provider |-> "none", model |-> "none"], of |-> NoText]

\* resolve_embedding_provider: no credential, no provider.
Provider == IF settings.provider = "openai" /\ ~settings.hasKey THEN "hashing"
            ELSE settings.provider
Identity ==
  [provider |-> Provider, model |-> IF Provider = "hashing" THEN "hashing" ELSE settings.model]
Vector(w) == [by |-> Identity, of |-> w]

Identities ==
  {[provider |-> "hashing", model |-> "hashing"]}
    \cup {[provider |-> s.provider, model |-> s.model] : s \in Settings}
Keys == [by : Identities \cup {[provider |-> "any", model |-> "any"]}, of : Words]
KeyForgets(w) == [by |-> [provider |-> "any", model |-> "any"], of |-> w]
CacheKey(w) == [by |-> Identity, of |-> w]

Quiet == [at |-> "idle", texts |-> <<>>, found |-> <<>>, misses |-> <<>>, fresh |-> <<>>,
          tries |-> 1, result |-> <<>>]

EmbedInit ==
  /\ settings \in Settings
  /\ vectorCache = [k \in {} |-> Zero]
  /\ embedding = [c \in EmbedCalls |-> Quiet]
  /\ restarts = 0

\* Each distinct text once: where it occurs first.
Distinct(texts) ==
  {i \in DOMAIN texts : texts[i] # NoText /\ \A j \in 1 .. (i - 1) : texts[j] # texts[i]}

\* Blanks are answered with zeroes, cached texts from the cache.
Lookup(c) ==
  /\ embedding[c].at = "idle"
  /\ \E texts \in Inputs :
       LET hit(w) == settings.caching /\ CacheKey(w) \in DOMAIN vectorCache
           misses == Subsequence(texts, {i \in Distinct(texts) : ~hit(texts[i])})
       IN embedding' = [embedding EXCEPT ![c] =
            [Quiet EXCEPT !.at = "embed", !.texts = texts, !.misses = misses,
                          !.found = [w \in {v \in WordsIn(texts) : hit(v)} |->
                                       vectorCache[CacheKey(w)]]]]
  /\ UNCHANGED <<settings, vectorCache, restarts>>

\* Hashing needs no requests: it is one batch.
Window(req) ==
  LET size == IF Provider = "hashing" THEN Len(req.misses) ELSE BatchSize
  IN SubSeq(req.misses, Len(req.fresh) + 1,
            Min({Len(req.fresh) + size, Len(req.misses)}))
Awaiting(c) == embedding[c].at = "embed" /\ Len(embedding[c].fresh) < Len(embedding[c].misses)

\* What an endpoint returns: an item for each text, each with its index, in any order.  (The
\* code reads a missing index as 0 and compares only the total: such replies are left out.)
Orders(window) ==
  {q \in [DOMAIN window -> DOMAIN window] :
     IsInjective(q) /\ (Provider = "hashing" => \A i \in DOMAIN q : q[i] = i)}
EmbedReplies(window) ==
  {[i \in DOMAIN window |-> [index |-> p[i], vector |-> Vector(window[p[i]])]] :
     p \in Orders(window)}
\* The vectors by increasing index.
ReadVectors(answer) ==
  LET indexes == {item.index : item \in ToSet(answer)}
      Item(n) == CHOOSE item \in ToSet(answer) : item.index = Nth(indexes, n)
  IN [n \in DOMAIN answer |-> Item(n).vector]

BatchAnswered(c) ==
  /\ Awaiting(c)
  /\ \E answer \in EmbedReplies(Window(embedding[c])) :
       embedding' = [embedding EXCEPT ![c].fresh = @ \o ReadVectors(answer), ![c].tries = 1]
  /\ UNCHANGED <<settings, vectorCache, restarts>>

BatchRetried(c) ==
  /\ Awaiting(c) /\ Provider # "hashing"
  /\ embedding[c].tries < Attempts
  /\ embedding' = [embedding EXCEPT ![c].tries = @ + 1]
  /\ UNCHANGED <<settings, vectorCache, restarts>>

\* The last attempt, a final error, or an answer of the wrong length or width: the vectors
\* of earlier batches go with it.
EmbedFails(c) ==
  /\ Awaiting(c) /\ Provider # "hashing"
  /\ embedding' = [embedding EXCEPT ![c] = [Quiet EXCEPT !.at = "failed"]]
  /\ UNCHANGED <<settings, vectorCache, restarts>>

\* Each position of a text receives the text's vector, blanks the zero vector.
Reassemble(req) ==
  [i \in DOMAIN req.texts |->
     CASE req.texts[i] = NoText -> Zero
       [] req.texts[i] \in DOMAIN req.found -> req.found[req.texts[i]]
       [] OTHER -> req.fresh[CHOOSE n \in DOMAIN req.misses : req.misses[n] = req.texts[i]]]

Deliver(c) ==
  LET req == embedding[c]
      new  == {CacheKey(w) : w \in ToSet(req.misses)}
      Fresh(k) == req.fresh[CHOOSE n \in DOMAIN req.misses : req.misses[n] = k.of]
  IN /\ req.at = "embed" /\ ~Awaiting(c)
     /\ embedding' = [embedding EXCEPT ![c] =
                        [Quiet EXCEPT !.at = "done", !.texts = req.texts,
                                      !.result = Reassemble(req)]]
     /\ vectorCache' = IF settings.caching
                   THEN [k \in DOMAIN vectorCache \cup new |-> IF k \in new THEN Fresh(k)
                                                           ELSE vectorCache[k]]
                   ELSE vectorCache
     /\ UNCHANGED <<settings, restarts>>

\* EMBEDDING_CACHE_TTL_SECONDS, eviction, or a write of the cache that failed.
VectorExpires ==
  \E k \in DOMAIN vectorCache :
    /\ vectorCache' = [j \in DOMAIN vectorCache \ {k} |-> vectorCache[j]]
    /\ UNCHANGED <<settings, embedding, restarts>>

\* The process ends and the next one reads its settings anew; the disk keeps the cache.
Reconfigured ==
  /\ restarts < MaxRestarts
  /\ restarts' = restarts + 1
  /\ settings' \in Settings
  /\ embedding' = [c \in EmbedCalls |-> Quiet]
  /\ UNCHANGED vectorCache

EmbedNext ==
  \/ \E c \in EmbedCalls : Lookup(c) \/ BatchAnswered(c) \/ BatchRetried(c) \/ EmbedFails(c)
                          \/ Deliver(c)
  \/ VectorExpires \/ Reconfigured

EmbedSpec == EmbedInit /\ [][EmbedNext]_embedVars
-----------------------------------------------------------------------------
AnyVector == [by : Identities, of : Words] \cup {Zero}

EmbedTypeOK ==
  /\ settings \in Settings
  /\ DOMAIN vectorCache \subseteq Keys /\ \A k \in DOMAIN vectorCache : vectorCache[k] \in AnyVector
  /\ \A c \in EmbedCalls :
       /\ embedding[c].at \in {"idle", "embed", "done", "failed"}
       /\ embedding[c].tries \in 1 .. Attempts
       /\ ToSet(embedding[c].result) \subseteq AnyVector
       /\ ToSet(embedding[c].fresh) \subseteq AnyVector
       /\ embedding[c].texts \in Inputs \cup {<<>>}
  /\ restarts \in 0 .. MaxRestarts

(* The comparison of a posting with a fact is worth something only if both vectors are of
   the texts they are filed under and of one model (embed_texts, "in input order").  Through
   duplicates, blanks, hits, batches, answers out of order, retries, calls side by side and
   processes configured differently over one cache, each position of a result holds its own
   text's vector by the model now configured. *)
EachTextItsVector ==
  \A c \in EmbedCalls : embedding[c].at = "done" =>
    /\ DOMAIN embedding[c].result = DOMAIN embedding[c].texts
    /\ \A i \in DOMAIN embedding[c].texts :
         embedding[c].result[i] =
           IF embedding[c].texts[i] = NoText THEN Zero ELSE Vector(embedding[c].texts[i])
=============================================================================
