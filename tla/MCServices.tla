----------------------------- MODULE MCServices -----------------------------
(***************************************************************************)
(* Small instances of the components for TLC, side by side: a behaviour is *)
(* a behaviour of one component, chosen at the start, while the others     *)
(* stand still.  Components that do interact are composed in Pipeline.     *)
(***************************************************************************)
EXTENDS
  Submission, RunSession, RunLoop, InlineExecutor, Checkpoints, EventBus, TieredCache,
  Artifacts, StatusSync, LanguageModel, Discovery, Knowledge, FormFilling, Sidecar,
  Documents, Tailoring, BoardSearch, WorkdaySites, Embeddings, TLC

CONSTANTS
  a1, a2, w1, w2, none, r1, r2, x1, x2, d1, d2, c1, c2, c3, p1, p2, l1, l2, l3, m1, m2, s1,
  t1, f1, f2, f3

VARIABLE part \* the component this behaviour is one of

MCApps == {a1, a2}
MCWorkers == {w1, w2}
MCOneApp == {a1}
MCInit == Init /\ status \in [Apps -> {"ready", "needs_review", "confirmed"}]

MCRuns == {r1}
MCActors == {x1, x2}

\* Every lookup on the one event loop of the process; every poll of the one board.
MCLoopOf == [l \in Lookups |-> "loop"]
MCHeadingOf == [f \in {f1, f2} |-> IF f = f2 THEN "projects" ELSE "experience"]
MCImpact == [f \in {f1, f2} |-> IF f = f1 THEN 2 ELSE 1]
MCRetrievable == {{f1, f2}}
MCCitations == {Numbers, {Number(f1, 0, "text")}, {Number(f2, 0, "detail")}}

\* One upload, under a name no generated file has.
MCOffered == <<[name |-> "cv.pdf", size |-> 1]>>

\* One field may be anything, the other is one a person must upload or write.
MCFormInit == FormInit /\ form[f2].kind \in {"essay", "file"} /\ ~form[f2].hostile

MCBoardOf == [p \in Polls |-> "board"]

\* Two boards, one wanted posting of the first behind one that is not; three tenants.
MCBoardList == <<"b1", "b2">>
MCFeed2 == {<<"j1">>, <<"u", "j1", "j2">>}
MCSearchInit ==
  /\ feed \in {<<<<"j1", "u", "j2">>, f>> : f \in IF part = "boards" THEN MCFeed2 ELSE {<<>>}}
  /\ (part # "boards" => paged = FALSE /\ limit = 2)
  /\ SearchInit
MCTenants == <<"t1", "t2", "t3">>

\* Lists with a duplicate and with a blank; what a process may be configured with.
MCInputs == {<<"w1", "w2", "w1">>, <<"w3", "", "w2", "w1">>}
Embedder(by, model, key, keeps) ==
  [provider |-> by, model |-> model, hasKey |-> key, caching |-> keeps]
MCSettings ==
  {Embedder("openai", "m1", TRUE, TRUE), Embedder("openai", "m2", TRUE, TRUE),
   Embedder("openai", "m1", FALSE, TRUE), Embedder("local", "m1", FALSE, FALSE)}

-----------------------------------------------------------------------------
Parts ==
  {"rehearsal", "run", "loop", "executor", "checkpoint", "bus", "cache", "artifact",
   "mail", "model", "discovery", "knowledge", "form", "shell", "document", "tailor",
   "boards", "workday", "embed"}

everything == <<part, vars, runVars, loopVars, execVars, ckptVars, busVars, cacheVars, artVars, syncVars,
    llmVars, discVars, knowledgeVars, formVars, shellVars, docVars, tailorVars,
    searchVars, workdayVars, embedVars>>

\* One component starts in any of its initial states, the others rest in one of theirs.
PartsInit ==
  /\ part \in Parts
  /\ MCInit /\ (part # "rehearsal" => status = [a \in Apps |-> "ready"])
  /\ RunInit
  /\ LoopInit /\ (part # "loop" => mode = "live" /\ others = 0)
  /\ ExecInit
  /\ CkptInit
  /\ BusInit
  /\ CacheInit
  /\ ArtInit
  /\ SyncInit /\ (part # "mail" => provider = "imap")
  /\ LlmInit /\ (part # "model" => caching)
  /\ DiscInit /\ (part # "discovery" => oneWriter)
  /\ KnowledgeInit /\ (part # "knowledge" => world = [s \in Sources |-> CHOOSE v \in Texts : TRUE])
  /\ MCFormInit /\ (part # "form" => form = [f \in Fields |-> CHOOSE s \in Shapes : s.kind = "file" /\ ~s.hostile] /\ page.error = "none" /\ ~armed /\ ~attempt.dry)
  /\ ShellInit /\ (part # "shell" => ~attached)
  /\ DocInit /\ (part # "document" => prefers = "generated")
  /\ TailorInit
  /\ MCSearchInit
  /\ WorkdayInit /\ (part # "workday" => tenant = [t \in Listed |-> "there"])
  /\ EmbedInit /\ (part # "embed" => settings = CHOOSE s \in Settings : TRUE)

\* The components but p do not move.
Only(p) ==
  /\ UNCHANGED part
  /\ (p # "rehearsal" => UNCHANGED vars)
  /\ (p # "run" => UNCHANGED runVars)
  /\ (p # "loop" => UNCHANGED loopVars)
  /\ (p # "executor" => UNCHANGED execVars)
  /\ (p # "checkpoint" => UNCHANGED ckptVars)
  /\ (p # "bus" => UNCHANGED busVars)
  /\ (p # "cache" => UNCHANGED cacheVars)
  /\ (p # "artifact" => UNCHANGED artVars)
  /\ (p # "mail" => UNCHANGED syncVars)
  /\ (p # "model" => UNCHANGED llmVars)
  /\ (p # "discovery" => UNCHANGED discVars)
  /\ (p # "knowledge" => UNCHANGED knowledgeVars)
  /\ (p # "form" => UNCHANGED formVars)
  /\ (p # "shell" => UNCHANGED shellVars)
  /\ (p # "document" => UNCHANGED docVars)
  /\ (p # "tailor" => UNCHANGED tailorVars)
  /\ (p # "boards" => UNCHANGED searchVars)
  /\ (p # "workday" => UNCHANGED workdayVars)
  /\ (p # "embed" => UNCHANGED embedVars)

PartsNext ==
  \/ part = "rehearsal" /\ Next /\ Only("rehearsal")
  \/ part = "run" /\ RunNext /\ Only("run")
  \/ part = "loop" /\ LoopNext /\ Only("loop")
  \/ part = "executor" /\ ExecNext /\ Only("executor")
  \/ part = "checkpoint" /\ CkptNext /\ Only("checkpoint")
  \/ part = "bus" /\ BusNext /\ Only("bus")
  \/ part = "cache" /\ CacheNext /\ Only("cache")
  \/ part = "artifact" /\ ArtNext /\ Only("artifact")
  \/ part = "mail" /\ SyncNext /\ Only("mail")
  \/ part = "model" /\ LlmNext /\ Only("model")
  \/ part = "discovery" /\ DiscNext /\ Only("discovery")
  \/ part = "knowledge" /\ KnowledgeNext /\ Only("knowledge")
  \/ part = "form" /\ FormNext /\ Only("form")
  \/ part = "shell" /\ ShellNext /\ Only("shell")
  \/ part = "document" /\ DocNext /\ Only("document")
  \/ part = "tailor" /\ TailorNext /\ Only("tailor")
  \/ part = "boards" /\ SearchNext /\ Only("boards")
  \/ part = "workday" /\ WorkdayNext /\ Only("workday")
  \/ part = "embed" /\ EmbedNext /\ Only("embed")

PartsSpec == PartsInit /\ [][PartsNext]_everything
-----------------------------------------------------------------------------
\* Every component's variables have the types its module states, along every behaviour of
\* any of them: the row a worker, a request or a sweep writes is one the others can read.
ServicesTypeOK ==
  /\ (part = "rehearsal" => TypeOK)
  /\ (part = "run" => RunTypeOK)
  /\ (part = "loop" => LoopTypeOK)
  /\ (part = "executor" => ExecTypeOK)
  /\ (part = "checkpoint" => CkptTypeOK)
  /\ (part = "bus" => BusTypeOK)
  /\ (part = "cache" => CacheTypeOK)
  /\ (part = "artifact" => ArtTypeOK)
  /\ (part = "mail" => SyncTypeOK)
  /\ (part = "model" => LlmTypeOK)
  /\ (part = "discovery" => DiscTypeOK)
  /\ (part = "knowledge" => KnowledgeTypeOK)
  /\ (part = "form" => FormTypeOK)
  /\ (part = "shell" => ShellTypeOK)
  /\ (part = "document" => DocTypeOK)
  /\ (part = "tailor" => TailorTypeOK)
  /\ (part = "boards" => SearchTypeOK)
  /\ (part = "workday" => WorkdayTypeOK)
  /\ (part = "embed" => EmbedTypeOK)
=============================================================================
