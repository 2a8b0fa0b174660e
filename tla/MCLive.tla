----------------------------- MODULE MCLive -----------------------------
(***************************************************************************)
(* Fair instances  of the components for TLC, side by side: a behaviour is *)
(* a behaviour of one component, chosen at the start, while the others     *)
(* stand still.  Components that do interact are composed in Pipeline.     *)
(***************************************************************************)
EXTENDS
  Submission, RunLoop, InlineExecutor, EventBus, TieredCache, StatusSync, Knowledge, TLC

CONSTANTS
  a1, w1, w2, none, c1, c2, p1, p2, p3, l1, l2, m1, s1, t1

VARIABLE part \* the component this behaviour is one of

MCApps == {a1}
MCWorkers == {w1, w2}
MCNobody == {}
ReadyInit == Init /\ status = [a \in Apps |-> "ready"]

MCLoopOf == [l \in Lookups |-> "loop"]

-----------------------------------------------------------------------------
Parts ==
  {"submit", "loop", "executor", "bus", "cache", "mail", "knowledge"}

everything == <<part, vars, loopVars, execVars, busVars, cacheVars, syncVars, knowledgeVars>>

\* One component starts in any of its initial states, the others rest in one of theirs.
PartsInit ==
  /\ part \in Parts
  /\ ReadyInit
  /\ LoopInit /\ (part # "loop" => mode = "live" /\ others = 0)
  /\ ExecInit
  /\ BusInit
  /\ CacheInit
  /\ SyncInit /\ (part # "mail" => provider = "imap")
  /\ KnowledgeInit /\ (part # "knowledge" => world = [s \in Sources |-> CHOOSE v \in Texts : TRUE])

\* The components but p do not move.
Only(p) ==
  /\ UNCHANGED part
  /\ (p # "submit" => UNCHANGED vars)
  /\ (p # "loop" => UNCHANGED loopVars)
  /\ (p # "executor" => UNCHANGED execVars)
  /\ (p # "bus" => UNCHANGED busVars)
  /\ (p # "cache" => UNCHANGED cacheVars)
  /\ (p # "mail" => UNCHANGED syncVars)
  /\ (p # "knowledge" => UNCHANGED knowledgeVars)

PartsNext ==
  \/ part = "submit" /\ Next /\ Only("submit")
  \/ part = "loop" /\ LoopNext /\ Only("loop")
  \/ part = "executor" /\ ExecNext /\ Only("executor")
  \/ part = "bus" /\ BusNext /\ Only("bus")
  \/ part = "cache" /\ CacheNext /\ Only("cache")
  \/ part = "mail" /\ SyncNext /\ Only("mail")
  \/ part = "knowledge" /\ KnowledgeNext /\ Only("knowledge")

PartsSpec == PartsInit /\ [][PartsNext]_everything

\* The fairness of each component, of the component that moves.
Moves(p) == part = p

PartsFairness ==
  /\ \A w \in Workers : WF_vars(Moves("submit") /\ Ladder(w))
  /\ WF_loopVars(Moves("loop") /\ Tick) /\ WF_loopVars(Moves("loop") /\ Work)
  /\ WF_loopVars(Moves("loop") /\ Reap) /\ WF_loopVars(Moves("loop") /\ GraceOver)
  /\ \A t \in 1..Drains : WF_execVars(Moves("executor") /\ DrainSteps(t))
  /\ WF_busVars(Moves("bus") /\ PumpStep) /\ WF_busVars(Moves("bus") /\ Wake)
  /\ \A p \in Publishers : WF_busVars(Moves("bus") /\ PublisherStep(p))
  /\ \A l \in Lookups : WF_cacheVars(Moves("cache") /\ GetOrSet(l))
  /\ \A p \in MailPolls : WF_syncVars(Moves("mail") /\ MailStep(p))
  /\ \A t \in IndexTasks : WF_knowledgeVars(Moves("knowledge") /\ IndexStep(t))
  /\ \A s \in Sources :
       /\ WF_knowledgeVars(Moves("knowledge") /\ MemoExpires(s))
       /\ SF_knowledgeVars(Moves("knowledge") /\ \E t \in IndexTasks :
                              RefreshDue(s) /\ BeginIndex(t, s, FALSE))

PartsFairSpec == PartsSpec /\ PartsFairness
=============================================================================
