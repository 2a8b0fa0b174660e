------------------------------ MODULE PartsProofs ------------------------------
(***************************************************************************)
(* The components side by side, as MCServices composes them for TLC: each  *)
(* behaviour is one of every component, so what is proved of each holds of *)
(* all together.                                                           *)
(***************************************************************************)
EXTENDS MCServices, SubmissionProofs, InfrastructureProofs, ServiceProofs, DocumentProofs,
        ShellProofs, TLAPS

\* A component that does not move stutters, and the one that does takes a step of its own:
\* the composition behaves as each of its components.
LEMMA EachPartBehaves ==
  PartsSpec => /\ Spec /\ RunSpec /\ LoopSpec /\ ExecSpec /\ CkptSpec /\ BusSpec /\ CacheSpec
               /\ ArtSpec /\ SyncSpec /\ LlmSpec /\ DiscSpec /\ KnowledgeSpec /\ FormSpec
               /\ ShellSpec /\ DocSpec /\ TailorSpec /\ SearchSpec /\ WorkdaySpec /\ EmbedSpec
<1>1. PartsInit => /\ Init /\ RunInit /\ LoopInit /\ ExecInit /\ CkptInit /\ BusInit /\ CacheInit
                   /\ ArtInit /\ SyncInit /\ LlmInit /\ DiscInit /\ KnowledgeInit /\ FormInit
                   /\ ShellInit /\ DocInit /\ TailorInit /\ SearchInit /\ WorkdayInit /\ EmbedInit
  BY DEF PartsInit, MCInit, MCFormInit, MCSearchInit
<1>2. [PartsNext]_everything => /\ [Next]_vars /\ [RunNext]_runVars /\ [LoopNext]_loopVars
                                /\ [ExecNext]_execVars /\ [CkptNext]_ckptVars /\ [BusNext]_busVars
                                /\ [CacheNext]_cacheVars
  BY DEF PartsNext, Only, everything
<1>3. [PartsNext]_everything => /\ [ArtNext]_artVars /\ [SyncNext]_syncVars /\ [LlmNext]_llmVars
                                /\ [DiscNext]_discVars /\ [KnowledgeNext]_knowledgeVars
                                /\ [FormNext]_formVars /\ [ShellNext]_shellVars
  BY DEF PartsNext, Only, everything
<1>4. [PartsNext]_everything => /\ [DocNext]_docVars /\ [TailorNext]_tailorVars
                                /\ [SearchNext]_searchVars /\ [WorkdayNext]_workdayVars
                                /\ [EmbedNext]_embedVars
  BY DEF PartsNext, Only, everything
<1> QED
  BY <1>1, <1>2, <1>3, <1>4, PTL
  DEF PartsSpec, Spec, RunSpec, LoopSpec, ExecSpec, CkptSpec, BusSpec, CacheSpec, ArtSpec, SyncSpec,
      LlmSpec, DiscSpec, KnowledgeSpec, FormSpec, ShellSpec, DocSpec, TailorSpec, SearchSpec,
      WorkdaySpec, EmbedSpec

\* Every component's variables keep the types its module states, along every behaviour of
\* any of them, for every size of each.
THEOREM EveryPartTyped == PartsSpec => []ServicesTypeOK
<1>1. PartsSpec => /\ []TypeOK /\ []RunTypeOK /\ []LoopTypeOK /\ []ExecTypeOK /\ []CkptTypeOK
                   /\ []BusTypeOK /\ []CacheTypeOK
  BY EachPartBehaves, TypeCorrect, RunTypes, LoopTypes, ExecTypes, CheckpointTypes, BusTypes,
     CacheTypes, PTL
<1>2. PartsSpec => /\ []ArtTypeOK /\ []SyncTypeOK /\ []LlmTypeOK /\ []DiscTypeOK
                   /\ []KnowledgeTypeOK /\ []FormTypeOK /\ []ShellTypeOK
  BY EachPartBehaves, ArtTypes, SyncTypes, LlmTypes, DiscTypes, KnowledgeTypes, FormTypes,
     ShellTypes, PTL
<1>3. PartsSpec => /\ []DocTypeOK /\ []TailorTypeOK /\ []SearchTypeOK /\ []WorkdayTypeOK
                   /\ []EmbedTypeOK
  BY EachPartBehaves, DocTypes, TailoringTypes, SearchTypes, WorkdayTypes, EmbedTypes, PTL
<1>4. /\ TypeOK /\ RunTypeOK /\ LoopTypeOK /\ ExecTypeOK /\ CkptTypeOK /\ BusTypeOK /\ CacheTypeOK
      /\ ArtTypeOK /\ SyncTypeOK /\ LlmTypeOK /\ DiscTypeOK /\ KnowledgeTypeOK /\ FormTypeOK
      /\ ShellTypeOK /\ DocTypeOK /\ TailorTypeOK /\ SearchTypeOK /\ WorkdayTypeOK /\ EmbedTypeOK
      => ServicesTypeOK
  BY DEF ServicesTypeOK
<1> QED
  BY <1>1, <1>2, <1>3, <1>4, PTL
=============================================================================
