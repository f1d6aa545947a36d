--------------------------- MODULE PipelineStages ---------------------------
(***************************************************************************)
(* The ten phases of the Deterministic Inference Contract                  *)
(* (contracts/iec.py) and, for each one, what the pipeline and the         *)
(* capability that owns it do with the inference context:                  *)
(*   - the runtime state the pipeline enters before the stage runs;        *)
(*   - the parts of the context its precondition demands;                  *)
(*   - the parts and the trace entries a successful handler adds.          *)
(* A stage is its position in STAGE_ORDER, so that "the stages that ran    *)
(* are a prefix of the order" is arithmetic.                               *)
(***************************************************************************)
EXTENDS Naturals, StateMachine

\* PipelineStage, numbered by STAGE_ORDER
SessionCreation == 1
ResourceAssessment == 2
DocumentDiscovery == 3
ContextOptimization == 4
EvidenceRetrieval == 5
PromptAssembly == 6
ModelInference == 7
ResponseValidation == 8
MetricsFinalization == 9
SessionCleanup == 10

LastStage == SessionCleanup
Stage == SessionCreation..LastStage

\* _STATE_BY_STAGE: the stages that move the state machine, and where to
StateByStage ==
  [s \in ContextOptimization..ResponseValidation |->
     CASE s = ContextOptimization -> OPTIMIZING
       [] s = EvidenceRetrieval   -> RETRIEVING
       [] s = PromptAssembly      -> PROMPT_READY
       [] s = ModelInference      -> INFERENCING
       [] s = ResponseValidation  -> VALIDATING]

\* The optional parts of the IEC.  `intent' is set with `optimized_context';
\* `evidence' stands for the tuple having been assigned, empty or not.
Artifact == {"resources", "context_package", "optimized_context", "evidence",
             "prompt", "response", "validation", "metrics"}

TraceKey == {"session", "context", "retrieval", "prompt", "inference",
             "validation", "cleanup", "offline", "runtime"}

-----------------------------------------------------------------------------
(* The handler of each stage: what it demands of the context             *)
(* (check_preconditions), the parts it adds, the trace entries it writes.  *)

\* LeanLMRuntime._stage_session
CreatesSession == [needs |-> {}, adds |-> {}, traces |-> {"session"}]

\* LeanLMRuntime._stage_resources
AssessesResources == [needs |-> {}, adds |-> {"resources"}, traces |-> {}]

\* LeanLMRuntime._stage_discovery
DiscoversDocuments == [needs |-> {}, adds |-> {"context_package"}, traces |-> {}]

\* ContextOptimizationCapability, CAP-003; CTX-001 without a package
OptimizesContext ==
  [needs |-> {"context_package"}, adds |-> {"optimized_context"},
   traces |-> {"context"}]

\* EvidenceRetrievalCapability, CAP-004; RET-001 without an optimized context
RetrievesEvidence ==
  [needs |-> {"optimized_context"}, adds |-> {"evidence"},
   traces |-> {"retrieval"}]

\* InferenceExecutionCapability._assemble, CAP-005: demands nothing
AssemblesPrompt == [needs |-> {}, adds |-> {"prompt"}, traces |-> {"prompt"}]

\* InferenceExecutionCapability._infer, CAP-005; INF-001 without a prompt
InfersResponse ==
  [needs |-> {"prompt"}, adds |-> {"response"}, traces |-> {"inference"}]

\* ResponseValidationCapability, CAP-006; VAL-001 without a response
ValidatesResponse ==
  [needs |-> {"response"}, adds |-> {"validation"}, traces |-> {"validation"}]

\* PerformanceEngineeringCapability, CAP-007
FinalizesMetrics == [needs |-> {}, adds |-> {"metrics"}, traces |-> {}]

\* LeanLMRuntime._stage_cleanup
CleansUp == [needs |-> {}, adds |-> {}, traces |-> {"cleanup"}]

\* InferencePipeline._handler_for
HandlerFor(s) ==
  CASE s = SessionCreation     -> CreatesSession
    [] s = ResourceAssessment  -> AssessesResources
    [] s = DocumentDiscovery   -> DiscoversDocuments
    [] s = ContextOptimization -> OptimizesContext
    [] s = EvidenceRetrieval   -> RetrievesEvidence
    [] s = PromptAssembly      -> AssemblesPrompt
    [] s = ModelInference      -> InfersResponse
    [] s = ResponseValidation  -> ValidatesResponse
    [] s = MetricsFinalization -> FinalizesMetrics
    [] OTHER                   -> CleansUp

Needs(s) == HandlerFor(s).needs
Adds(s) == HandlerFor(s).adds
Traces(s) == HandlerFor(s).traces
=============================================================================
