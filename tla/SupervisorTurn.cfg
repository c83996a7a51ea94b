SPECIFICATION Spec
CONSTANTS
    PlainMembers = {"cron_manager"}
    Pipelines = {"dev_pipeline"}
    AdvancedMembers = {"tot_agent"}
    Layers = {"skynet", "kokoro"}
    Anonymous = {"tot_agent", "kokoro"}
    HitlMembers = {"dev_pipeline", "cua"}
    NestedAnswers = {2}
    IntentRoutes = {"cron_manager", "tot_agent", "skynet"}
    DispatcherWorkers = 10
    ParallelMaxWorkers = 2
    HistoryWindow = 4
    PlanSizes = {0, 3}
    RecursionLimit = 9
    MaxTurns = 3
INVARIANTS
    TypeOK
    NamedIsLast
    
    OnlyPipelinesMissed
PROPERTIES
    ImplementsTurnContract
CHECK_DEADLOCK FALSE
