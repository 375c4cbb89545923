CONSTANTS
    MaxIncludeDepth = 2
    MaxGenerateRecords = 4
    MaxTTL = 100000
    MaxCNAMEDepth = 4
    EvictBatch = 1
    RRLWindow = 2
    StaleAfter = 1
    AmplificationRatio = 50
    IPv6 = {}
    Scenarios <- MCScenarios
SPECIFICATION Spec
INVARIANTS AnswersFollowZone PolicyBeforeAnswers ReloadSafe CookieGrace
PROPERTY Served
