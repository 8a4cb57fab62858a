SPECIFICATION Spec
CONSTANTS
    Scenarios <- MCScenarios
    Promises <- MCPromises
INVARIANTS EveryoneCalled PromisesAgree ActiveCounts OwnAnswer
PROPERTIES EveryRequestEnds
CHECK_DEADLOCK FALSE
