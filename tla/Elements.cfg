SPECIFICATION Spec
CONSTANTS
    Scenarios <- MCScenarios
INVARIANTS CacheBelongs HandlersKept DispatchAsBound QueueInOrder StyleComesBack SelectsAsDefined ReadyKept
PROPERTIES EverythingEnds
CHECK_DEADLOCK FALSE
