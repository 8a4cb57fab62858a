SPECIFICATION Spec
CONSTANTS
    Places <- MCPlaces
    MaxMessages = 2
    MaxSaid = 2
INVARIANTS ReceivedInOrder PostedInOrder NothingLeftRunning
PROPERTIES ImplementsSocketApi Settles
CHECK_DEADLOCK FALSE
