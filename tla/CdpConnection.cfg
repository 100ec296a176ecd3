\* Three events and three commands between the main loop, a handler and the browser.
SPECIFICATION Spec
CONSTANTS
    MaxEvents = 3
    MaxId = 3
    CommandTimeout = 2
    PumpTimeout = 2
    GateTimeouts = {1, 3}
INVARIANTS
    ResponsesAreKept
    AnsweredInTimeIsSeen
PROPERTIES
    EventsInOrder
    GateIsNotSleptThrough
