\* One page, full event alphabet: how halves, loads and documents combine.
SPECIFICATION Spec
CONSTANTS
    Loaders = {l1, l2}
    NoLoader = noLoader
    RequestIds = {q1}
    NoRequest = noRequest
    Resources = {core, lazy}
    Required = {core}
    Sessions = {1}
    Unplanned = unplanned
    Inbox <- AllEvents
    MaxQueue = 0
INVARIANTS
    TypeOK
    WaitingHalvesAreCurrent
    VerifiedIsBacked
PROPERTIES
    DocumentSwapResets
