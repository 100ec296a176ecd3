\* Two pages that attach, navigate, load, detach and replace each other.
SPECIFICATION Spec
CONSTANTS
    Loaders = {l1, l2}
    NoLoader = noLoader
    RequestIds = {q1}
    NoRequest = noRequest
    Resources = {core}
    Required = {core}
    Sessions = {1, 2}
    Unplanned = unplanned
    Inbox <- PageEvents
    MaxQueue = 0
SYMMETRY LoaderSymmetry
INVARIANTS
    ReplacementClockMeansNoAppPage
    RenavigatedIsGated
PROPERTIES
    ReadyMeansDelivered
    GateLiftedOnlyByProof
