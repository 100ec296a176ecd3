\* One page: a request that is continued is answered too late.
SPECIFICATION Spec
CONSTANTS
    Loaders = {l1, l2}
    NoLoader = noLoader
    RequestIds = {q1}
    NoRequest = noRequest
    Resources = {core}
    Required = {core}
    Sessions = {1}
    Unplanned = unplanned
    Inbox <- AllEvents
    MaxQueue = 0
SYMMETRY LoaderSymmetry
INVARIANTS
    StaleRepliesAreIgnored
