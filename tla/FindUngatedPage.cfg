\* Two pages: the second loads without its scripts.
SPECIFICATION Spec
CONSTANTS
    Loaders = {l1, l2}
    NoLoader = noLoader
    RequestIds = {q1}
    NoRequest = noRequest
    Resources = {core}
    Required = {core}
    Sessions = {1, 2}
    Unplanned = unplanned
    Inbox <- PageEvents
    MaxQueue = 0
SYMMETRY LoaderSymmetry
INVARIANTS
    LoadedPageIsVerifiedOrGated
