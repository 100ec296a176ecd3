\* Two pages: the one that is served detaches, the other turns out not to be the app's.
SPECIFICATION Spec
CONSTANTS
    Loaders = {l1, l2}
    NoLoader = noLoader
    RequestIds = {q1}
    NoRequest = noRequest
    Resources = {core}
    Required = {core}
    Sessions = {1, 2}
    Unplanned = unplanned
    Inbox <- PageEvents
    MaxQueue = 0
SYMMETRY LoaderSymmetry
INVARIANTS
    NoPageMeansReplacementAwaited
