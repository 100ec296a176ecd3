\* One page under fairness, an event held back while its handlers await: no wait lasts for ever.
SPECIFICATION FairSpec
CONSTANTS
    Loaders = {l1, l2}
    NoLoader = noLoader
    RequestIds = {q1}
    NoRequest = noRequest
    Resources = {core}
    Required = {core}
    Sessions = {1}
    Unplanned = unplanned
    Inbox <- AppEvents
    MaxQueue = 1
INVARIANTS
    ConfiguringIsOwned
PROPERTIES
    LaunchSettles
    DueDeadlineIsServed
    HeartbeatRecurs
    ExitEndsRun
