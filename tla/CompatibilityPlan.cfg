\* Every number of a header, every text of three letters, every layout of six scripts and three pages.
SPECIFICATION Spec
CONSTANTS
    U32 = 32
    U64 = 64
    MaxHeader = 16
    Features <- MCFeatures
    Core = {"allowance"}
    Anchored <- MCAnchored
    Detect <- MCDetect
    Continuation = "~"
    JsNames = {"a.js", "b.js"}
    HtmlNames = {"x.html"}
    UnsafeNames = {"%"}
    Archives <- MCArchives
CHECK_DEADLOCK FALSE
INVARIANTS
    ReadsStayInside
    PatchIsSimultaneous
    RefusedForAReason
    NothingGuardedIsServed
    ReadinessIsNeverVacuous
    RequestsReachTheirScript
