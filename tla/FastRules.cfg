\* Every shape in 15 styles, patched in 8 of them, near misses, and slashes in 20 contexts.
SPECIFICATION Spec
CONSTANTS
    U32 = 32
    U64 = 64
    MaxHeader = 16
    Features <- FastFeatures
    Core <- FastCore
    Anchored <- FastAnchored
    Detect <- FastDetect
    TokensIn <- Tokens
    Changed <- ChangedAnswers
    Continuation = "CONT"
    JsNames = {"1.js", "2.js", "3.js", "4.js", "5.js", "6.js", "7.js", "8.js"}
    HtmlNames = {"x.html"}
    UnsafeNames = {"%"}
    Archives <- MCArchivesOfRules
CHECK_DEADLOCK FALSE
INVARIANTS
    TokensAreTheLexemes
    SitesAreTheShapes
    EveryBuildIsPatched
    PivotLosesNothing
    PatchRemovesOnlyTheGate
