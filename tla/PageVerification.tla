-------------------------- MODULE PageVerification --------------------------
(***************************************************************************)
(* What the launcher knows of one page target: the PageState enum of       *)
(* runtime.rs and the operations of its PageVerification struct, as        *)
(* operators on values.  FastSession keeps one such value per CDP session. *)
(*                                                                         *)
(* Data is abstracted to what the policy compares.  A page has exactly one *)
(* main frame, so a frame id is either that frame or another one ("sub",   *)
(* which also stands for an empty frame id: it never equals a page's own). *)
(* A URL is about:blank or empty, an app:// document, or anything else.  A *)
(* deadline is a clock: off (None), armed (in the future) or due (passed). *)
(***************************************************************************)
EXTENDS FiniteSets

CONSTANTS Loaders,      \* CDP loader ids, one per committed document
          NoLoader,     \* a missing or empty loader id
          RequestIds,   \* CDP network request ids
          NoRequest,    \* a missing or empty network id
          Resources,    \* archive paths the plan patches
          Required      \* those with required_for_ready

ASSUME LoaderAssumption == NoLoader \notin Loaders
ASSUME RequestAssumption == NoRequest \notin RequestIds
ASSUME RequiredAssumption == Required \subseteq Resources

Frames == {"main", "sub"}
Urls   == {"blank", "app", "other"}
Clocks == {"off", "armed", "due"}

(* One observed side of a script delivery, under the request it names. *)
Halves == [request : RequestIds, half : {"network", "fulfilled"},
           resource : Resources]

Half(q, side, r) == [request |-> q, half |-> side, resource |-> r]

(* The page states.  "absent" is a session with no entry in `pages`. *)
Verifications == [kind : {"intercepting"},
                  loader : Loaders,
                  loaded : BOOLEAN,
                  firstLoadCompleted : BOOLEAN,
                  reverify : Clocks,
                  verified : SUBSET Resources,
                  deliveries : SUBSET Halves]

PageStates == [kind : {"absent", "configuring", "pending"}] \cup Verifications

Absent      == [kind |-> "absent"]
Configuring == [kind |-> "configuring"]
Pending     == [kind |-> "pending"]

Intercepting(page) == page.kind = "intercepting"

NewVerification(loader) ==
    [kind |-> "intercepting", loader |-> loader, loaded |-> FALSE,
     firstLoadCompleted |-> FALSE, reverify |-> "off",
     verified |-> {}, deliveries |-> {}]

(***************************************************************************)
(* Documents.                                                              *)
(***************************************************************************)

(* observe_document returns Ok: a main-frame document seen during the      *)
(* controlled reload must be the app document that the reload is loading.  *)
DocumentAccepted(page, frame, url, loader) ==
    frame = "main" => url = "app" /\ loader = page.loader

SupersedesCompletedLoad(page, frame, loader) ==
    page.firstLoadCompleted /\ frame = "main" /\ loader # page.loader

(* Mutant: a rebind that keeps the halves of the document it leaves. *)
RebindKeepingHalves(page, loader) ==
    [page EXCEPT !.loader = loader, !.loaded = FALSE, !.reverify = "armed",
                 !.verified = {}]

(* The page is reused for a document that committed after the reload. *)
RebindToNavigation(page, loader) ==
    [page EXCEPT !.loader = loader, !.loaded = FALSE, !.reverify = "armed",
                 !.verified = {}, !.deliveries = {}]

(* Mutant: the load of the new document lifts its gate. *)
ObserveLoadAsProof(page, frame, loader) ==
    IF frame = "main" /\ loader \in {NoLoader, page.loader}
    THEN [page EXCEPT !.loaded = TRUE, !.firstLoadCompleted = TRUE,
                      !.reverify = "off"]
    ELSE page

ObserveLoad(page, frame, loader) ==
    IF frame = "main" /\ loader \in {NoLoader, page.loader}
    THEN [page EXCEPT !.loaded = TRUE, !.firstLoadCompleted = TRUE]
    ELSE page

IsLoaded(page) == Intercepting(page) /\ page.loaded

(***************************************************************************)
(* Script deliveries.  `deliveries` holds at most one half per request id: *)
(* an observation either completes the half that waits under its id or     *)
(* takes that half's place.                                                *)
(***************************************************************************)
(* Mutant: two halves of the same side make a pair. *)
CounterpartsOfAnySide(page, q, side, r) ==
    {d \in page.deliveries : d.request = q /\ d.resource = r}

Counterparts(page, q, side, r) ==
    {d \in page.deliveries : d.request = q /\ d.half # side /\ d.resource = r}

OtherRequests(page, q) == {d \in page.deliveries : d.request # q}

PairScriptDelivery(page, q, side, r) ==
    IF Counterparts(page, q, side, r) # {}
    THEN [page EXCEPT !.deliveries = OtherRequests(page, q),
                      !.verified = @ \cup {r}]
    ELSE [page EXCEPT !.deliveries = OtherRequests(page, q) \cup {Half(q, side, r)}]

ObserveScriptRequest(page, q, frame, loader, r) ==
    IF q # NoRequest /\ frame = "main" /\ loader = page.loader
    THEN PairScriptDelivery(page, q, "network", r)
    ELSE page

RecordFulfilledScript(page, q, frame, r) ==
    IF q # NoRequest /\ frame = "main"
    THEN PairScriptDelivery(page, q, "fulfilled", r)
    ELSE page

(***************************************************************************)
(* Readiness and the reverification gate.                                  *)
(***************************************************************************)
MissingResources(page) ==
    IF Intercepting(page) THEN Required \ page.verified ELSE Required

Gated(page) == Intercepting(page) /\ page.reverify # "off"

Overdue(page) ==
    Intercepting(page) /\ page.reverify = "due" /\ MissingResources(page) # {}

(* Mutants: a proven page keeps its clock; a page that has loaded again is *)
(* taken for proven.                                                       *)
SettleNothing(page) == page
SettleOnceLoaded(page) ==
    IF Gated(page) /\ page.loaded THEN [page EXCEPT !.reverify = "off"] ELSE page

(* What settle_reverification_gates leaves of a page it does not fail on. *)
SettleGate(page) ==
    IF Gated(page) /\ MissingResources(page) = {}
    THEN [page EXCEPT !.reverify = "off"]
    ELSE page
=============================================================================
