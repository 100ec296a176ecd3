# Verification of codex-fast

codex-fast launches the Codex app with a CDP (Chrome DevTools Protocol) pipe, serves
patched renderer scripts through `Fetch.fulfillRequest`, and kills the app when it cannot
prove that a page received them. This directory models the program from the bytes of the
archive to the end of a session, checks it with TLC on small instances, and proves most of its
safety properties with TLAPS, for every value of the constants. Line numbers below are
those of `src/src/`.

## Inventory

| Component | State | Operations | What makes it hard | What makes it correct |
|---|---|---|---|---|
| Session policy, `FastSession` (runtime.rs) | `pages`, `page_replacement_deadline`, the loop it is in and its deadline | one handler per CDP event, `run_session`, the verification loop, `keep_alive`, `ensure_page_interception` | handlers await answers while events pile up; several pages; three kinds of deadline; a browser that may send anything | readiness only over a proven page; a renavigated page is on the clock; no clock kills a served page; every launch settles |
| Page verification, `PageVerification` (runtime.rs) | loader id, loaded, first load, gate, verified resources, waiting halves | rebind, load, two halves of a delivery, settling the gate | the halves of a delivery come in either order, around commits, under reused ids | a resource is verified only by two halves of one request of the current document |
| CDP connection (cdp.rs) | `next_id`, `pending_responses`, `pending_events`, `handling_event` | `start_command`, `wait_response`, `pump_event`, `dispatch_event` | waits nest (main loop, event, handler's own wait) with one deadline each, plus the handler's | no response is lost, events stay in order and never nest, no deadline is slept through |
| Pipe transport (platform/mod.rs) | `pending` bytes, `pending_search_start` | `send`, `next_message_optional`, exit grace | frames split and joined across chunks; an exit racing an I/O error | messages are the frames of the byte stream, in order |
| Launcher (main.rs) | order guard, launched app | guard, running check, inspect, verify snapshots, launch | other launchers, the user and the updater act between two steps | one patched app, started from the archive that was inspected |
| Windows backend (windows.rs) | mutex, suspended process, pipe handles | discover, spawn suspended, check, resume, abort | check and resume are not atomic; exit code 259 | a duplicate never runs |
| macOS backend (macos.rs, macos_logic.rs) | lock file, process group | discover, spawn, check, abort by SIGTERM then SIGKILL | the app runs as soon as it is spawned; descriptors 3 and 4 | an app that is aborted ends |
| Archive and plan (asar.rs) | the open archive, the entries it lists, snapshots | open and check the header, flatten the entries, scan, derive request paths, verify the snapshots | sums in 32 and 64 bits, ambiguous suffixes, entries that are not UTF-8 | no read outside the file; every request gets the script it names |
| Planner (patch/planner.rs) | per resource its content and the sites of each rule | detect, collect and sort edits, find conflicts, apply, detect again | edits of several rules overlap, touch or repeat, and split characters | edits apply as if at once; a plan is blocked for a reason; nothing guarded is served |
| Fast rules (patch/fast.rs) | none | six rules: patterns, surroundings, fields of objects, edits | what a patch leaves must be recognised as patched; a rewritten condition must answer as before | the shape is found in every spelling, near misses are not; only the gate is removed |
| Token matcher (token_match.rs) | none | atoms, slots, spans, the pivot filter | a filter that drops a match goes unseen | the same matches as without the filter |
| Tokenizer (js_tokens.rs) | a stack of delimiters and of template substitutions | tokens and trivia | regular expression or division, nested templates, escapes | the tokens are the lexemes of the script |

The launcher runs one thread. It builds a plan from the archive, starts the app with the
first CDP frame already in the pipe, and hands app, transport and plan to
`PatchSession::run`. The policy calls the connection to send, wait and pump; the connection
calls back into the policy for each event and each due deadline (`SessionHandler`); the
connection calls the transport, which alone sees time pass and the app exit.

`PROJECT.json` lists every component, and under `hazards` each place where this can go
wrong, with the property that watches it.

## Modules

**`PageVerification`** - the `PageState` enum and the methods of `PageVerification` as
operators on records: `NewVerification`, `DocumentAccepted` (`observe_document`),
`RebindToNavigation`, `ObserveLoad`, `ObserveScriptRequest`, `RecordFulfilledScript`,
`PairScriptDelivery`, `SettleGate`. The map `pending_script_deliveries` is a set of halves
with at most one per request id.

**`FastSession`** extends it to the whole policy. The correspondence:

| Model | Code |
|---|---|
| `phase`, `pc` | where `run_session` is: the startup wait, the version command, the loop of `wait_until_fast_ready` (`verify`), of `keep_alive` (`alive`), its heartbeat command; `pc` is the place inside it: a command wait, the top of the loop, the pump, the check after it |
| `phaseClock` | the 45 s reload deadline, or `next_heartbeat` |
| `handler` | the handler that is awaiting an answer, with the locals it still needs (`pageLoaded` is read before the await and used after it) |
| `queue` | `pending_events` |
| `pages`, `replacement` | `pages`, `page_replacement_deadline` |
| `app`, `outcome` | the app process, and how `run` ended |
| `evidence` | history, for each page: whether it navigated after its controlled load, and the delivery halves seen for its current document |

Each `Handle...` operator is one handler from its first line to its return or first await;
`...Answered` operators are the rest after the answer; `ConfigureAnswered` walks the seven
answers of page configuration. An error of a handler is `Fail` (the app is killed by the
drop of `LaunchedApp`) or `AbortPatchWith` (killed first), as in the code. `Finish` resets
the session's state: `run` consumes it.

**`CdpConnection`** is the layer below: the stack of blocked frames (`outer`, the handler's
event `handling`, its own wait `inner`), the pipe, the two pending collections and the
handler's deadline (`gate`), with the order in which `wait_response` looks at them.
**`EventMailbox`** is its abstract specification: the browser's events reach the handler one
at a time, once each, in order. `FastSession` relies on exactly that (`Delivers`, `HoldBack`).

**`PipeTransport`** is the layer below that: `next_message_optional` as the places its loop
goes through (`take`, `exit`, `poll`, `read`), `write_all` (`write`), and `transport_error`
(`grace`, `sleep`), over byte sequences and the app process. **`FrameQueue`** is its abstract
specification: the caller is handed the frames the browser wrote, whole, once, in order.

**`Launcher`** is `run_launch` with the backend of either system (`platform`): the guard, the
running checks, snapshots, the two-step reading of the archive, their verification, the
spawn, the check for duplicates, and the drops on the way out. Several launchers, the user,
the updater, and the death of a launcher interleave between any two steps.
**`MacAppProcess`** is the app's process on macOS: the forked child from `prepare_child` to
its exec (`setpgid`, the two copies, `dup2` onto 3 and 4, close-on-exec, any of which may
fail), then what `abort_patch` and the drop that repeats it do, which `Launcher` takes to be
effective; on Windows it is one call, which may fail. **`ChildDescriptors`** is the
descriptor table under it: which number names which file and closes at the exec.

**`CompatibilityPlan`** is `plan_patches`: open, one step per entry of the scan, finish. It
extends one module per source file it goes through, all of them pure operators:
**`AsarArchive`** (the two pickles, `flatten_files`, `read_packed_file`, in integers of their
width), **`PatchPlanner`** (`detect_resource`, `collect_edits`, `edit_conflicts`,
`apply_sorted_edits`, the report's status, the second detection of `finish`) and
**`RequestPaths`** (`resource_request_paths` and the session's side of them, the interception
patterns and `normalize_app_resource`). The rules are constants there (`Detect`, `Anchored`).

**`JsTokens`**, **`TokenMatch`** and **`FastRules`** are `js_tokens.rs`, `token_match.rs` and
`patch/fast.rs`: pure operators. Every loop of the code is a recursive function there, and no
operator is recursive, so that they can be proved about. `TokenMatch` takes the comparison of a
string token (`StringEq`) as a constant; `FastRules` instantiates it over `JsTokens`.
**`RulePlan`** puts them under `CompatibilityPlan` and states what the real rules must do;
**`RuleConditions`** evaluates the conditions they rewrite (its operators are recursive, and
only TLC uses it). What `RulePlan` asks of a script it asks through two constant operators,
`TokensIn` and `Changed`, which the configuration defines by `Tokens` and `ChangedAnswers`: TLC
unfolds what an invariant names when it measures coverage, and recursion as deep as this one
never unfolds.

How they compose: `Launcher` takes a plan to be what `CompatibilityPlan` ends in and adds the
time that passes around it; `FastSession` takes the plan's request paths and the resources
readiness waits for as `Resources` and `Required`.

The modules that start with `MC` instantiate the others for TLC. **`FastSessionProofs`**,
**`CdpConnectionProofs`**, **`PipeTransportProofs`**, **`LauncherProofs`**, **`MacAppProofs`**,
**`PlanProofs`** and **`RuleProofs`** hold the theorems, **`SequenceLemmas`** the lemmas about
numbers, sequences and recursive functions that several of them rest on.

### Abstractions

- A page has one main frame, so a frame id is `"main"` or `"sub"`; a URL is blank, `app://`
  or other. Loader, request and resource ids are model values.
- A clock is off, armed or due, and becomes due at any moment after it was armed: every
  order of the 20 s, 30 s and 45 s deadlines is allowed. Finer than that nothing is told
  apart: at exact equality of two deadlines `<` and `<=` (cdp.rs 116) make no difference. In `CdpConnection` deadlines are
  ticks left, and time passes only while the thread blocks on an empty pipe: the
  launcher's own work is taken to be instantaneous.
- The browser of `FastSession` is any sender of the events in `Inbox`. A command is answered
  with success, a refusal (only where the code tells refusals apart) or not at all
  (`WaitFails`, which also stands for the command deadline, a broken pipe and a malformed
  message).
- `settle_reverification_gates` stops at the first overdue page; that run ends with it, so
  whether the later pages were settled does not matter.
- In `PipeTransport` a payload byte is the number of its frame, so that a byte in the wrong
  frame shows; `Garbled` frames are not UTF-8. Ticks pass only while the thread sleeps or
  polls. `wait_readable` is both systems' at once: it may return as soon as there are bytes
  (macOS) or sleep its whole timeout first (Windows). Errors of `exit_code` itself are left
  out, and a zero-byte write is an error like any other.
- In `Launcher` a guard reaches as far as its `scope`: a login session for the mutex
  `Local\codex-fast.launch...`, a temporary directory for the lock file. The process list
  reaches every app, suspended ones included, and reading it is one step. A file is its
  version, and a rewrite never brings an earlier version back: the snapshots compare
  hashes, so an archive changed and changed back between them would pass. The identity
  checks and probes may fail at any place (`StepFails`).
- In `MacAppProcess` an app may ignore SIGTERM but not SIGKILL, and a signal takes effect
  after at most `KillDelay` polls. Only the group's leader is followed, as in the code.
  Descriptors 0 to 2 are always open and left out; what the standard library does between
  fork and `prepare_child` is external. The launcher's other files are close-on-exec; one that
  it inherited itself and that is not would stay open in the app (macos.rs 245-262 closes
  none), which no property is about. An error of the exit query (macos.rs 381) counts as "still
  running" in the code; the model has that path for an app that ends right after the query.
- `PipeTransport` has the exit that looks like a running app (`hidden`: on Windows,
  `GetExitCodeProcess` answers 259, `STILL_ACTIVE`, windows.rs 476) besides the one that can
  be told.
- In `AsarArchive` an archive is its numbers and its list of leaves: JSON syntax and SHA-256
  are left out (`json` is the length the text really has, `intact` whether the hash agrees).
  A directory whose `files` is no object (asar.rs 375-378) fails as an invalid entry does, and
  is left out. The widths are the constants `U32` and `U64`, scaled to 32 and 64 in the runs so that
  every sum that could wrap does.
- In `PatchPlanner` content is a sequence of bytes, `Continuation` one inside a character; the
  wording of the report is left out, its status is kept. The sites of a rule are a set
  (`detect_sites` adds none twice), and so are the edits of a site; an edit that several sites
  ask for is in the vector once for each, until `Dedup`.
- In `RequestPaths` a path is the sequence of its names, told apart by extension and by
  whether a URL would keep them.
- A script of `JsTokens` is a sequence of units: a word is one, so that identifier characters
  are not told apart; digits, marks and blanks are one each. `TICK` is the quote of a
  template, `LS` stands for U+2028 and U+2029. Slots of a pattern have names instead of
  indices.


## Runs

| Run | Bounds | Question |
|---|---|---|
| `session_delivery` | 1 page, every event, 2 loaders, 1 request id, 2 resources (1 required), nothing held back | what is ever credited as delivered, and what a new document keeps |
| `session_pages` | 2 pages, the main-frame events of app pages | pages that come, go and replace each other under both clocks; over which one readiness is announced |
| `session_live` | 1 page, app documents only, 1 event held back, `FairSpec` | every launch settles, deadlines are served, heartbeats recur, an exit ends the run; a page that is being configured stays its handler's |
| `connection` | 3 events, 3 commands, deadlines of 1 to 3 ticks | nested waits; refinement of `EventMailbox` |
| `transport` | 3 frames of at most 2 bytes, the last not UTF-8, reads of at most 2 bytes, a deadline of none or past the poll interval, one command larger than the pipe | framing, exits (hidden or not) against failures; refinement of `FrameQueue`; under `FairSpec` every read and blocking write returns |
| `launcher` | either system, 2 launchers, 2 scopes, 2 files, 1 update of each | launchers, user, updater and deaths between any two steps |
| `mac_abort` | descriptors up to 15, the launcher's own files any of 3 to 6; a grace of 4 polls, signals that take up to 3 | whether the app gets its pipes under 3 and 4 and nothing else, whatever numbers they had; an app that exits, ignores SIGTERM, or whose process id is reused |
| `plan` | widths 32 and 64; every text of three letters over rules that behave in every way, every number of a header and extent, every layout of six scripts and three pages | from the bytes of the archive to the requests it answers |
| `rules` | the six rules over scripts in 15 styles, patched ones in 8 of them, mixed builds, near misses, slashes behind 20 contexts | what the tokenizer reads, the rules find and the patched conditions answer |
| `find_no_page`, `find_ungated_page`, `find_stale_reply` | as `session_pages`, `session_pages`, `session_delivery` | the three disagreements below |

Why the bounds are enough. Session: a page needs two loaders to be renavigated and a third
would only repeat the second commit; one request id is where halves can be mistaken for each
other (distinct ids never meet in the table); two resources separate a required one from
one that is not, and a redirect to another resource from a repeated one; two pages suffice
for "last page lost", "first loaded page" and "one replaces the other". One held-back event
is enough for a detach or a commit that arrives while a handler awaits: events are handled
one after the other, so a second one meets the state the first one left, as an event that
was not held back does. `session_live` has one page: with two its graph is too large, so
no run shows how a first page that never completes hides a complete second one (line 827) until
the reload deadline ends the run. Connection: the deadlines make each of handler, inner and outer
deadline come first, or two of them at once. Transport: reads no longer than a frame split and
join frames in every way. Launcher: two launchers with a scope each are what it takes for the
guards to miss each other and only the process list to remain. Child: files up to 6 let
either pipe end have either number it must get, the other's number, or one of the copies', and
15 is low enough for the last copy to fail. Plan: with widths of 32 and 64 the enumerated
numbers lie on both sides of every bound and wrap in every sum; three letters hold two edits
that overlap, touch or repeat and one that splits a character; six scripts under two
directories contain each way for one path to end in another. Rules: a style changes one
choice of a build at a time, the near misses one token of a shape at a time; they follow the
tests of `fast.rs`, `js_tokens.rs` and `token_match.rs`.
The theorems lift most of the safety properties to every value of the constants.
Symmetry (loader ids, which the code compares for equality alone, and launchers, which
differ in nothing) is used in safety runs and never for liveness.
`MCFastSession` defines `PageEvents`, the main-frame events of app pages, where the full
alphabet (`AllEvents`) would be too large; `session_delivery` runs the full one.
`plan` and `rules` are deterministic once an archive is chosen, and end when it is planned or
refused: their cfgs do not check for deadlock.

### Fairness (`session_live`, `transport`)

The launcher is a single thread that never waits without a deadline, a write to a full pipe
excepted (see below), so its loop steps, and the delivery of an event that is already held back, are weakly fair. A handler's wait
ends (answer, error or command deadline) because no event is delivered during it. The
outer waits and the pump deliver events in between, and their end is enabled only between
two of them, hence strong fairness: the pipe is a queue, so what arrived is read after
finitely many messages. A due deadline is looked at on every turn of `wait_response` and
of both loops, and the exit code before every read that finds no buffered message
(platform/mod.rs 176-185), hence strong fairness again; an app that has exited sends no
more messages. Clocks run. `session_live` therefore does not cover a browser that floods
the pipe so that a whole message is always buffered. Nothing but that
it keeps reading is assumed of the browser: it may stay silent or refuse everything.

`transport` assumes the thread runs and time passes, and one thing of the browser: it
keeps reading, because `write_all` blocks without a deadline (lines 123-138). Should it stop
reading with the pipe full, `send` would block until the pipe closes.

## Properties

Safety: `WaitingHalvesAreCurrent`, `VerifiedIsBacked` (nothing is credited to a document that
did not announce it), `ReadyMeansDelivered`, `DocumentSwapResets`, `RenavigatedIsGated`,
`GateLiftedOnlyByProof`, `ReplacementClockMeansNoAppPage`, `ConfiguringIsOwned`; for the
connection `ResponsesAreKept`, `AnsweredInTimeIsSeen`, `GateIsNotSleptThrough` and the
refinement `EventsInOrder`; for the transport `SearchIsSound`, `ExitNoticedInTime`,
`ExitOutranksFailure` and the refinement `FramesInOrder`; for the launcher
`NoTwoPatchedApps`, `PlanIsOfVerifiedArchive`, `GuardOutlivesApp`, `DuplicateReportIsClean`; for the
macOS process `SignalsReachOnlyTheApp`, `AbortEndsApp` and `PipesAreHandedOver` (the app has the
right end under 3 and 4, nobody else keeps it, a failure is reported); for the plan
`ReadsStayInside`, `PatchIsSimultaneous`, `RefusedForAReason`, `NothingGuardedIsServed`,
`ReadinessIsNeverVacuous`, `RequestsReachTheirScript`; for the rules `TokensAreTheLexemes`,
`SitesAreTheShapes`, `EveryBuildIsPatched`, `PivotLosesNothing`, `PatchRemovesOnlyTheGate`.
Liveness: `CallsReturn`, `LaunchSettles`, `DueDeadlineIsServed`, `HeartbeatRecurs`,
`ExitEndsRun`. Each is stated in words where it is defined. For each one `PROJECT.json` names a
mutant: a plausible bug in one definition under which TLC finds the property violated. The
mutants stand next to what they mutate and no behaviour uses them. The type invariants of
`CdpConnection`, `PipeTransport` and `Launcher` are proved and therefore not checked again.

### Where the code and its comments disagree

- `NoPageMeansReplacementAwaited`: with the served page detached while another page is still
  pending, that other page becoming a non-app document empties `pages` (line 570; 513
  likewise) without starting the replacement clock. `keep_alive` then runs on with no page
  to serve and no deadline.
- `LoadedPageIsVerifiedOrGated`: every page starts without a gate (line 587), and one that
  readiness is not judged by, whether it attached before or after it, is never asked whether
  it received its scripts.
- `StaleRepliesAreIgnored`: `is_stale_interception_error` and its test cover
  `Fetch.continueRequest`, but both callers of `continue_request` end the run on any refusal
  (lines 724 and 728).

### What the models show besides

Facts a maintainer may want to know; no text of the repository says otherwise.

- The edit of the allowance rule compares with `!=null` (fast.rs 252) also in a build that
  compares with `!==`: where the data is `undefined`, that build's answer changes.
  `PatchRemovesOnlyTheGate` leaves this value out for such builds.
- A request path relative to a renderer root (asar.rs 212) is planned without asking
  whether another script of the archive ends in it; it would shadow that script if the app
  asked for it by the same path. `RequestsReachTheirScript` covers the others.
- A planned script without a unique suffix that is safe in a URL is known only by its safe
  paths from the renderer roots. Asked for from a root where its path is not safe, it may be
  answered with another planned script that ends in more of that path: with pages in the
  top directory and in `#/c`, a request for `#/c/a/x.js` gets `#/c/c/a/x.js`. The attempt to
  prove the property without this exception found it; the layouts of the run have no such path.
  `RequestsReachTheirScript` leaves it out.
- The tokenizer decides by the tokens before a slash or a question mark: `a?.5:1` is read as
  an optional member, and the slash behind the body of a function expression as the start of
  a regular expression. The contexts of the `rules` run are those the code tells apart.

## Proofs

| Module | Theorems |
|---|---|
| `FastSessionProofs` | `TypeCorrect`, `HalvesAreCurrent`, `Verified`, `ReadyOverDelivered`, `SwapsReset`, `Regated`, `GatesLiftedByProof`, `ReplacementOnlyWhileNoPage`, `ConfiguringOwned` |
| `CdpConnectionProofs` | `ConnectionType`, `ResponsesKept`, `AnsweredSeen`, `GateServed`, `EventsArriveInOrder` |
| `PipeTransportProofs` | `SearchSound`, `ExitOutranks`, `ExitNoticed`, `TransportType`, `FramesArriveInOrder` |
| `LauncherProofs` | `LauncherType`, `NoTwoApps`, `GuardOutlives`, `PlanOfVerifiedArchive`, `DuplicateReports` |
| `MacAppProofs` | `SignalsOnlyToApp`, `AbortEnds`, `PipesHandedOver` |
| `RuleProofs` | `TokensAreInOrder`, `FilterLosesNoMatch`, `PatternsAreSound`, `PivotAlwaysLosesNothing`, `RulesAreSound` |
| `PlanProofs` | `FinishIsSound`, `ReadsInside`, `HeaderInside`, `ReadsStayInsideAlways`, `PatchesAreSimultaneous`, `RefusalsHaveReasons`, `ReadinessIsAwaited`, `NothingGuarded`, `RequestsReach`, `SoundRulesAreNotRefused` |

All of them hold for any value of the constants under the named assumptions of the module
they are about. Two of these say more than that a bound is a number. `NumbersAssumption`: there
is room for the nine descriptors that are opened before the fork, for where there is not the
launch has ended. `ArchivesAssumption` and `DetectAssumption`: an archive is what reading a file
and parsing its header deliver (numbers of their width, names that are not empty lists),
and a rule reports finitely many sites with finitely many edits, about which nothing else is
assumed: they may overlap, end outside the text or split characters. That the rules of
`FastRules` are such rules is no assumption: `RulesAreSound` proves it. `TokensInAssumption` says
that the constant `TokensIn` is what the configuration makes of it, the tokenizer, and
`UnitsAssumption` that the units the rules write are strings.

**The session** (any sets of sessions, loaders, requests and resources, any `Inbox` and queue
bound), in three layers.

1. Types. A lemma per page operator, then `TypeOK` by action.
2. `NextSteps`: every step does to every page one of the things `PageStep(s)` lists: nothing;
   start (with empty evidence), commit, vanish; a load; a half observed with its evidence; a
   settled or expired gate. This is the only place where the actions are taken apart
   for the policy's properties.
3. The theorems follow from `PageStep` without looking at the actions again. `VerifiedIsBacked`
   is not inductive alone: a half that waits turns into a verified resource when its
   counterpart arrives, so the invariant `EvidenceInv` adds that waiting halves are backed and
   unique per request id. `RenavigatedIsGated` needs both that and `GateInv`: a gate goes off only
   over a page that lacks no script, and within one document none is lost again. `ReplacementOnlyWhileNoPage` adds that only the
   removal of the last page arms the clock and that starting a page clears it.
   `ReadyOverDelivered` combines the evidence with the guard of `AnnounceReady`.
   `ConfiguringOwned` rests on events being handled only while the session is idle: no page
   is Configuring then, and whoever makes one so ends that before it is idle again.

**The connection** (any number of events and commands, any deadlines). `StackInv`: an id belongs
to one frame that waits for it, or to the handler that has yet to wait, never to both, so a
response that is taken was nobody else's; that makes `ResponsesAreKept` inductive.
`TimeOutInv` adds `ExpiredIsStored`: a frame whose time is up and that was answered in time
finds the answer set aside, because time passed only while the pipe was empty. `PumpInv`: a
pump never waits longer than the handler's deadline, which gives the action property
`GateIsNotSleptThrough`. `EventsArriveInOrder` maps the state to `EventMailbox`: the inbox is the
events set aside followed by those in the pipe. A message that is read takes its event from
the front (`EventsShrink`), one that is sent adds it to the end (`EventsGrow`), and setting one
aside moves it across the joint and changes nothing, which is why an event may be
dispatched from the pipe only when none is set aside.

**The transport** (frames, reads and durations of any size). `BufferInv` carries the types of the
buffers with `SearchIsSound`; that the search finds the *first* delimiter rests on the
well-foundedness of the numbers (`LeastNumber`). `ExitNoticedInTime` needs two invariants:
`NapInv` (a nap ends with the call's time at the latest) and `NoticeInv` (an exit closes the
pipe, so a call that notices by the pipe has at most one grace left, and one that can be told
at most the nap it was in). `FramesArriveInOrder` needs `FrameInv`: the frames that were written
and not handed over lie one behind the other, each with its delimiter, in what is buffered
and what is still in the pipe together (`Laid`, which names where each frame ends). A write adds
a frame at the end, a read only moves the joint between the two, and the first delimiter
that the search finds is the end of the first frame, because no frame contains one.

**The launcher** (any number of launchers, scopes, files and rewrites). `NoTwoPatchedApps` and
`GuardOutlivesApp`: which apps run is fixed by where their launchers are, and a launcher past
its check for duplicates saw no other. `PlanInv`: versions only grow, so what is read between a
snapshot and its verification is the verified version. `DuplicateReportIsClean`: the report is
made only on a path whose app was ended.

**macOS.** `SignalInv`: a process id is given away only after a reap, and the code signals only
where it has just asked for the exit code in vain. `KillInv`: past its `setpgid` the child leads
the group that is signalled, and from the SIGKILL on the time it still takes is less than what
the abort still waits. `HandInv`, for `PipesHandedOver`, says at each place of `prepare_child` which
numbers survive an exec: none, one copy, two copies, then 3 and 4 alone; and that the pipe for
the child's report is none of these. `ForkTable` is where that starts: the four pipe ends take
the lowest numbers, so 3 and 4 are in use before the report's is opened.

**The planner** (any texts, features, sites and edits). `FinishIsSound` describes what
`Planner::finish` returns. Its loops are recursive functions; `Recursion` in `SequenceLemmas` shows
that such a function exists, and an induction over its steps what it computes. `CollectEdits`
lists every edit once, in order of position (`DedupRepeated`: equal edits stand side by side, so
comparing neighbours leaves one of each). Edits that do not conflict with their
neighbours in that order conflict with none (`NeighboursSuffice`), which is what makes the
code's pairwise check enough. `AppliedEdits`: a pass over such a list gives the text in which
every edited stretch is replaced and every other byte is kept; it is compared, byte range by
byte range, with the definition that replaces them all at once.

**The matcher** (any tokens, patterns and ranges). `FilterLosesNoMatch`: `find` and `any_in` try a
match only where the pattern's longest literal stands, and yet find what trying everywhere
would. `MatchedEnds` says where a partial match stands while every atom so far takes one token or
none; `PivotIsInEveryMatch` that a literal at that distance is in every match. Its hypothesis,
`IsPattern`, is the shape of `Atom`. `PatternsAreSound` proves it of every pattern of
`patch/fast.rs`, part by part (a join of sound patterns is sound and has the slots of both), so
that `PivotAlwaysLosesNothing` holds of the real patterns over the tokens of any script.

**The tokenizer** (a text of any length, well formed or not). Its scanners call each other: a
template's substitution is scanned by tokens, one of which may be a template. In the model each
is a function defined by its own recursion, and TLA+ says nothing of such a function until one
that satisfies the definition is shown to exist. `RecursiveFunctionIs` in `SequenceLemmas` is
that lemma, stated once: a definition (`Recurs`) whose every use of itself lowers a number
exists, and its values lie where those of each step do. The number is what is left of the text,
and for templates how deeply they may still nest in it. Scanner by scanner this gives where each one
stops: past where it started and inside the text, an unclosed string or comment included.
`TokensAreInOrder` follows by induction along the stream: each token starts where
the trivia behind the last one ended. That is what the ranges of `token_range` rest on, and so
the edits: a range of tokens is a stretch of the text, and later tokens lie behind it.

**The rules** (any text whose units are whole characters). `RulesAreSound`: each of the six rules
finds finitely many sites, and none that the planner would refuse for its ranges.
`StepFollows` says what one atom does to a match: the place it stands at, and the one identifier,
span or value it may bind. `MatchIs` carries this along a pattern: a match binds each slot that
the pattern mentions, each identifier to a token, each span to tokens it has passed, and there
is one match at a token at most. So the edits ask `Hit::ident` and `Hit::span` only for slots
that are bound, and `SiteIsSound` makes ranges of the text of them. The slash command has no
pattern: `EnclosingBraceIs`, `MatchingCloseIs` and `FieldEndsIs` bound the recursive walks over the
brackets, backwards and forwards, again by `RecursiveFunctionIs`, so that the field that is
rewritten lies between the brackets of its object. With `SoundRulesAreNotRefused` of `PlanProofs`:
what can make a plan unsafe is a missing Core feature, edits that conflict or a text that is not
seen as patched, never a range.

**The plan** (archives of any size and content, any two widths). `IInv` says where `plan_patches`
is: `FilesInv` (what was listed is what a valid header lists, and nothing was read beyond the
end of the file), `ResourcesInv` (the resources are the scripts with sites among the files
scanned so far, with nothing lost) and `PlanInv` (the plan is what `finish` makes of them, and the
request paths are derived for it). The properties follow from `IInv`: `ReadsStayInsideAlways` from
`ReadsInside` (a checked sum is exact or no number, and stays no number), the three about the
planner from `FinishIsSound`, and `RequestsReach` from lemmas on paths and their suffixes (two
paths that end in one suffix share every shorter one, so a suffix that is unique leads to no
other file).

Only model-checked: the liveness properties, since fairness and ENABLED are out of the
prover's reach; and four of the five invariants of `rules`. `TokensAreTheLexemes`,
`SitesAreTheShapes`, `EveryBuildIsPatched` and `PatchRemovesOnlyTheGate` say what the rules answer
for the scripts the run writes down, unit by unit: that is a computation, for which there is
no general statement to prove (which script counts as guarded is what the rules define).
Every other property that a run expects to hold is a theorem.

## Not modelled, and what could come next

1. `PatchSession`: `FastSession` over `CdpConnection` in one module, instead of each relying on
   what the other promises. Its states are their product; the mailbox refinement is what
   makes the separation sound.
2. The choice among installed packages and bundles (windows.rs `discover`, macos_logic.rs):
   the parsing of manifests, plists, `lsappinfo` and `ps` output it consists of is text
   processing without state.
3. The dialogs, exit codes and the `scan` command of `main.rs`: the plan and its output.

What no property covers, because the code has no step that could prevent it: the user
starting the app after the last check, an update between the verification and the app's own
reading of its archive, and a suspended process that a dying launcher leaves behind on
Windows, which later launches take for a running app. `PROJECT.json` lists them as hazards.

Left out for good: the syntax of JSON, SHA-256 and base64, the Win32 and libc wrappers,
packaging and CI, and the wording of output.
