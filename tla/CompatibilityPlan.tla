------------------------- MODULE CompatibilityPlan -------------------------
(***************************************************************************)
(* plan_patches of asar.rs, from the opened archive to the map of request  *)
(* paths that the session serves: the archive is opened, its packed        *)
(* JavaScript entries are scanned one by one, and the planner's result is  *)
(* given request paths.  What the update does to the file meanwhile is     *)
(* Launcher's subject; here the file does not change.                      *)
(***************************************************************************)
EXTENDS AsarArchive, PatchPlanner, RequestPaths

CONSTANT Archives      \* the files that may be found as app.asar

ASSUME ArchivesAssumption == \A a \in Archives : IsArchive(a)

ASSUME DetectAssumption ==
    \A a \in Archives : \A i \in DOMAIN a.entries : \A f \in Features :
        IsDetection(Detect(f, a.entries[i].content))

VARIABLES archive,      \* the file
          phase,        \* where plan_patches is, or how it ended
          files,        \* archive.files
          next,         \* the entry the scan looks at
          resources,    \* the planner's, by archive path
          plan,         \* what finish returned
          requestPaths, \* the session's map from request path to resource
          extent        \* history: the furthest byte of the file asked for

vars == <<archive, phase, files, next, resources, plan, requestPaths, extent>>

Init ==
    /\ archive \in Archives
    /\ phase = "open"
    /\ files = <<>>
    /\ next = 1
    /\ resources = <<>>
    /\ plan = BlockedPlan
    /\ requestPaths = <<>>
    /\ extent = 0

Open ==
    /\ phase = "open"
    /\ LET flat == FlattenFiles(archive)
       IN  CASE OpenHeader(archive) = "panic" -> phase' = "panicked" /\ UNCHANGED files
             [] OpenHeader(archive) = "opened" /\ flat.ok -> phase' = "scan" /\ files' = flat.files
             [] OTHER -> phase' = "failed" /\ UNCHANGED files
    /\ UNCHANGED <<archive, next, resources, plan, requestPaths, extent>>

IsScannableEntry(file) == ~file.unpacked /\ IsJavascriptPath(file.path)

SkipEntry ==
    /\ phase = "scan" /\ next <= Len(files)
    /\ ~IsScannableEntry(files[next])
    /\ next' = next + 1
    /\ UNCHANGED <<archive, phase, files, resources, plan, requestPaths, extent>>

(* Reading one entry, decoding it, and Planner::scan.  An entry that is    *)
(* not UTF-8 is passed over; a key that was scanned before is an error.    *)
ScanEntry ==
    /\ phase = "scan" /\ next <= Len(files)
    /\ IsScannableEntry(files[next])
    /\ LET file == files[next]
           end == ReadStart(archive, file) + file.size
       IN  /\ extent' = IF end > extent THEN end ELSE extent
           /\ next' = next + 1
           /\ IF ~ReadSucceeds(archive, file) \/ (file.bytes.utf8 /\ file.path \in DOMAIN resources)
              THEN phase' = "failed" /\ UNCHANGED resources
              ELSE /\ UNCHANGED phase
                   /\ resources' = IF file.bytes.utf8
                                   THEN Inserted(resources, file.path, file.bytes.content)
                                   ELSE resources
    /\ UNCHANGED <<archive, files, plan, requestPaths>>

ArchivePaths == {files[i].path : i \in DOMAIN files}

(* ensure_patch_targets_packed asks the first entry with the path. *)
TargetsPacked(targets) ==
    \A t \in targets : \A i \in DOMAIN files :
        files[i].path = t /\ (\A j \in 1 .. i - 1 : files[j].path # t) => ~files[i].unpacked

(* The archive paths that are to be served. *)
TargetPaths(result, scanned) == DOMAIN result.resources

FinishPlan ==
    /\ phase = "scan" /\ next > Len(files)
    /\ LET result == Finish(resources)
           targets == TargetPaths(result, resources)
           paths == ResourceRequestPaths(ArchivePaths, targets)
       IN  /\ plan' = result
           /\ IF result.ok /\ TargetsPacked(targets) /\ paths.ok
              THEN phase' = "planned" /\ requestPaths' = RuntimeRequestPaths(paths.map)
              ELSE phase' = "failed" /\ UNCHANGED requestPaths
    /\ UNCHANGED <<archive, files, next, resources, extent>>

Next == Open \/ SkipEntry \/ ScanEntry \/ FinishPlan

Spec == Init /\ [][Next]_vars

(***************************************************************************)
(* What the launch uses: main.rs goes on only with a plan that is not      *)
(* unsafe.                                                                 *)
(***************************************************************************)
Accepted == phase = "planned" /\ plan.status # "unsafe"

(* What the app gets when it asks for a path; NoContent: its own file. *)
Served(path) == NormalizeAppResource(path, requestPaths)

(***************************************************************************)
(* No number in the file makes the launcher take a slice outside a buffer, *)
(* or ask for (and allocate) bytes beyond the end of the archive: the sums *)
(* of header_json, flatten_files and read_packed_file do not wrap.         *)
(***************************************************************************)
ReadsStayInside == phase # "panicked" /\ extent <= archive.size

(***************************************************************************)
(* collect_edits, edit_conflicts and apply_sorted_edits patch a text as if *)
(* all edits of all features were applied at once to the original.         *)
(***************************************************************************)
PatchIsSimultaneous ==
    \A k \in DOMAIN plan.resources :
        plan.resources[k].content = Simultaneous(resources[k].content, EditsOf(resources[k]))

(***************************************************************************)
(* Edits that cannot be applied make a plan unsafe, and are reported as    *)
(* such: they never surface as an error of apply_sorted_edits.             *)
(***************************************************************************)
ConflictsAreReported == plan.ok

(***************************************************************************)
(* Only for a reason is a plan unsafe: a Core feature without a site, a    *)
(* site outside its text, two different edits that overlap, or a text that *)
(* is not seen as patched when all edits were applied.                     *)
(***************************************************************************)
NotPatchedBy(resource) ==
    LET patched == Simultaneous(resource.content, EditsOf(resource))
    IN  VerificationFails(resource.sites, DetectResource(patched), patched)

BlockedForAReason ==
    phase = "planned" /\ plan.status = "unsafe" =>
        \/ \E f \in Core : ~Found(resources, f)
        \/ \E k \in DOMAIN resources :
            \/ AnyInvalid(resources[k].content, resources[k].sites)
            \/ \E a, b \in EditsOf(resources[k]) : Overlap(a, b)
            \/ NotPatchedBy(resources[k])

(***************************************************************************)
(* Neither does an archive that cannot be patched end as an error of the   *)
(* launcher's own, nor is one refused that could be.                       *)
(***************************************************************************)
RefusedForAReason == ConflictsAreReported /\ BlockedForAReason

(***************************************************************************)
(* Under a plan the launch accepts, whatever script of the archive the app *)
(* asks for by its path, what it gets holds no guarded site of any feature *)
(* (scripts that are not UTF-8 excepted, asar.rs 93-96).                   *)
(***************************************************************************)
NothingGuardedIsServed ==
    Accepted =>
        \A i \in DOMAIN files :
            IsScannableEntry(files[i]) /\ files[i].bytes.utf8 =>
                LET served == Served(files[i].path)
                    text == IF served = NoResource THEN files[i].bytes.content
                            ELSE plan.resources[served].content
                IN  \A f \in Features : \A site \in DetectResource(text)[f] : site.edits = {}

(***************************************************************************)
(* The session may announce readiness only over delivered Core patches:    *)
(* under an accepted plan each Core feature is patched in a resource that  *)
(* readiness waits for, so that it never waits for nothing.                *)
(***************************************************************************)
ReadinessIsNeverVacuous ==
    Accepted =>
        \A f \in Core : \E k \in DOMAIN plan.resources :
            /\ plan.resources[k].requiredForReady
            /\ DetectResource(plan.resources[k].content)[f] # {}

(***************************************************************************)
(* A request for a planned script relative to a renderer root (by its      *)
(* archive path where the archive shows no root), with or without a query, *)
(* is intercepted and answered with that script: no suffix of what is      *)
(* asked for leads to another one.  Left out is a path that is not safe in *)
(* a URL, of a script that has no safe suffix of its own: such a script is *)
(* planned under its path from another root only, and what follows the     *)
(* unsafe part of this one may be the path of another planned script.      *)
(***************************************************************************)
Targets == DOMAIN plan.resources

UrlPaths(target) ==
    LET roots == RendererRoots(ArchivePaths, Targets)
    IN  IF roots = {} THEN {target} ELSE {RelativeToRoot(root, target) : root \in roots}

PlannedIsServedAsItself ==
    Accepted =>
        \A t \in Targets : \A u \in UrlPaths(t) :
            IsSafeRequestPath(u) \/ UniqueSuffixes(ArchivePaths, t) # {} =>
                /\ \A query \in {"plain", "query"} : Intercepted(u, query, requestPaths)
                /\ Served(u) = t

(***************************************************************************)
(* A script the plan leaves alone is answered with the content of another  *)
(* only through that one's path relative to a renderer root: a suffix that *)
(* was taken because it is unique leads to no other file of the archive.   *)
(***************************************************************************)
UniqueSuffixIsUnique ==
    Accepted =>
        \A path \in ArchivePaths \ Targets :
            \A s \in PathSuffixes(path) \cap DOMAIN requestPaths :
                IsJavascriptPath(path) =>
                    \E root \in RendererRoots(ArchivePaths, Targets) :
                        s = RelativeToRoot(root, requestPaths[s])

(***************************************************************************)
(* Every request gets the script it names, patched or not.                 *)
(***************************************************************************)
RequestsReachTheirScript == PlannedIsServedAsItself /\ UniqueSuffixIsUnique
=============================================================================
