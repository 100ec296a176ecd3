---------------------------- MODULE RequestPaths ----------------------------
(***************************************************************************)
(* Under which URLs a patched resource is asked for: asar.rs derives the   *)
(* request paths of the planned resources from all paths of the archive,   *)
(* runtime.rs intercepts requests for them and maps each request back.     *)
(*                                                                         *)
(* A path is the sequence of its names.  A name is told apart only by its  *)
(* extension and by whether it is safe in a URL.  The length of a suffix   *)
(* is its number of names: suffixes of one path are ordered by it as by    *)
(* their bytes.                                                            *)
(***************************************************************************)
EXTENDS Naturals, Sequences, FiniteSets, SequencesExt

CONSTANTS JsNames,      \* names that end in ".js", in any case, and not only that
          HtmlNames,    \* names that end in ".html", in any case
          UnsafeNames   \* names with a byte that a URL would not keep as it is

IsJavascriptPath(path) == Last(path) \in JsNames
IsHtmlPath(path) == Last(path) \in HtmlNames

IsSafeRequestPath(path) ==
    path # <<>> /\ \A i \in DOMAIN path : path[i] \notin UnsafeNames \cup {"", ".", ".."}

PathSuffixes(path) == {SubSeq(path, i, Len(path)) : i \in 1 .. Len(path)}

RelativeToRoot(root, path) == SubSeq(path, Len(root) + 1, Len(path))

(* How many JavaScript files of the archive have this suffix. *)
SuffixCount(paths, suffix) ==
    Cardinality({p \in paths : IsJavascriptPath(p) /\ IsSuffix(suffix, p)})

(* The directories of HTML files that hold every target. *)
RendererRoots(paths, targets) ==
    {root \in {Front(p) : p \in {p \in paths : IsHtmlPath(p)}} :
        \A t \in targets : root = <<>> \/ (IsPrefix(root, t) /\ Len(root) < Len(t))}

(* Mutant: unique among the suffixes that are safe to request, of any file. *)
SafeSuffixes(paths, path) == {s \in PathSuffixes(path) : IsSafeRequestPath(s)}

UniqueSuffixes(paths, path) ==
    {s \in PathSuffixes(path) : SuffixCount(paths, s) = 1 /\ IsSafeRequestPath(s)}

PathsOf(paths, targets, path) ==
    LET unique == UniqueSuffixes(paths, path)
    IN  {p \in {RelativeToRoot(root, path) : root \in RendererRoots(paths, targets)} :
            IsSafeRequestPath(p)}
        \cup {s \in unique : \A other \in unique : Len(s) <= Len(other)}

(* resource_request_paths fails where a target has no path, or two targets *)
(* share one.                                                              *)
Ambiguous(paths, targets) ==
    \E t, u \in targets : t # u /\ PathsOf(paths, targets, t) \cap PathsOf(paths, targets, u) # {}

ResourceRequestPaths(paths, targets) ==
    [ok |-> /\ \A t \in targets : PathsOf(paths, targets, t) # {}
            /\ ~Ambiguous(paths, targets),
     map |-> [t \in targets |-> PathsOf(paths, targets, t)]]

(***************************************************************************)
(* RuntimePlan::from turns the map around: a path inserted twice would     *)
(* keep one of its resources, any of them here.                            *)
(***************************************************************************)
RuntimeRequestPaths(map) ==
    [p \in UNION {map[t] : t \in DOMAIN map} |-> CHOOSE t \in DOMAIN map : p \in map[t]]

(* fetch_patterns and normalize_app_resource, for an app:// URL with this  *)
(* path, with or without a query.                                          *)
FetchPatterns(requestPaths) == (DOMAIN requestPaths) \X {"plain", "query"}

Intercepted(path, query, requestPaths) ==
    \E p \in FetchPatterns(requestPaths) : p[2] = query /\ IsSuffix(p[1], path)

NoResource == <<>>

NormalizeAppResource(path, requestPaths) ==
    LET known == PathSuffixes(path) \cap DOMAIN requestPaths
    IN  IF known = {} THEN NoResource
        ELSE requestPaths[CHOOSE s \in known : \A other \in known : Len(other) <= Len(s)]
=============================================================================
