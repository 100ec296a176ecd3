---------------------------- MODULE PatchPlanner ----------------------------
(***************************************************************************)
(* The planner of patch/planner.rs: which JavaScript resources are to be   *)
(* patched, with what edits, and whether the result may be used at all.    *)
(*                                                                         *)
(* Content is a sequence of bytes (any values; Continuation marks a byte   *)
(* inside a character), a range is a pair of positions lo < hi between     *)
(* them, and a set of features says where it finds its sites: Detect is    *)
(* the feature's rule, Anchored its cheap test on the raw text.  A site    *)
(* without edits is one that is already patched.  The report keeps its     *)
(* status, which decides, and not its messages.                            *)
(***************************************************************************)
EXTENDS Naturals, Sequences, FiniteSets, SequencesExt

CONSTANTS Features,        \* the patch set
          Core,            \* those without which the app must not start
          Anchored(_, _),  \* does the text hold every anchor of a feature
          Detect(_, _),    \* the sites a feature finds in a text
          Continuation     \* a byte that continues a character

ASSUME FeaturesAssumption == IsFiniteSet(Features) /\ Core \subseteq Features

EditRecords == [lo : Nat, hi : Nat, text : Seq(STRING)]
Sites == [lo : Nat, hi : Nat, edits : SUBSET EditRecords]

(* What detect returns: a vector of sites, each with a vector of edits.    *)
IsDetection(sites) ==
    sites \subseteq Sites /\ IsFiniteSet(sites) /\ \A site \in sites : IsFiniteSet(site.edits)

(* Per feature, the sites in a text: a set, since detect_sites adds none   *)
(* that the vector contains.                                               *)
DetectResource(content) ==
    [f \in Features |-> IF Anchored(f, content) THEN Detect(f, content) ELSE {}]

(***************************************************************************)
(* Scanning.                                                               *)
(***************************************************************************)
HasSites(sites) == \E f \in Features : sites[f] # {}

Inserted(resources, key, content) ==
    LET sites == DetectResource(content)
    IN  IF HasSites(sites)
        THEN [k \in DOMAIN resources \cup {key} |->
                IF k = key THEN [content |-> content, sites |-> sites]
                           ELSE resources[k]]
        ELSE resources

(***************************************************************************)
(* The report on what was found.                                           *)
(***************************************************************************)
IsBoundary(content, i) == i = Len(content) \/ content[i + 1] # Continuation

ValidRange(content, range) ==
    /\ range.lo < range.hi
    /\ range.hi <= Len(content)
    /\ IsBoundary(content, range.lo)
    /\ IsBoundary(content, range.hi)

InvalidSite(content, site) ==
    \/ ~ValidRange(content, site)
    \/ \E e \in site.edits : ~ValidRange(content, e) \/ e.lo < site.lo \/ e.hi > site.hi

Found(resources, f) == \E k \in DOMAIN resources : resources[k].sites[f] # {}

AnyInvalid(content, sites) == \E f \in Features : \E site \in sites[f] : InvalidSite(content, site)

(* Mutant: a missing Core feature is reported like a missing menu entry. *)
MissingCoreDegrades(resources) ==
    IF \E k \in DOMAIN resources : AnyInvalid(resources[k].content, resources[k].sites)
    THEN "unsafe"
    ELSE IF \A f \in Features : Found(resources, f) THEN "complete" ELSE "degraded"

InitialStatus(resources) ==
    IF \/ \E f \in Core : ~Found(resources, f)
       \/ \E k \in DOMAIN resources : AnyInvalid(resources[k].content, resources[k].sites)
    THEN "unsafe"
    ELSE IF \A f \in Features : Found(resources, f) THEN "complete" ELSE "degraded"

(***************************************************************************)
(* Edits: collected over all features, sorted by range, each one once.     *)
(***************************************************************************)
EditsOf(resource) == UNION {UNION {site.edits : site \in resource.sites[f]} : f \in Features}

Before(a, b) == a.lo < b.lo \/ (a.lo = b.lo /\ a.hi < b.hi)

(* Which of two different edits of one range comes first is left open: the *)
(* code lets their texts decide, and they conflict whichever way.          *)
EditsByRange(resource) ==
    LET edits == EditsOf(resource)
        listed[n \in 0 .. Cardinality(edits)] ==
            IF n = 0 THEN <<>>
            ELSE LET done == listed[n - 1]
                     rest == edits \ Range(done)
                 IN  Append(done, CHOOSE e \in rest : \A other \in rest : ~Before(other, e))
    IN  listed[Cardinality(edits)]

(* The sites, of whatever features, that ask for an edit. *)
Askers(resource, e) ==
    UNION {{<<f, site>> : site \in {s \in resource.sites[f] : e \in s.edits}} : f \in Features}

CopiesOf(resource, e) == [i \in 1 .. Cardinality(Askers(resource, e)) |-> e]

(* The sorted vector: equal edits side by side, as many as sites ask for.  *)
Repeated(resource, edits) == FlattenSeq([i \in DOMAIN edits |-> CopiesOf(resource, edits[i])])

(* Mutant: an edit that two rules ask for stays in the vector twice. *)
KeepRepeats(edits) == edits

(* dedup_by: an edit goes if it is the one before it. *)
Dedup(edits) ==
    FlattenSeq([i \in DOMAIN edits |->
        IF i > 1 /\ edits[i] = edits[i - 1] THEN <<>> ELSE <<edits[i]>>])

CollectEdits(resource) == Dedup(Repeated(resource, EditsByRange(resource)))

(* Mutant: only edits that start at one place are taken to conflict. *)
ConflictsOnlyAtOneStart(edits) == \E i \in 1 .. Len(edits) - 1 : edits[i + 1].lo = edits[i].lo

(* The scan to the right stops at the first edit that starts clear of the  *)
(* left one; the first edit it looks at decides whether there is a failure.*)
EditConflicts(edits) == \E i \in 1 .. Len(edits) - 1 : edits[i + 1].lo < edits[i].hi

(* Mutant: the text between two edits starts one byte too far. *)
ApplyEditSwallowingByte(content, done, edit) ==
    IF ~done.ok \/ ~ValidRange(content, edit) \/ edit.lo < done.end
    THEN [done EXCEPT !.ok = FALSE]
    ELSE [ok |-> TRUE, end |-> edit.hi,
          output |-> done.output \o SubSeq(content, done.end + 2, edit.lo) \o edit.text]

(* apply_sorted_edits; ok is FALSE where it bails. *)
ApplyEdit(content, done, edit) ==
    IF ~done.ok \/ ~ValidRange(content, edit) \/ edit.lo < done.end
    THEN [done EXCEPT !.ok = FALSE]
    ELSE [ok |-> TRUE, end |-> edit.hi,
          output |-> done.output \o SubSeq(content, done.end + 1, edit.lo) \o edit.text]

ApplySortedEdits(content, edits) ==
    LET done[n \in 0 .. Len(edits)] ==
            IF n = 0 THEN [ok |-> TRUE, end |-> 0, output |-> <<>>]
            ELSE ApplyEdit(content, done[n - 1], edits[n])
        all == done[Len(edits)]
    IN  [ok |-> all.ok,
         output |-> all.output \o SubSeq(content, all.end + 1, Len(content))]

(* Mutant: the sites are counted, and not asked whether they are patched. *)
VerifyCountsOnly(before, after, patched) ==
    \E f \in Features : Cardinality(after[f]) # Cardinality(before[f])

(***************************************************************************)
(* The patched text is scanned again before anything of it is used.        *)
(***************************************************************************)
VerificationFails(before, after, patched) ==
    \E f \in Features :
        \/ Cardinality(after[f]) # Cardinality(before[f])
        \/ \E site \in after[f] : InvalidSite(patched, site) \/ site.edits # {}

BlockedPlan == [ok |-> TRUE, status |-> "unsafe", resources |-> <<>>]

PatchedResource(resource, output) ==
    [content |-> output,
     labels |-> {f \in Features : resource.sites[f] # {}},
     requiredForReady |-> \E f \in Core : resource.sites[f] # {}]

(* Planner::finish; not ok is an error, as opposed to an unsafe plan. *)
Finish(resources) ==
    LET edits == [k \in DOMAIN resources |-> CollectEdits(resources[k])]
        patched == [k \in DOMAIN resources |-> ApplySortedEdits(resources[k].content, edits[k])]
        status == InitialStatus(resources)
    IN  IF status = "unsafe" \/ \E k \in DOMAIN resources : EditConflicts(edits[k])
        THEN BlockedPlan
        ELSE IF \E k \in DOMAIN resources : ~patched[k].ok
        THEN [BlockedPlan EXCEPT !.ok = FALSE]
        ELSE IF \E k \in DOMAIN resources :
                    VerificationFails(resources[k].sites, DetectResource(patched[k].output),
                                      patched[k].output)
        THEN BlockedPlan
        ELSE [ok |-> TRUE, status |-> status,
              resources |-> [k \in DOMAIN resources |->
                               PatchedResource(resources[k], patched[k].output)]]

(***************************************************************************)
(* What applying a set of disjoint edits means, byte by byte and at once.  *)
(***************************************************************************)
Simultaneous(content, edits) ==
    FlattenSeq([i \in 1 .. Len(content) |->
        LET at == {e \in edits : e.lo = i - 1}
        IN  (IF at = {} THEN <<>> ELSE (CHOOSE e \in at : TRUE).text)
            \o (IF \E e \in edits : e.lo < i /\ i <= e.hi THEN <<>> ELSE <<content[i]>>)])

Overlap(a, b) == a # b /\ a.lo < b.hi /\ b.lo < a.hi
=============================================================================
