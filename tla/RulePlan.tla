------------------------------ MODULE RulePlan ------------------------------
(***************************************************************************)
(* CompatibilityPlan with the rules of FastRules, over archives whose      *)
(* scripts are known: beside its content an entry carries the lexemes it   *)
(* was written from, its shapes, the rules it was written for, and which   *)
(* of them it was written with the gate for.                               *)
(***************************************************************************)
EXTENDS CompatibilityPlan, FastRules

(* What the properties ask about a script.  A configuration gives each its *)
(* operator below: TLC, when it measures coverage, unfolds every operator  *)
(* that an invariant names, and never ends with these.                     *)
CONSTANTS TokensIn(_),  \* Tokens: what the tokenizer reads
          Changed(_)    \* ChangedAnswers: the features patched beyond their gate

ASSUME TokensInAssumption ==
    \A a \in Archives : \A i \in DOMAIN a.entries :
        TokensIn(a.entries[i].content) = Tokens(a.entries[i].content)

(* These archives list their scripts in the order of their entries. *)
Scanned(i) == archive.entries[i]

FoundIn(i) ==
    IF files[i].path \notin DOMAIN resources THEN {}
    ELSE {f \in FastFeatures : resources[files[i].path].sites[f] # {}}

EditedIn(i) ==
    {f \in FoundIn(i) : \E site \in resources[files[i].path].sites[f] : site.edits # {}}

(***************************************************************************)
(* The tokenizer reads a script as it was written: no blank, comment,      *)
(* string, template or regular expression, and no slash that may be a      *)
(* division, makes it lose its place.                                      *)
(***************************************************************************)
TokensAreTheLexemes ==
    phase = "open" =>
        \A i \in DOMAIN archive.entries :
            LET entry == archive.entries[i]
                tokens == TokensIn(entry.content)
            IN  [k \in DOMAIN tokens |-> tokens[k].units] = entry.lexemes

(***************************************************************************)
(* However a build spaces, quotes and writes it, a rule sees its shape;    *)
(* and what only looks like one - text of a literal, a comment or a        *)
(* regular expression, code with another identifier in one place or        *)
(* without its surroundings - is no site of any rule.  A rule edits the    *)
(* shapes that have their gate, and takes no others for patched.           *)
(***************************************************************************)
SitesAreTheShapes ==
    phase = "planned" =>
        \A i \in DOMAIN files :
            FoundIn(i) = Scanned(i).shapes /\ EditedIn(i) = Scanned(i).guarded

(***************************************************************************)
(* An archive that has every shape, guarded or patched, is never refused:  *)
(* each rule takes for patched what its own edits leave behind.            *)
(***************************************************************************)
EveryBuildIsPatched ==
    phase = "planned" /\ FastFeatures = UNION {Scanned(i).shapes : i \in DOMAIN files} =>
        plan.status = "complete"

RulePatterns ==
    {SpeedGuarded, SpeedPatched, AllowanceGuarded, AllowancePatched, RequestState,
     ConversationGuarded, ConversationPatched, IntelligenceGuarded, IntelligencePatched}

(* Patterns that are looked for around a match. *)
ContextPatterns == {AuthChatgpt, NullableAuth, AllowedBinding, Str("composer.openModelPicker")}

PatternsCutShort(content) ==
    LET tokens == TokensIn(content)
        everywhere(pattern) == UNION {MatchAt(tokens, start, pattern, NoSlots) : start \in DOMAIN tokens}
    IN  {pattern \in RulePatterns : Find(tokens, pattern) # everywhere(pattern)}

(***************************************************************************)
(* The filter of find and any_in drops no match of any rule.               *)
(***************************************************************************)
PivotLosesNothing ==
    phase = "open" =>
        \A i \in DOMAIN archive.entries : PatternsCutShort(archive.entries[i].content) = {}

(***************************************************************************)
(* A patched condition answers every account as the original answers one   *)
(* for which the gate is open: the edits remove the gate, and nothing else *)
(* of what the condition asks.                                             *)
(***************************************************************************)
PatchRemovesOnlyTheGate ==
    phase = "planned" => \A k \in DOMAIN resources : Changed(resources[k].content) = {}
=============================================================================
