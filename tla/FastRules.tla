----------------------------- MODULE FastRules -----------------------------
(***************************************************************************)
(* The six rules of patch/fast.rs: what each one looks for in a script,    *)
(* which of it is already patched, and the edits for the rest.  Slots of   *)
(* the patterns are named for what the identifier holds.                   *)
(***************************************************************************)
EXTENDS JsTokens

INSTANCE TokenMatch

FastCore == {"allowance", "request", "conversation"}
FastFeatures == FastCore \cup {"speed", "intelligence", "slashCommand"}

Anchors(feature) ==
    CASE feature = "speed" -> {<<"isServiceTierAllowed">>, <<"availableOptions">>}
      [] feature = "allowance" -> {<<"featureRequirements">>, <<"authMethod">>, <<"fast_mode">>,
                                   <<"isServiceTierAllowed">>}
      [] feature = "request" -> {<<"authMethod">>, <<"priority">>}
      [] feature = "conversation" -> {<<"serviceTierForRequest">>, <<"selectedServiceTier">>,
                                      <<"isServiceTierAllowed">>}
      [] feature = "intelligence" -> {<<"composer.openModelPicker">>, <<"availableOptions">>}
      [] feature = "slashCommand" -> {<<"requiresEmptyComposer">>, <<"service-tier:", "$", "{">>}

(* Feature::is_active *)
FastAnchored(feature, source) ==
    \A anchor \in Anchors(feature) : \E i \in 0 .. Len(source) - 1 : StartsWith(source, i, anchor)

Declaration == OneOf({"let", "const", "var"})

(* The units that the edits write: STRING has them, as it has every unit of a script. *)
ASSUME UnitsAssumption ==
    {"!", "&", "(", ")", "?", "=", "null", ".", "requirements", "featureRequirements",
     "fast_mode", "1", ":", "0", ","} \subseteq STRING

EditOf(range, text) == [lo |-> range.lo, hi |-> range.hi, text |-> text]
SiteOf(range, edits) == [lo |-> range.lo, hi |-> range.hi, edits |-> edits]

Span(tokens, hit, slot) == TokenRange(tokens, hit.spans[slot][1], hit.spans[slot][2])
Units(tokens, hit, slot) == tokens[hit.ids[slot]].units

HitSites(tokens, hit, edits) ==
    {SiteOf(range, edits) : range \in TokenRange(tokens, hit.start, hit.end)}

(* pattern_sites: Rewrite yields a set of edits, Valid looks at the surroundings. *)
PatternSites(tokens, guarded, patched, Rewrite(_), Valid(_)) ==
    LET sites(pattern, Edits(_)) ==
            UNION {HitSites(tokens, hit, Edits(hit)) : hit \in {h \in Find(tokens, pattern) : Valid(h)}}
    IN  sites(guarded, Rewrite) \cup sites(patched, LAMBDA hit : {})

RemoveCapturedSpan(tokens, hit) == {EditOf(range, <<>>) : range \in Span(tokens, hit, "guard")}

(***************************************************************************)
(* Objects: the brackets around a token, and the fields between them.      *)
(***************************************************************************)
OpeningFor == [close \in {")", "]", "}"} |->
                   CASE close = ")" -> "(" [] close = "]" -> "[" [] close = "}" -> "{"]
Brackets == {"(", "[", "{"}
IsOpen(text) == text \in Brackets

(* update_stack: the stack after a token, nothing when a bracket does not fit. *)
UpdateStack(stack, text) ==
    CASE IsOpen(text) -> {Append(stack, text)}
      [] text \in DOMAIN OpeningFor ->
           IF stack # <<>> /\ Last(stack) = OpeningFor[text] THEN {Front(stack)} ELSE {}
      [] OTHER -> {stack}

(* The bracket where a stack of open ones is used up, from the opening one on. *)
MatchingClose(tokens, open) ==
    LET close[s \in [at : 1 .. Len(tokens) + 1, stack : Seq(Brackets)]] ==
            IF s.at > Len(tokens) THEN {}
            ELSE UNION {IF after = <<>> THEN {s.at} ELSE close[[at |-> s.at + 1, stack |-> after]] :
                        after \in UpdateStack(s.stack, tokens[s.at].text)}
    IN  close[[at |-> open, stack |-> <<>>]]

(* Backwards from token i; the stack holds the openings of the brackets passed. *)
EnclosingBrace(tokens, i) ==
    LET brace[s \in [at : 0 .. Len(tokens), stack : Seq(Brackets)]] ==
            LET text == TextAt(tokens, s.at)
                before == [s EXCEPT !.at = s.at - 1]
            IN  IF s.at = 0 THEN {}
                ELSE IF text \in DOMAIN OpeningFor
                     THEN brace[[before EXCEPT !.stack = Append(s.stack, OpeningFor[text])]]
                ELSE IF IsOpen(text) /\ s.stack # <<>>
                     THEN IF Last(s.stack) = text THEN brace[[before EXCEPT !.stack = Front(s.stack)]]
                          ELSE {}
                ELSE IF text = "{" THEN {s.at}
                ELSE brace[before]
    IN  brace[[at |-> i, stack |-> <<>>]]

(* ObjectView::enclosing *)
EnclosingObject(tokens, i) ==
    UNION {{[open |-> open, close |-> close] : close \in MatchingClose(tokens, open)} :
           open \in EnclosingBrace(tokens, i)}

(* Where the commas of the object itself are, and its end. *)
FieldEnds(tokens, object) ==
    LET ends[s \in [at : object.open + 1 .. object.close, stack : Seq(Brackets)]] ==
            IF s.at = object.close THEN {object.close}
            ELSE (IF s.stack = <<>> /\ tokens[s.at].text = "," THEN {s.at} ELSE {})
                 \cup UNION {ends[[at |-> s.at + 1, stack |-> after]] :
                             after \in UpdateStack(s.stack, tokens[s.at].text)}
    IN  ends[[at |-> object.open + 1, stack |-> <<>>]]

(* ObjectView::field: the value of the one field with a key, its tokens lo .. hi - 1. *)
Field(tokens, object, key) ==
    LET ends == FieldEnds(tokens, object)
        first(end) == 1 + CHOOSE i \in {object.open} \cup ends :
                              i < end /\ \A j \in ends : j < end => j <= i
        fields == {end \in ends : /\ first(end) + 2 < end
                                  /\ tokens[first(end)].text = key
                                  /\ tokens[first(end) + 1].text = ":"}
    IN  IF Cardinality(fields) = 1 THEN {[lo |-> first(end) + 2, hi |-> end] : end \in fields} ELSE {}

SingleIdent(tokens, range) ==
    IF range.hi = range.lo + 1 /\ tokens[range.lo].kind = "Ident" THEN {range.lo} ELSE {}

IdentField(tokens, object, key) ==
    UNION {SingleIdent(tokens, range) : range \in Field(tokens, object, key)}

(* bool_value of a field *)
BoolField(tokens, object, key) ==
    UNION {{b.value : b \in {v \in BoolValue(tokens, range.lo) : v.end = range.hi}} :
           range \in Field(tokens, object, key)}

(* bindings maps keys to identifiers; first is the key that is looked for. *)
HasObjectMapping(tokens, start, limit, first, bindings) ==
    \E i \in (start .. start + limit - 1) \cap DOMAIN tokens :
        /\ tokens[i].text = first
        /\ \E object \in EnclosingObject(tokens, i) :
            \A key \in DOMAIN bindings :
                \E ident \in IdentField(tokens, object, key) :
                    tokens[ident].text = tokens[bindings[key]].text

TokensBefore(hit, limit, tokens) == (hit.start - limit .. hit.start - 1) \cap DOMAIN tokens

(***************************************************************************)
(* Speed setting.                                                          *)
(***************************************************************************)
SpeedHead ==
    Run(<<"isServiceTierAllowed", ":">>) \o Ident("allowed") \o Run(<<"}", "=">>) \o AnyIdent
    \o Run(<<"(", ")", ",", "{", "serviceTierSettings", ":">>) \o Ident("settings")
    \o Run(<<",", "setServiceTier", ":">>) \o AnyIdent \o Run(<<"}", "=">>) \o AnyIdent
    \o Run(<<"(", ")", ";", "if", "(">>)
SpeedTail ==
    Ident("settings") \o Member("availableOptions") \o Member("length")
    \o Run(<<"<=", "1", ")", "return", "null", ";">>)

SpeedGuarded ==
    SpeedHead \o Begin("guard") \o Run(<<"!">>) \o Ident("allowed") \o Run(<<"||">>) \o End("guard")
    \o SpeedTail
SpeedPatched == SpeedHead \o SpeedTail

DetectSpeedSetting(tokens) ==
    PatternSites(tokens, SpeedGuarded, SpeedPatched,
                 LAMBDA hit : RemoveCapturedSpan(tokens, hit), LAMBDA hit : TRUE)

(***************************************************************************)
(* Service tier allowance.                                                 *)
(***************************************************************************)
FastMode == Member("requirements") \o Member("featureRequirements") \o Member("fast_mode")
            \o Run(<<"!==">>) \o Bool(FALSE)
AllowanceQuery ==
    Declaration \o Run(<<"{", "data", ":">>) \o Ident("data") \o Run(<<",", "isPending", ":">>)
    \o Ident("pending") \o Run(<<"}", "=">>) \o AnyIdent \o Run(<<"(">>) \o AnyIdent
    \o Run(<<",">>) \o AnyIdent \o Run(<<")", ",">>)
AllowanceLoading ==
    Ident("loading") \o Run(<<"=", "!", "!">>) \o Ident("source") \o Member("isLoading")
    \o Run(<<"||">>) \o Ident("auth") \o Run(<<"&&">>) \o Ident("pending") \o Run(<<",">>)
AllowanceHead == AllowanceQuery \o AllowanceLoading \o Ident("allowed") \o Run(<<"=">>)
DataAllows == Ident("data") \o NullNe \o Run(<<"&&">>) \o Ident("data") \o FastMode

AllowanceCondition ==
    Ident("auth") \o Run(<<"&&", "!">>) \o Ident("loading") \o Run(<<"&&">>) \o DataAllows

AllowanceGuarded ==
    AllowanceHead \o Begin("guard") \o AllowanceCondition \o End("guard") \o Run(<<",">>)
AllowancePatched ==
    AllowanceHead \o Run(<<"!">>) \o Ident("loading") \o Run(<<"&&", "(">>) \o Ident("auth")
    \o Run(<<"?">>) \o DataAllows \o Run(<<":">>) \o Bool(TRUE) \o Run(<<")", ",">>)

AuthChatgpt == Ident("auth") \o Run(<<"=">>) \o Ident("source") \o Member("authMethod")
               \o OneOf({"==", "==="}) \o Str("chatgpt")
NullableAuth == AnyIdent \o Run(<<"=">>) \o Ident("source") \o Member("authMethod")
                \o Run(<<"??", "null">>)

AllowanceContext(tokens, hit) ==
    /\ AnyIn(tokens, TokensBefore(hit, 180, tokens), AuthChatgpt, hit.ids)
    /\ AnyIn(tokens, TokensBefore(hit, 180, tokens), NullableAuth, hit.ids)
    /\ HasObjectMapping(tokens, hit.end, 240, "isServiceTierAllowed",
           [isServiceTierAllowed |-> hit.ids["allowed"], isLoading |-> hit.ids["loading"]])

(* What an account with ChatGPT authentication is held to, and no other. *)
AllowanceChoice(tokens, hit) ==
    Units(tokens, hit, "auth") \o <<"?">> \o Units(tokens, hit, "data")
    \o <<"!", "=", "null", "&", "&">> \o Units(tokens, hit, "data")
    \o <<"?", ".", "requirements", "?", ".", "featureRequirements", "?", ".", "fast_mode",
         "!", "=", "=", "!", "1", ":", "!", "0">>

(* Mutant: without parentheses the choice takes the loading flag for its condition. *)
AllowanceTextOpen(tokens, hit) ==
    <<"!">> \o Units(tokens, hit, "loading") \o <<"&", "&">> \o AllowanceChoice(tokens, hit)

AllowanceText(tokens, hit) ==
    <<"!">> \o Units(tokens, hit, "loading") \o <<"&", "&", "(">>
    \o AllowanceChoice(tokens, hit) \o <<")">>

AllowanceEdits(tokens, hit) ==
    {EditOf(range, AllowanceText(tokens, hit)) : range \in Span(tokens, hit, "guard")}

DetectAllowance(tokens) ==
    PatternSites(tokens, AllowanceGuarded, AllowancePatched,
                 LAMBDA hit : AllowanceEdits(tokens, hit),
                 LAMBDA hit : AllowanceContext(tokens, hit))

(***************************************************************************)
(* Request allowance.                                                      *)
(***************************************************************************)
RequestHead ==
    Run(<<"async", "function">>) \o AnyIdent \o Run(<<"(">>) \o Ident("cache") \o Run(<<",">>)
    \o Ident("host") \o Run(<<")", "{">>)
RequestAuth ==
    Declaration \o Ident("auth") \o Run(<<"=", "await">>) \o AnyIdent \o Run(<<"(">>)
    \o Ident("cache") \o Run(<<",">>) \o Ident("host") \o Run(<<")", ";", "if", "(">>)
    \o Ident("auth") \o Run(<<"!==">>) \o Str("chatgpt") \o Run(<<")", "return">>)
RequestResponse ==
    Run(<<";">>) \o Declaration \o Ident("response") \o Run(<<"=", "await">>) \o AnyIdent
    \o Run(<<"(">>) \o Ident("host") \o Run(<<",", "{", "priority", ":">>) \o Str("critical")
    \o Run(<<"}", ")", ";", "return">>)
RequestResult ==
    Ident("cache") \o Member("query") \o Member("setData") \o Run(<<"(">>) \o AnyIdent
    \o Run(<<",", "{", "authMethod", ":">>) \o Ident("auth") \o Run(<<",", "hostId", ":">>)
    \o Ident("host") \o Run(<<"}", ",">>) \o Ident("response") \o Run(<<")", ",">>)
    \o Ident("response") \o FastMode \o Run(<<"}">>)

RequestState ==
    RequestHead \o RequestAuth \o NoLineBreak \o Begin("guard") \o CaptureBool("value")
    \o End("guard") \o RequestResponse \o RequestResult

(* Mutants: the value is read the wrong way round, and a build with its    *)
(* gate taken for patched; the value is written as a word, and grows into  *)
(* the one before it.                                                      *)
RequestSwappedEdits(tokens, hit) ==
    IF ~hit.bools["value"] THEN {}
    ELSE {EditOf(range, <<"!", "0">>) : range \in Span(tokens, hit, "guard")}
RequestWordEdits(tokens, hit) ==
    IF hit.bools["value"] THEN {}
    ELSE {EditOf(range, <<"true">>) : range \in Span(tokens, hit, "guard")}

RequestEdits(tokens, hit) ==
    IF hit.bools["value"] THEN {}
    ELSE {EditOf(range, <<"!", "0">>) : range \in Span(tokens, hit, "guard")}

DetectRequestAllowance(tokens) ==
    UNION {{SiteOf(range, RequestEdits(tokens, hit)) :
               range \in TokenRange(tokens, hit.start, hit.end)} : hit \in Find(tokens, RequestState)}

(***************************************************************************)
(* Conversation fallback.                                                  *)
(***************************************************************************)
DefaultTier ==
    AnyIdent \o Run(<<"?">>) \o AnyIdent \o Run(<<"(">>) \o AnyIdent \o Run(<<")", ":">>)
    \o AnyIdent \o Member("serviceTier")
ConversationHead ==
    Ident("base") \o Run(<<"=">>) \o AnyIdent \o NullEq \o Run(<<"&&">>) \o AnyIdent \o NullNe
    \o Run(<<"?">>) \o AnyIdent \o Member("value") \o Run(<<":">>) \o DefaultTier
    \o Run(<<",">>) \o Ident("effective") \o Run(<<"=">>)
InConversation == Ident("conversation") \o NullNe \o Run(<<"&&">>)
ThreadIsSet == Ident("thread") \o Member("serviceTier") \o Run(<<"!==">>) \o Undefined
OverrideIsSet == Ident("override") \o Run(<<"!==">>) \o Undefined
Fallback ==
    Ident("fallback") \o Run(<<"(">>) \o Ident("model") \o Run(<<",">>) \o Ident("effective")
    \o Run(<<",">>) \o Ident("allowed") \o Run(<<")">>)
ConversationTail ==
    Run(<<",">>) \o Ident("selected") \o Run(<<"=">>) \o Ident("request") \o NullEq
    \o Run(<<"?", "null", ":">>) \o AnyIdent \o Run(<<"(">>) \o Ident("model") \o Run(<<",">>)
    \o Ident("request") \o Run(<<")">>)

TierChoice ==
    InConversation \o ThreadIsSet \o Run(<<"?">>) \o Ident("thread") \o Member("serviceTier")
    \o Run(<<":">>) \o InConversation \o OverrideIsSet \o Run(<<"?">>) \o Ident("override")
    \o Run(<<":">>) \o Ident("base")
RequestChoice ==
    InConversation \o Run(<<"(">>) \o ThreadIsSet \o Run(<<"||">>) \o OverrideIsSet
    \o Run(<<")", "?">>) \o Ident("allowed") \o Run(<<"?">>) \o Ident("effective")
    \o Run(<<":", "null", ":">>) \o Fallback

RequestIs == Run(<<";">>) \o Ident("request") \o Run(<<"=">>)

ConversationGuarded ==
    ConversationHead \o Begin("tier") \o TierChoice \o End("tier") \o RequestIs
    \o Begin("guard") \o RequestChoice \o End("guard") \o ConversationTail
ConversationPatched == ConversationHead \o Ident("base") \o RequestIs \o Fallback \o ConversationTail

AllowedBinding == Run(<<"isServiceTierAllowed", ":">>) \o Ident("allowed")

ConversationContext(tokens, hit) ==
    /\ AnyIn(tokens, TokensBefore(hit, 600, tokens), AllowedBinding, hit.ids)
    /\ HasObjectMapping(tokens, hit.end, 1800, "selectedServiceTier",
           [selectedServiceTier |-> hit.ids["selected"],
            serviceTierForRequest |-> hit.ids["request"]])

ConversationEdits(tokens, hit) ==
    {EditOf(range, Units(tokens, hit, "base")) : range \in Span(tokens, hit, "tier")}
    \cup {EditOf(range, Units(tokens, hit, "fallback") \o <<"(">> \o Units(tokens, hit, "model")
                        \o <<",">> \o Units(tokens, hit, "effective") \o <<",">>
                        \o Units(tokens, hit, "allowed") \o <<")">>) :
          range \in Span(tokens, hit, "guard")}

DetectConversationFallback(tokens) ==
    PatternSites(tokens, ConversationGuarded, ConversationPatched,
                 LAMBDA hit : ConversationEdits(tokens, hit),
                 LAMBDA hit : ConversationContext(tokens, hit))

(***************************************************************************)
(* Intelligence menu.                                                      *)
(***************************************************************************)
MenuHead == OneOf({",", ";"}) \o AnyIdent \o Run(<<"=">>)
MenuTail == Ident("settings") \o Member("availableOptions") \o Member("length")
            \o Run(<<">", "1", ",">>)

IntelligenceGuarded ==
    MenuHead \o Begin("guard") \o AnyIdent \o Run(<<"&&">>) \o End("guard") \o MenuTail
IntelligencePatched == MenuHead \o MenuTail

IntelligenceContext(tokens, hit) ==
    AnyIn(tokens, (hit.end .. hit.end + 63) \cap DOMAIN tokens, Str("composer.openModelPicker"), NoSlots)

DetectIntelligenceMenu(tokens) ==
    PatternSites(tokens, IntelligenceGuarded, IntelligencePatched,
                 LAMBDA hit : RemoveCapturedSpan(tokens, hit),
                 LAMBDA hit : IntelligenceContext(tokens, hit))

(***************************************************************************)
(* Slash command.                                                          *)
(***************************************************************************)
HasServiceTierId(tokens, object, binding) ==
    object.open > 1 /\ \E scope \in EnclosingBrace(tokens, object.open - 1) :
        \E i \in scope + 1 .. object.open - 3 :
            /\ tokens[i].text = tokens[binding].text
            /\ tokens[i + 1].text = "="
            /\ tokens[i + 2].kind = "Template"
            /\ StartsWith(tokens[i + 2].units, 0, <<"TICK", "service-tier:", "$", "{">>)

CommandIdents == {"title", "description", "Icon", "onSelect", "dependencies"}

IsSlashCommand(tokens, object) ==
    /\ BoolField(tokens, object, "requiresEmptyComposer") = {FALSE}
    /\ \E id \in IdentField(tokens, object, "id") : HasServiceTierId(tokens, object, id)
    /\ \A key \in CommandIdents : IdentField(tokens, object, key) # {}

SlashCommandAt(tokens, i) ==
    UNION {LET enabled == IdentField(tokens, object, "enabled")
               site(edits) == {SiteOf(range, edits) :
                                  range \in TokenRange(tokens, object.open, object.close + 1)}
           IN  CASE BoolField(tokens, object, "enabled") = {TRUE} -> site({})
                 [] BoolField(tokens, object, "enabled") # {TRUE} /\ enabled # {} ->
                      site(UNION {{EditOf(range, <<"!", "0">>) :
                                      range \in TokenRange(tokens, e, e + 1)} : e \in enabled})
                 [] OTHER -> {} :
           object \in {o \in EnclosingObject(tokens, i) : IsSlashCommand(tokens, o)}}

DetectSlashCommand(tokens) ==
    UNION {SlashCommandAt(tokens, i) :
           i \in {k \in DOMAIN tokens : tokens[k].text = "requiresEmptyComposer"}}

FastDetect(feature, source) ==
    LET tokens == Tokens(source)
    IN  CASE feature = "speed" -> DetectSpeedSetting(tokens)
          [] feature = "allowance" -> DetectAllowance(tokens)
          [] feature = "request" -> DetectRequestAllowance(tokens)
          [] feature = "conversation" -> DetectConversationFallback(tokens)
          [] feature = "intelligence" -> DetectIntelligenceMenu(tokens)
          [] feature = "slashCommand" -> DetectSlashCommand(tokens)
=============================================================================
