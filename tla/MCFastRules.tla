---------------------------- MODULE MCFastRules ----------------------------
EXTENDS RuleConditions

(***************************************************************************)
(* Scripts are written in a style: what stands between two lexemes, and    *)
(* which of several spellings a build has chosen.                          *)
(***************************************************************************)
Base == [gap |-> "least", member |-> "?.", eq |-> "==", undef |-> <<"void", "0">>,
         no |-> <<"!", "1">>, yes |-> <<"!", "0">>, quote |-> "TICK", escaped |-> FALSE,
         declare |-> "let", patched |-> FALSE]

Variations ==
    {Base} \cup {[Base EXCEPT !.gap = g] : g \in {"blank", "line", "comment", "line comment"}}
    \cup {[Base EXCEPT !.quote = q, !.escaped = e] : q \in {"'", "\""}, e \in BOOLEAN}
    \cup {[Base EXCEPT !.member = "."], [Base EXCEPT !.eq = "==="],
          [Base EXCEPT !.undef = <<"undefined">>], [Base EXCEPT !.yes = <<"true">>],
          [Base EXCEPT !.no = <<"false">>], [Base EXCEPT !.declare = "const"]}

(* A patched script spells what a patch leaves to the build in either way. *)
Spellings == {s \in Variations : s.gap \in {"least", "comment"} /\ s.quote = "TICK"}
Styles == Variations \cup {[s EXCEPT !.patched = TRUE] : s \in Spellings}

(* A text that starts with a mark is marks throughout. *)
UnitsOf(text) ==
    IF SubSeq(text, 1, 1) \in Marks THEN [i \in 1 .. Len(text) |-> SubSeq(text, i, i)] ELSE <<text>>

L(texts) == [i \in DOMAIN texts |-> UnitsOf(texts[i])]
Quoted(s, units) == << <<s.quote>> \o units \o <<s.quote>> >>
Chatgpt(s) == Quoted(s, IF s.escaped THEN <<"chat", "\\", "u0067", "pt">> ELSE <<"chatgpt">>)
NotNull(s) == IF s.eq = "==" THEN "!=" ELSE "!=="

Gap(gap, left, right) ==
    CASE gap = "least" ->
           IF Last(left) \notin Marks /\ right[1] \notin Marks THEN <<" ">> ELSE <<>>
      [] gap = "line" -> IF left = <<"return">> THEN <<" ">> ELSE <<"\r", "\n">>
      [] gap = "every line" -> <<"\n">>
      [] gap = "comment" -> <<"/", "*", "}", "'", "*", "/">>
      [] gap = "line comment" ->
           IF left = <<"return">> THEN <<"/", "*", "/", "/", "*", "/">>
           ELSE <<"/", "/", "if", "(", "TICK", "LS">>
      [] OTHER -> <<" ">>

Written(gap, lexemes) ==
    FlattenSeq([i \in DOMAIN lexemes |->
        lexemes[i] \o IF i = Len(lexemes) THEN <<>> ELSE Gap(gap, lexemes[i], lexemes[i + 1])])

Script(gap, lexemes, shapes) ==
    [names |-> << <<"a.js">> >>, link |-> FALSE, size |-> 1, offset |-> 0, unpacked |-> FALSE,
     utf8 |-> TRUE, intact |-> TRUE, content |-> Written(gap, lexemes), lexemes |-> lexemes,
     shapes |-> shapes, guarded |-> shapes]

(* A build whose gates are gone. *)
Ungated(scripts) == [i \in DOMAIN scripts |-> [scripts[i] EXCEPT !.guarded = {}]]

JsFiles == <<"1.js", "2.js", "3.js", "4.js", "5.js", "6.js", "7.js", "8.js">>

Bundle(scripts) ==
    [size |-> 24, sizePickle |-> 4, headerSize |-> 12, payloadSize |-> 8, jsonSize |-> 4, json |-> 4,
     entries |-> [i \in DOMAIN scripts |-> [scripts[i] EXCEPT !.names = << <<JsFiles[i]>> >>]]]

(***************************************************************************)
(* The shapes, after the tests of fast.rs.  A guard is what the edits of a *)
(* rule are about: the original, what they make of it, or a near miss.     *)
(***************************************************************************)
Speed(s, guard) ==
    L(<<"{", "isServiceTierAllowed", ":", "n", "}", "=", "Je", "(", ")", ",", "{",
        "serviceTierSettings", ":", "r", ",", "setServiceTier", ":", "i", "}", "=", "Ye", "(", ")",
        ";", "if", "(">> \o guard \o
      <<"r", s.member, "availableOptions", s.member, "length", "<=", "1", ")", "return", "null", ";">>)

SpeedGuard(s) == IF s.patched THEN <<>> ELSE <<"!", "n", "||">>

FastModeOf(s) == <<s.member, "requirements", s.member, "featureRequirements", s.member, "fast_mode",
                   "!==">> \o s.no

AllowanceGuard(s) ==
    LET data == <<"u", NotNull(s), "null", "&&", "u">> \o FastModeOf(s)
    IN  IF s.patched THEN <<"!", "f", "&&", "(", "o", "?">> \o data \o <<":">> \o s.yes \o <<")">>
        ELSE <<"o", "&&", "!", "f", "&&">> \o data

Allowance(s, account, mapped) ==
    L(<<s.declare, "o", "=", "a", s.member, "authMethod", IF s.eq = "==" THEN "===" ELSE "==">>)
    \o Chatgpt(s)
    \o L(<<",", "s", "=", account, s.member, "authMethod", "??", "null", ",", "l", ";", s.declare, "{",
           "data", ":", "u", ",", "isPending", ":", "d", "}", "=", "r", "(", "N", ",", "l", ")", ",",
           "f", "=", "!", "!", "a", s.member, "isLoading", "||", "o", "&&", "d", ",", "p", "=">>
         \o AllowanceGuard(s)
         \o <<",", "m", ";", "return", "{", "isServiceTierAllowed", ":", mapped, ",", "isLoading",
              ":", "f", "}">>)

Request(s, value) ==
    L(<<"async", "function", "T", "(", "e", ",", "t", ")", "{", s.declare, "n", "=", "await", "x", "(",
        "e", ",", "t", ")", ";", "if", "(", "n", "!==">>) \o Chatgpt(s)
    \o L(<<")", "return">>) \o value
    \o L(<<";", s.declare, "r", "=", "await", "v", "(", "t", ",", "{", "priority", ":">>)
    \o Quoted(s, <<"critical">>)
    \o L(<<"}", ")", ";", "return", "e", s.member, "query", s.member, "setData", "(", "g", ",", "{",
           "authMethod", ":", "n", ",", "hostId", ":", "t", "}", ",", "r", ")", ",", "r">>
         \o FastModeOf(s) \o <<"}">>)

RequestValue(s) == IF s.patched THEN L(s.yes) ELSE L(s.no)

InThread(s) == <<"e", NotNull(s), "null", "&&">>
ThreadTier(s) == <<"h", s.member, "serviceTier", "!==">> \o s.undef
OverrideTier(s) == <<"v", "!==">> \o s.undef

Conversation(s, base, request) ==
    L(<<"{", "isServiceTierAllowed", ":", "M", "}", "=", "J", "(", "j", ")", ";", "let", "b", "=">>
      \o base \o <<",", "E", "=">>
      \o (IF s.patched THEN <<"b", ";">>
          ELSE InThread(s) \o ThreadTier(s) \o <<"?", "h", s.member, "serviceTier", ":">>
               \o InThread(s) \o OverrideTier(s) \o <<"?", "v", ":", "b", ";">>)
      \o <<"I", "=">>
      \o (IF s.patched THEN <<>>
          ELSE InThread(s) \o <<"(">> \o ThreadTier(s) \o <<"||">> \o OverrideTier(s)
               \o <<")", "?", "M", "?", "E", ":", "null", ":">>)
      \o <<"D", "(", "r", ",", "E", ",", "M", ")", ",", "F", "=", "I", s.eq, "null", "?", "null", ":",
           "_", "(", "r", ",", "I", ")", ";", "let", "U", "=", "{", "selectedServiceTier", ":", "F",
           ",", "serviceTierForRequest", ":", request, "}">>)

BaseTier(s) ==
    <<"e", s.eq, "null", "&&", "n", NotNull(s), "null", "?", "n", s.member, "value", ":", "y", "?",
      "O", "(", "d", ")", ":", "C", s.member, "serviceTier">>

Menu(s, guard, before) ==
    L(<<",", "pe", "=">> \o guard \o <<"E", s.member, "availableOptions", s.member, "length", ">", "1",
        ",">> \o before) \o Quoted(s, <<"composer.openModelPicker">>)

MenuGuard(s) == IF s.patched THEN <<>> ELSE <<"O", "&&">>

(* The anchor is the last of n tokens behind the condition. *)
Filler(n) == [i \in 1 .. n |-> ";"]

Tier == << <<"TICK", "service-tier:", "$", "{", "a", "}", "TICK">> >>

Slash(scope, fields) ==
    L(<<"function", "f", "(", ")", "{", "l", "=">>) \o Tier \o L(<<";">> \o scope \o <<"g", "=", "{">>)
    \o L(fields) \o L(<<"}", ";", "return", "g", "}">>)

SlashFields(empty, enabled) ==
    <<"id", ":", "l", ",", "title", ":", "u", ",", "description", ":", "d", ",",
      "requiresEmptyComposer", ":">> \o empty \o <<",", "enabled", ":">> \o enabled
    \o <<",", "Icon", ":", "c", ",", "onSelect", ":", "m", ",", "dependencies", ":", "h">>

SlashValue(s) == IF s.patched THEN s.yes ELSE <<"n">>

ShapesIn(s) ==
    <<Script(s.gap, Speed(s, SpeedGuard(s)), {"speed"}),
      Script(s.gap, Allowance(s, "a", "p"), {"allowance"}),
      Script(s.gap, Request(s, RequestValue(s)), {"request"}),
      Script(s.gap, Conversation(s, BaseTier(s), "I"), {"conversation"}),
      Script(s.gap, Menu(s, MenuGuard(s), <<"x", ";">>), {"intelligence"}),
      Script(s.gap, Slash(<<>>, SlashFields(s.no, SlashValue(s))), {"slashCommand"})>>

InStyle(s) == Bundle(IF s.patched THEN Ungated(ShapesIn(s)) ELSE ShapesIn(s))

(* Guarded and patched sites side by side, and sites of three rules in one script. *)
Done == [Base EXCEPT !.patched = TRUE]

Mixed ==
    Bundle(<<Script("least", Speed(Base, <<"!", "n", "||">>) \o Speed(Done, <<>>)
                             \o Menu(Base, <<"O", "&&">>, <<>>) \o L(<<";">>)
                             \o Slash(<<>>, SlashFields(<<"!", "1">>, <<"requiresEmptyComposer">>)),
                    {"speed", "intelligence", "slashCommand"}),
             Script("least", Allowance(Base, "a", "p"), {"allowance"})>>
           \o Ungated(<<Script("least", Request(Done, L(<<"true">>)), {"request"})>>)
           \o <<Script("least", Conversation(Base, BaseTier(Base), "I"), {"conversation"})>>)

(***************************************************************************)
(* Near misses: one thing in a shape is not as the rule wants it.          *)
(***************************************************************************)
SlashOf(fields) == Slash(<<>>, fields)
Least(lexemes) == Script("least", lexemes, {})
Swapped(lexemes, from, to) == [i \in DOMAIN lexemes |-> IF lexemes[i] = <<from>> THEN <<to>> ELSE lexemes[i]]

NearMisses ==
    {Bundle(<<Least(Speed(Base, <<"!", "m", "||">>)),
              Least(Swapped(Speed(Base, <<"!", "n", "||">>), "null", "this")),
              Least(Allowance(Base, "other", "p")),
              Least(Allowance(Base, "a", "f")),
              Script("every line", Request(Base, L(<<"!", "1">>)), {}),
              Least(Request(Base, L(<<"!", "2">>))),
              Least(Conversation(Base, <<"unrelated", "(", ")">>, "I")),
              Least(Conversation(Base, BaseTier(Base), "F"))>>),
     Bundle(<<Script("blank", Menu(Base, <<"O", "&&">>, Filler(63)), {"intelligence"}),
              Script("blank", Menu(Base, <<"O", "&&">>, Filler(64)), {}),
              Least(SlashOf(SlashFields(<<"!", "0">>, <<"n">>))),
              Least(SlashOf(SlashFields(<<"!", "1">>, <<"!", "1">>))),
              Least(SlashOf(SlashFields(<<"!", "1">>, <<"n">>) \o <<",", "id", ":", "l">>)),
              Least(Swapped(SlashOf(SlashFields(<<"!", "1">>, <<"n">>)), "Icon", "icon")),
              Least(L(<<"{", "a", "}">>) \o SlashOf(<<"meta", ":", "{">> \o SlashFields(<<"!", "1">>, <<"n">>)
                                                   \o <<"}">>)),
              Script("least",
                     Slash(<<"h", "(", "{", "a", ":", "[", "1", "]", "}", ")", ";">>,
                           <<"meta", ":", "{", "a", ":", "1", ",", "id", ":", "q", "}", ",">>
                           \o SlashFields(<<"!", "1">>, <<"n">>)),
                     {"slashCommand"})>>),
     Bundle(<<Script("least", Slash(<<>>, <<"meta", ":", "{", "requiresEmptyComposer", ":", "q", "}", ",">>
                                          \o SlashFields(<<"!", "1">>, <<"n">>)), {"slashCommand"}),
              Least(L(<<"function", "k", "(", ")", "{", "l", "=">>) \o Tier \o L(<<"}", "g", "=", "{">>
                    \o SlashFields(<<"!", "1">>, <<"n">>) \o <<"}">>)),
              Least(<< <<"'", "isServiceTierAllowed", "availableOptions", "'">> >>)>>)}

(***************************************************************************)
(* The same units twice over: behind one context they are code between two *)
(* divisions, behind another one regular expression.                       *)
(***************************************************************************)
Body == L(<<"(", "q", ",", "pe", "=", "O", "&&", "E", ".", "availableOptions", ".", "length", ">",
            "1", ",", "r", ")">>)
Anchor == << <<"'", "composer.openModelPicker", "'">> >>

Divided(before) ==
    Script("least", L(before) \o L(<<"/">>) \o Body \o L(<<"/", "z", ";">>) \o Anchor, {"intelligence"})
Opaque(before, lexeme) ==
    Script("least", L(before) \o <<lexeme>> \o L(<<";">>) \o Anchor, {})
Expression(before) == Opaque(before, <<"/">> \o FlattenSeq(Body) \o <<"/", "z">>)

Slashes ==
    {Bundle(<<Divided(<<"a">>), Divided(<<"f", "(", "a", ")">>), Divided(<<"a", "[", "0", "]">>),
              Divided(<<"const", "x", "=", "{", "}">>), Divided(<<"x", "=", "{", "a", ":", "{", "}", "}">>),
              Divided(<<"1">>), Divided(<<"x", "++">>),
              Divided(<<"if", "(", "(", "a", ")">>)>>),
     Bundle(<<Expression(<<>>), Expression(<<"if", "(", "ok", ")">>),
              Expression(<<"while", "(", "(", "a", ")", ")">>), Expression(<<"if", "(", "ok", ")", "{", "}">>),
              Expression(<<"export", "default">>), Expression(<<"return">>),
              Expression(<<"else", "{", "{", "}", "}">>), Expression(<<"x", "=">>)>>),
     Bundle(<<Divided(<<"if", "(", "a", ")", "{", "x", "=", "{", "}">>),
              Expression(<<"a", "=", "{", "}", ";", "try", "{", "}">>),
              Opaque(<<"x", "=">>, <<"/", "[", "/", "'", "]">> \o FlattenSeq(Body) \o <<"\\", "/", "/", "gi">>),
              Opaque(<<"x", "=">>, <<"TICK", "a", "$", "{", "f", "(", "{", "}", ")", "}">> \o FlattenSeq(Body)
                                   \o <<"TICK">>),
              Opaque(<<"x", "=">>, <<"TICK", "$", "{", "{", "v", ":", "TICK", "$", "{", "/", "}", "/", ".", "test",
                                     "(", "\"", "}", "\"", ")", "}", "TICK", "}", "}">> \o FlattenSeq(Body)
                                   \o <<"\\", "TICK", "TICK">>),
              Opaque(<<"x", "=">>, <<"\"", "\\", "\"", "\\", "\r", "\n", "LS">> \o FlattenSeq(Body) \o <<"\"">>),
              Script("line", L(<<"x", "=">>) \o << <<"'", "TICK">> \o FlattenSeq(Body) >> \o Anchor, {}),
              Least(L(<<"x", "=">>) \o << <<"0", "x", "f", "f", "n">>, <<"+">>, <<"1", ".", "5", "e", "-", "3">>,
                                          <<"+">>, <<".", "5">>, <<"+">>, <<"0", "b", "1">>, <<">", ">", ">", "=">>,
                                          <<"1", "n">>, <<"?", ".">>, <<"5", "_", "0">> >>)>>)}

MCArchivesOfRules == {InStyle(s) : s \in Styles} \cup {Mixed} \cup NearMisses \cup Slashes
=============================================================================
