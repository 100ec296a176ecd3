--------------------------- MODULE RuleConditions ---------------------------
(***************************************************************************)
(* What the conditions of a script answer, before and after a patch.       *)
(***************************************************************************)
EXTENDS RulePlan

(***************************************************************************)
(* What a condition of a script is worth, as text, when e is the texts of  *)
(* its tokens and env the value of each variable, property and call.       *)
(***************************************************************************)
Truthy(value) == value \notin {"false", "0", "null", "undefined"}
OfBoolean(b) == IF b THEN "true" ELSE "false"

NestingAt(e, i) == Cardinality({k \in 1 .. i - 1 : e[k] = "("}) - Cardinality({k \in 1 .. i : e[k] = ")"})
AtTop(e, texts) == {i \in DOMAIN e : e[i] \in texts /\ NestingAt(e, i) = 0}
FirstOf(S) == CHOOSE i \in S : \A j \in S : i <= j
LastOf(S) == CHOOSE i \in S : \A j \in S : j <= i

(* The colon of the first question mark. *)
ColonOf(e) ==
    LET question(i) == Cardinality({k \in AtTop(e, {"?"}) : k < i})
        colon(i) == Cardinality({k \in AtTop(e, {":"}) : k <= i})
    IN  FirstOf({i \in AtTop(e, {":"}) : question(i) = colon(i)})

Compares == {"==", "===", "!=", "!==", "<=", ">"}

Compared(op, a, b) ==
    LET absent == {"null", "undefined"}
        loose == a = b \/ {a, b} \subseteq absent
    IN  CASE op = "===" -> a = b
          [] op = "!==" -> a # b
          [] op = "==" -> loose
          [] op = "!=" -> ~loose
          [] op = "<=" -> b = "1" /\ a \in {"0", "1"}
          [] op = ">" -> b = "1" /\ a \notin {"0", "1"}

RECURSIVE ValueOf(_, _)
ValueOf(e, env) ==
    LET left(i) == ValueOf(SubSeq(e, 1, i - 1), env)
        right(i) == ValueOf(SubSeq(e, i + 1, Len(e)), env)
        has(texts) == AtTop(e, texts) # {}
        last(texts) == LastOf(AtTop(e, texts))
        name == IF Last(e) = ")" THEN e[1] ELSE Last(e)
    IN  CASE has({"?"}) ->
               LET q == FirstOf(AtTop(e, {"?"}))
                   c == ColonOf(e)
               IN  IF Truthy(left(q)) THEN ValueOf(SubSeq(e, q + 1, c - 1), env) ELSE right(c)
          [] has({"||"}) /\ ~has({"?"}) ->
               LET i == last({"||"}) IN IF Truthy(left(i)) THEN left(i) ELSE right(i)
          [] has({"&&"}) /\ ~has({"?", "||"}) ->
               LET i == last({"&&"}) IN IF Truthy(left(i)) THEN right(i) ELSE left(i)
          [] has(Compares) /\ ~has({"?", "||", "&&"}) ->
               LET i == last(Compares) IN OfBoolean(Compared(e[i], left(i), right(i)))
          [] OTHER ->
               CASE e[1] = "!" -> OfBoolean(~Truthy(ValueOf(Tail(e), env)))
                 [] e[1] = "(" -> ValueOf(SubSeq(e, 2, Len(e) - 1), env)
                 [] e[1] = "void" -> "undefined"
                 [] OTHER -> IF name \in DOMAIN env THEN env[name] ELSE name

(* The texts between a run of texts and the first of the closing ones at its level. *)
Between(texts, opening, closing) ==
    LET from == CHOOSE i \in DOMAIN texts : StartsWith(texts, i - 1, opening)
        rest == SubSeq(texts, from + Len(opening), Len(texts))
        ends(i) == rest[i] \in closing
                   /\ Cardinality({k \in 1 .. i - 1 : rest[k] = "("})
                      = Cardinality({k \in 1 .. i - 1 : rest[k] = ")"})
    IN  SubSeq(rest, 1, FirstOf({i \in DOMAIN rest : ends(i)}) - 1)

(* What a rule's edits are about, in the names of the scripts of MCFastRules. *)
Condition(f, texts) ==
    CASE f = "speed" -> Between(texts, <<"if", "(">>, {")"})
      [] f = "intelligence" -> Between(texts, <<"pe", "=">>, {","})
      [] f = "allowance" -> Between(texts, <<"p", "=">>, {","})
      [] f = "conversation" -> Between(texts, <<"I", "=">>, {","})
      [] f = "slashCommand" -> Between(texts, <<"enabled", ":">>, {","})

Flags == {"true", "false"}
Tiers == {"undefined", "null", "fast"}

(* The values a condition may depend on; request has no condition of its   *)
(* own.  The edits for the allowance compare data with null loosely,       *)
(* whatever the build did: data that is undefined is left to builds that   *)
(* do the same.                                                            *)
ComparesStrictly(texts) == \E i \in 1 .. Len(texts) - 1 : texts[i] = "!==" /\ texts[i + 1] = "null"

Accounts(f, before) ==
    CASE f = "speed" -> [n : Flags, length : {"1", "2"}]
      [] f = "intelligence" -> [O : Flags, length : {"1", "2"}]
      [] f = "allowance" -> [o : Flags, f : Flags, fast_mode : Flags \cup {"undefined"},
                             u : {"null", "data"} \cup
                                 IF ComparesStrictly(before) THEN {} ELSE {"undefined"}]
      [] f = "conversation" -> [e : {"null", "c1"}, serviceTier : Tiers, v : Tiers, b : Tiers, M : Flags]
      [] f = "slashCommand" -> [n : Flags, requiresEmptyComposer : Flags]
      [] f = "request" -> {}

(* The account for which the gate is open: for the allowance one that asks  *)
(* no ChatGPT workspace, in a conversation one that has none yet.           *)
WithOpenGate(f, env) ==
    CASE f = "speed" -> [env EXCEPT !.n = "true"]
      [] f = "slashCommand" -> [env EXCEPT !.n = "true", !.requiresEmptyComposer = "true"]
      [] f = "intelligence" -> [env EXCEPT !.O = "true"]
      [] f = "conversation" -> [env EXCEPT !.e = "null"]
      [] f = "allowance" -> IF env.o = "true" THEN env
                            ELSE [env EXCEPT !.o = "true", !.u = "data", !.fast_mode = "true"]

(* In a conversation the tier is worked out first, and handed to the fallback. *)
Answer(f, texts, env) ==
    IF f # "conversation" THEN ValueOf(Condition(f, texts), env)
    ELSE LET tier == ValueOf(Between(texts, <<"E", "=">>, {";"}), env)
         IN  ValueOf(Condition(f, texts), ("E" :> tier) @@ ("D" :> tier \o " allowed " \o env.M) @@ env)

TextsOf(tokens) == [k \in DOMAIN tokens |-> tokens[k].text]

(* The features whose condition in a script a patch changes beyond its gate. *)
ChangedAnswers(content) ==
    LET resource == [content |-> content, sites |-> DetectResource(content)]
        before == TextsOf(Tokens(content))
        after == TextsOf(Tokens(ApplySortedEdits(content, CollectEdits(resource)).output))
    IN  {f \in FastFeatures :
            /\ \E site \in resource.sites[f] : site.edits # {}
            /\ \E env \in Accounts(f, before) :
                  Answer(f, after, env) # Answer(f, before, WithOpenGate(f, env))}
=============================================================================
