----------------------------- MODULE TokenMatch -----------------------------
(***************************************************************************)
(* The pattern matcher of token_match.rs, over tokens of which it asks     *)
(* their text, their kind, whether a line break is before them, and        *)
(* whether they are a given string (string_eq of js_tokens.rs).            *)
(*                                                                         *)
(* A pattern is a sequence of atoms, written by joining the one-atom       *)
(* sequences below with \o.  Slots are named for what they hold, and what  *)
(* may fail returns a set of at most one result.  Tokens count from 1, and *)
(* a match ends before the token hit.end.                                  *)
(***************************************************************************)
EXTENDS Naturals, Sequences, FiniteSets

CONSTANT StringEq(_, _)

OneOf(texts) == << [op |-> "one", texts |-> texts] >>
Run(texts) == [i \in DOMAIN texts |-> [op |-> "one", texts |-> {texts[i]}]]
Ident(slot) == << [op |-> "ident", slot |-> slot] >>
AnyIdent == << [op |-> "anyIdent"] >>
Str(value) == << [op |-> "str", value |-> value] >>
Bool(value) == << [op |-> "bool", value |-> value] >>
CaptureBool(slot) == << [op |-> "captureBool", slot |-> slot] >>
Undefined == << [op |-> "undefined"] >>
NoLineBreak == << [op |-> "noLineBreak"] >>
Begin(slot) == << [op |-> "begin", slot |-> slot] >>
End(slot) == << [op |-> "end", slot |-> slot] >>
Member(property) == OneOf({".", "?."}) \o Run(<<property>>)
NullEq == OneOf({"==", "==="}) \o Run(<<"null">>)
NullNe == OneOf({"!=", "!=="}) \o Run(<<"null">>)

VariableWidth == {"bool", "captureBool", "undefined"}
NoWidth == {"noLineBreak", "begin", "end"}
AtomKinds == {"one", "ident", "anyIdent", "str"} \cup VariableWidth \cup NoWidth

IsPattern(pattern) ==
    \A i \in DOMAIN pattern :
        /\ pattern[i].op \in AtomKinds
        /\ pattern[i].op = "one" => IsFiniteSet(pattern[i].texts)

TextAt(tokens, i) == IF i \in DOMAIN tokens THEN tokens[i].text ELSE ""

(* take_bool_value: the value, and the token after it. *)
BoolValue(tokens, i) ==
    LET negated == TextAt(tokens, i) = "!"
        digit == TextAt(tokens, i + 1)
    IN  CASE TextAt(tokens, i) \in {"true", "false"} ->
               {[value |-> TextAt(tokens, i) = "true", end |-> i + 1]}
          [] negated /\ digit \in {"0", "1"} -> {[value |-> digit = "0", end |-> i + 2]}
          [] OTHER -> {}

(* The slots of a match with one more of them filled. *)
WithSlot(slots, slot, value) ==
    [x \in DOMAIN slots \cup {slot} |-> IF x = slot THEN value ELSE slots[x]]

(* A slot takes a value once, and then only the same one. *)
Bound(slots, slot, value, Same(_, _)) ==
    IF slot \notin DOMAIN slots THEN {WithSlot(slots, slot, value)}
    ELSE IF Same(slots[slot], value) THEN {slots} ELSE {}

(* One atom against the tokens from s.end on. *)
Step(tokens, atom, s) ==
    LET here == s.end
        text == TextAt(tokens, here)
        present == here \in DOMAIN tokens
        ident == present /\ tokens[here].kind = "Ident"
        past == [s EXCEPT !.end = here + 1]
        sameText(i, j) == tokens[i].text = tokens[j].text
        equal(a, b) == a = b
    IN  CASE atom.op = "one" -> IF present /\ text \in atom.texts THEN {past} ELSE {}
          [] atom.op = "anyIdent" -> IF ident THEN {past} ELSE {}
          [] atom.op = "ident" ->
               IF ident THEN {[past EXCEPT !.ids = ids] : ids \in Bound(s.ids, atom.slot, here, sameText)}
               ELSE {}
          [] atom.op = "str" ->
               IF present /\ StringEq(tokens[here], atom.value) THEN {past} ELSE {}
          [] atom.op = "bool" ->
               {[s EXCEPT !.end = b.end] : b \in {v \in BoolValue(tokens, here) : v.value = atom.value}}
          [] atom.op = "captureBool" ->
               UNION {{[s EXCEPT !.end = b.end, !.bools = bools] :
                          bools \in Bound(s.bools, atom.slot, b.value, equal)} :
                      b \in BoolValue(tokens, here)}
          [] atom.op = "undefined" ->
               IF text = "undefined" THEN {past}
               ELSE IF text = "void" /\ TextAt(tokens, here + 1) = "0"
                    THEN {[s EXCEPT !.end = here + 2]} ELSE {}
          [] atom.op = "noLineBreak" ->
               IF present /\ ~tokens[here].lineBreakBefore THEN {s} ELSE {}
          [] atom.op = "begin" ->
               IF atom.slot \in DOMAIN s.spans THEN {}
               ELSE {[s EXCEPT !.spans = WithSlot(s.spans, atom.slot, <<here, here>>)]}
          [] atom.op = "end" ->
               IF /\ atom.slot \in DOMAIN s.spans
                  /\ s.spans[atom.slot][1] < here
                  /\ s.spans[atom.slot][2] = s.spans[atom.slot][1]
               THEN {[s EXCEPT !.spans[atom.slot][2] = here]} ELSE {}

(* What is matched of the first atoms of a pattern, from s on. *)
MatchedFrom(tokens, pattern, s) ==
    LET matched[i \in 0 .. Len(pattern)] ==
            IF i = 0 THEN {s} ELSE UNION {Step(tokens, pattern[i], t) : t \in matched[i - 1]}
    IN  matched

NoSlots == [slot \in {} |-> 0]

(* At most one match at a token; ids are the identifiers bound before it. *)
MatchAt(tokens, start, pattern, ids) ==
    LET s == [start |-> start, end |-> start, ids |-> ids, spans |-> NoSlots, bools |-> NoSlots]
    IN  MatchedFrom(tokens, pattern, s)[Len(pattern)]

(***************************************************************************)
(* literal_pivot: the longest text that every match has at a fixed         *)
(* distance from its start, the first one where several are longest.  A    *)
(* match is tried only where that text is.                                 *)
(***************************************************************************)
(* Mutant: an atom that takes one token or two counts as one. *)
PivotsPastBooleans(pattern) ==
    LET offset(i) == Cardinality({k \in 1 .. i - 1 : pattern[k].op \notin NoWidth})
        fixed == {i \in DOMAIN pattern : pattern[i].op = "one" /\ Cardinality(pattern[i].texts) = 1}
    IN  {[offset |-> offset(i), text |-> CHOOSE t \in pattern[i].texts : TRUE] : i \in fixed}

Pivots(pattern) ==
    LET offset(i) == Cardinality({k \in 1 .. i - 1 : pattern[k].op \notin NoWidth})
        fixed == {i \in DOMAIN pattern :
                    /\ pattern[i].op = "one" /\ Cardinality(pattern[i].texts) = 1
                    /\ \A k \in 1 .. i - 1 : pattern[k].op \notin VariableWidth}
    IN  {[offset |-> offset(i), text |-> CHOOSE t \in pattern[i].texts : TRUE] : i \in fixed}

LiteralPivot(pattern) ==
    LET pivots == Pivots(pattern)
        better(p, q) == Len(p.text) > Len(q.text)
                        \/ (Len(p.text) = Len(q.text) /\ p.offset <= q.offset)
    IN  {p \in pivots : \A q \in pivots : better(p, q)}

MayStartAt(tokens, start, pivot) == \A p \in pivot : TextAt(tokens, start + p.offset) = p.text

(* All matches that start in a range of tokens (any_in asks whether there is one). *)
FindIn(tokens, range, pattern, ids) ==
    LET pivot == LiteralPivot(pattern)
        starts == {start \in range : MayStartAt(tokens, start, pivot)}
    IN  UNION {MatchAt(tokens, start, pattern, ids) : start \in starts}

Find(tokens, pattern) == FindIn(tokens, DOMAIN tokens, pattern, NoSlots)

AnyIn(tokens, range, pattern, ids) == FindIn(tokens, range, pattern, ids) # {}

(* token_range: from one token to before another, as positions of the text. *)
TokenRange(tokens, start, end) ==
    IF start < end /\ end <= Len(tokens) + 1
    THEN {[lo |-> tokens[start].lo, hi |-> tokens[end - 1].hi]} ELSE {}
=============================================================================
