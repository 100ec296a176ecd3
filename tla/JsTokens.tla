------------------------------ MODULE JsTokens ------------------------------
(***************************************************************************)
(* The tokenizer of js_tokens.rs.                                          *)
(*                                                                         *)
(* A source is a sequence of units: a whole word is one unit, a digit, a   *)
(* mark and a blank are one each, LS is U+2028 or U+2029, TICK the quote   *)
(* of a template.  Positions stand between units, from 0 to Len(source).   *)
(* Nothing here asks for more of a word than that it is one.               *)
(***************************************************************************)
EXTENDS Naturals, Sequences, FiniteSets, SequencesExt

LineTerminators == {"\r", "\n", "LS"}
Blanks == LineTerminators \cup {" ", "\t"}
Digits == {"0", "1", "2", "3", "4", "5", "6", "7", "8", "9"}
HexDigits == Digits \cup {"a", "b", "c", "d", "e", "f", "A", "B", "C", "D", "E", "F"}
Quotes == {"'", "\""}
Marks == Quotes \cup
         {"(", ")", "[", "]", "{", "}", ".", ",", ";", ":", "?", "!", "=", "<", ">", "&", "|",
          "+", "-", "*", "/", "%", "^", "~", "TICK", "\\"}

IsWord(unit) == unit \notin Blanks \cup Digits \cup Marks

Operators ==
    {<<">", ">", ">", "=">>, <<"=", "=", "=">>, <<"!", "=", "=">>, <<">", ">", ">">>,
     <<"*", "*", "=">>, <<"&", "&", "=">>, <<"|", "|", "=">>, <<"?", "?", "=">>,
     <<"<", "<", "=">>, <<">", ">", "=">>, <<".", ".", ".">>, <<"=", ">">>, <<"=", "=">>,
     <<"!", "=">>, <<"<", "=">>, <<">", "=">>, <<"+", "+">>, <<"-", "-">>, <<"&", "&">>,
     <<"|", "|">>, <<"?", "?">>, <<"?", ".">>, <<"*", "*">>, <<"<", "<">>, <<">", ">">>,
     <<"+", "=">>, <<"-", "=">>, <<"*", "=">>, <<"/", "=">>, <<"%", "=">>, <<"&", "=">>,
     <<"|", "=">>, <<"^", "=">>}

StartsWith(source, position, units) ==
    /\ position + Len(units) <= Len(source)
    /\ \A i \in DOMAIN units : source[position + i] = units[i]

UnitAt(source, position) == IF position < Len(source) THEN source[position + 1] ELSE ""

(* Where a scanner may be: between two units. *)
Positions(source) == 0 .. Len(source)

(* The end of the longest run of units that are inside a set of indices. *)
RunEnd(source, position, inside) ==
    CHOOSE end \in position .. Len(source) :
        /\ end = Len(source) \/ end + 1 \notin inside
        /\ position + 1 .. end \subseteq inside

Where(source, units) == {i \in DOMAIN source : source[i] \in units}
Words(source) == {i \in DOMAIN source : IsWord(source[i])}

IdentEnd(source, position) == RunEnd(source, position, Words(source) \cup Where(source, Digits))

DigitsEnd(source, position, digits) ==
    RunEnd(source, position, Where(source, digits \cup {"_"}))

NumberEnd(source, position) ==
    LET radix == UnitAt(source, position + 1)
        prefixed == UnitAt(source, position) = "0" /\ radix \in {"x", "X", "o", "O", "b", "B"}
        radixDigits == IF radix \in {"x", "X"} THEN HexDigits
                       ELSE IF radix \in {"o", "O"} THEN Digits \ {"8", "9"} ELSE {"0", "1"}
        leadingDot == UnitAt(source, position) = "."
        whole == DigitsEnd(source, position + (IF leadingDot THEN 1 ELSE 0), Digits)
        fractional == leadingDot \/ UnitAt(source, whole) = "."
        mantissa == IF fractional /\ ~leadingDot THEN DigitsEnd(source, whole + 1, Digits) ELSE whole
        exponent == UnitAt(source, mantissa) \in {"e", "E"}
        signed == UnitAt(source, mantissa + 1) \in {"+", "-"}
        end == CASE prefixed -> DigitsEnd(source, position + 2, radixDigits)
                 [] ~prefixed /\ exponent ->
                      DigitsEnd(source, mantissa + (IF signed THEN 2 ELSE 1), Digits)
                 [] OTHER -> mantissa
        bigint == prefixed \/ (~fractional /\ ~exponent)
    IN  IF bigint /\ UnitAt(source, end) = "n" THEN end + 1 ELSE end

(* Mutant: of an escaped line break only the first character is passed. *)
EscapedEndOneUnit(source, position) ==
    IF position + 1 >= Len(source) THEN Len(source) ELSE position + 2

(* Past a backslash and what it escapes. *)
EscapedEnd(source, position) ==
    IF position + 1 >= Len(source) THEN Len(source)
    ELSE IF StartsWith(source, position + 1, <<"\r", "\n">>) THEN position + 3
    ELSE position + 2

QuotedEnd(source, position, quote) ==
    LET end[p \in Positions(source)] ==
            LET unit == UnitAt(source, p)
            IN  IF p = Len(source) \/ unit \in {"\r", "\n"} THEN p
                ELSE IF unit = quote THEN p + 1
                ELSE end[IF unit = "\\" THEN EscapedEnd(source, p) ELSE p + 1]
    IN  end[position]

RegexEnd(source, position) ==
    LET end[s \in [at : Positions(source), inClass : BOOLEAN]] ==
            LET unit == UnitAt(source, s.at)
            IN  IF s.at = Len(source) \/ unit \in LineTerminators THEN s.at
                ELSE IF unit = "/" /\ ~s.inClass THEN RunEnd(source, s.at + 1, Words(source))
                ELSE IF unit = "\\" THEN end[[s EXCEPT !.at = EscapedEnd(source, s.at)]]
                ELSE end[[at |-> s.at + 1, inClass |-> unit = "[" \/ (s.inClass /\ unit # "]")]]
    IN  end[[at |-> position, inClass |-> FALSE]]

LineCommentEnd(source, position) ==
    RunEnd(source, position, DOMAIN source \ Where(source, LineTerminators))

BlockCommentEnd(source, position) ==
    LET closings == {i \in position .. Len(source) : StartsWith(source, i, <<"*", "/">>)}
    IN  IF closings = {} THEN Len(source)
        ELSE 2 + CHOOSE i \in closings : \A j \in closings : i <= j

(* Past one blank or comment; the position itself where there is none. *)
TriviaEnd(source, position) ==
    CASE UnitAt(source, position) \in Blanks -> position + 1
      [] StartsWith(source, position, <<"/", "/">>) -> LineCommentEnd(source, position + 2)
      [] StartsWith(source, position, <<"/", "*">>) -> BlockCommentEnd(source, position + 2)
      [] OTHER -> position

SkipTrivia(source, position) ==
    LET lo[p \in Positions(source)] ==
            LET end == TriviaEnd(source, p) IN IF end = p THEN p ELSE lo[end]
    IN  lo[position]

OperatorEnd(source, position) ==
    LET lengths == {Len(op) : op \in {o \in Operators : StartsWith(source, position, o)}}
    IN  IF lengths = {} THEN position + 1
        ELSE position + CHOOSE n \in lengths : \A k \in lengths : k <= n

(***************************************************************************)
(* Where a slash starts a regular expression.  previous holds the token    *)
(* before it, or nothing.  A token is where it starts and ends.            *)
(***************************************************************************)
Kinds == {"Ident", "Number", "String", "Template", "Regex", "Punct"}

Items(source) ==
    [kind : Kinds, lo : Positions(source), hi : Positions(source), lineBreakBefore : BOOLEAN,
     closesControlHeader : BOOLEAN, closesStatementBlock : BOOLEAN]

ItemUnits(source, item) == SubSeq(source, item.lo + 1, item.hi)
Text(source, item) == FlattenSeq(ItemUnits(source, item))

ControlKeywords == {"if", "while", "for", "with", "switch", "catch"}
RegexAfterIdent == {"await", "case", "default", "delete", "do", "else", "in", "instanceof", "new",
                    "of", "return", "throw", "typeof", "void", "yield"}
NoRegexAfterPunct == {")", "]", "}", "++", "--", ".", "?."}
BlockAfterIdent == {"catch", "do", "else", "finally", "static", "try"}
BlockAfterPunct == {")", "=>", ";"}

(* Mutant: what a closing parenthesis or brace closes is not asked. *)
RegexAllowedByText(source, previous) ==
    \A p \in previous :
        \/ p.kind = "Ident" /\ Text(source, p) \in RegexAfterIdent
        \/ p.kind = "Punct" /\ Text(source, p) \notin NoRegexAfterPunct

RegexAllowed(source, previous) ==
    \A p \in previous :
        \/ p.kind = "Ident" /\ Text(source, p) \in RegexAfterIdent
        \/ p.kind = "Punct" /\ Text(source, p) \notin NoRegexAfterPunct
        \/ p.kind = "Punct" /\ Text(source, p) = "}" /\ p.closesStatementBlock
        \/ p.kind = "Punct" /\ Text(source, p) # "}" /\ p.closesControlHeader

(* The innermost of a stack of answers, or the default for an empty one. *)
Top(stack, default) == IF stack = <<>> THEN default ELSE Last(stack)
Popped(stack) == IF stack = <<>> THEN stack ELSE Front(stack)

StartsStatementBlock(source, previous, blocks) ==
    \A p \in previous :
        \/ p.kind = "Ident" /\ Text(source, p) \in BlockAfterIdent
        \/ p.kind = "Punct" /\ Text(source, p) \in BlockAfterPunct
        \/ p.kind = "Punct" /\ Text(source, p) = "{" /\ Top(blocks, TRUE)

AfterControlKeyword(source, previous) ==
    \E p \in previous : p.kind = "Ident" /\ Text(source, p) \in ControlKeywords

(***************************************************************************)
(* What next_token carries from token to token: the position, the token    *)
(* before it, and for each open bracket what it will close.                *)
(***************************************************************************)
Delimiters == [controlHeaders : Seq(BOOLEAN), statementBlocks : Seq(BOOLEAN)]
NoDelimiters == [controlHeaders |-> <<>>, statementBlocks |-> <<>>]

Readers(source) ==
    [at : Positions(source), previous : SUBSET Items(source), delimiters : Delimiters]

ReaderAt(position) == [at |-> position, previous |-> {}, delimiters |-> NoDelimiters]

(* annotate_delimiters, the marks of the token and the two stacks after it. *)
Annotated(source, d, item) ==
    LET is(text) == item.kind = "Punct" /\ Text(source, item) = text
    IN  [item EXCEPT !.closesControlHeader = is(")") /\ Top(d.controlHeaders, FALSE),
                     !.closesStatementBlock = is("}") /\ Top(d.statementBlocks, FALSE)]

DelimitersAfter(source, previous, d, item) ==
    LET is(text) == item.kind = "Punct" /\ Text(source, item) = text
    IN  [controlHeaders |->
             IF is("(") THEN Append(d.controlHeaders, AfterControlKeyword(source, previous))
             ELSE IF is(")") THEN Popped(d.controlHeaders) ELSE d.controlHeaders,
         statementBlocks |->
             IF is("{") THEN Append(d.statementBlocks,
                                    StartsStatementBlock(source, previous, d.statementBlocks))
             ELSE IF is("}") THEN Popped(d.statementBlocks) ELSE d.statementBlocks]

(***************************************************************************)
(* token_at and next_token.  nested says where the template ends that      *)
(* starts behind a position: templates are opaque, but the code in them,   *)
(* which may hold templates again, has to be read for its end.             *)
(***************************************************************************)
TokenAt(source, nested, lo, previous) ==
    LET unit == UnitAt(source, lo)
        kind == CASE unit \in Quotes -> "String"
                  [] unit = "TICK" -> "Template"
                  [] unit = "/" /\ RegexAllowed(source, previous) -> "Regex"
                  [] IsWord(unit) -> "Ident"
                  [] unit \in Digits \/ (unit = "." /\ UnitAt(source, lo + 1) \in Digits) -> "Number"
                  [] OTHER -> "Punct"
        hi == CASE kind = "String" -> QuotedEnd(source, lo + 1, unit)
                [] kind = "Template" -> nested[lo + 1]
                [] kind = "Regex" -> RegexEnd(source, lo + 1)
                [] kind = "Ident" -> IdentEnd(source, lo)
                [] kind = "Number" -> NumberEnd(source, lo)
                [] kind = "Punct" -> OperatorEnd(source, lo)
    IN  [kind |-> kind, lo |-> lo, hi |-> hi, lineBreakBefore |-> FALSE,
         closesControlHeader |-> FALSE, closesStatementBlock |-> FALSE]

(* The reader behind the next token, if there is one. *)
NextToken(source, nested, reader) ==
    LET lo == SkipTrivia(source, reader.at)
        lineBreak == \E i \in reader.at + 1 .. lo : source[i] \in LineTerminators
        item == [TokenAt(source, nested, lo, reader.previous) EXCEPT !.lineBreakBefore = lineBreak]
    IN  IF lo = Len(source) THEN {}
        ELSE {[at |-> item.hi,
               previous |-> {Annotated(source, reader.delimiters, item)},
               delimiters |-> DelimitersAfter(source, reader.previous, reader.delimiters, item)]}

(* template_expression_end *)
TemplateExpressionEnd(source, nested, position) ==
    LET end[s \in [reader : Readers(source), depth : Nat \ {0}]] ==
            LET after == NextToken(source, nested, s.reader)
                reader == CHOOSE r \in after : TRUE
                item == CHOOSE i \in reader.previous : TRUE
                opens == item.kind = "Punct" /\ Text(source, item) = "{"
                closes == item.kind = "Punct" /\ Text(source, item) = "}"
            IN  IF after = {} THEN Len(source)
                ELSE IF closes /\ s.depth = 1 THEN reader.at
                ELSE end[[reader |-> reader,
                          depth |-> IF opens THEN s.depth + 1
                                    ELSE IF closes THEN s.depth - 1 ELSE s.depth]]
    IN  end[[reader |-> ReaderAt(position), depth |-> 1]]

TemplateEnd(source, nested, position) ==
    LET end[p \in Positions(source)] ==
            LET unit == UnitAt(source, p)
            IN  IF p = Len(source) THEN p
                ELSE IF unit = "TICK" THEN p + 1
                ELSE end[IF unit = "\\" THEN EscapedEnd(source, p)
                         ELSE IF StartsWith(source, p, <<"$", "{">>)
                              THEN TemplateExpressionEnd(source, nested, p + 2)
                              ELSE p + 1]
    IN  end[position]

(* The ends of templates that are nested as often as level says: one for   *)
(* each unit is more than any source has room for.                         *)
TemplateEnds(source) ==
    LET ends[level \in Nat] ==
            IF level = 0 THEN [p \in Positions(source) |-> Len(source)]
            ELSE [p \in Positions(source) |-> TemplateEnd(source, ends[level - 1], p)]
    IN  ends[Len(source)]

(* Tokens::new, as what kind, text and the other accessors show of it. *)
Token(source, item) ==
    [kind |-> item.kind, lo |-> item.lo, hi |-> item.hi, units |-> ItemUnits(source, item),
     text |-> Text(source, item), lineBreakBefore |-> item.lineBreakBefore]

Tokens(source) ==
    LET nested == TemplateEnds(source)
        from[reader \in Readers(source)] ==
            LET after == NextToken(source, nested, reader)
                next == CHOOSE r \in after : TRUE
            IN  IF after = {} THEN <<>>
                ELSE <<Token(source, CHOOSE i \in next.previous : TRUE)>> \o from[next]
    IN  from[ReaderAt(0)]

(***************************************************************************)
(* string_eq, the value of a string or of a template without expressions.  *)
(* What belongs to an escape is one unit behind the backslash; x and u     *)
(* alone stand for one whose digits are missing.                           *)
(***************************************************************************)
Escapes == [b |-> "BS", f |-> "FF", n |-> "\n", r |-> "\r", t |-> "\t", v |-> "VT",
            x66 |-> "f", x67 |-> "g", u0066 |-> "f", u0067 |-> "g"]
           @@ ("0" :> "NUL") @@ ("\n" :> "") @@ ("\r" :> "") @@ ("LS" :> "") @@ ("u{67}" :> "g")

(* At most one text. *)
Decoded(inner, quote) ==
    LET texts[p \in Positions(inner)] ==
            LET unit == UnitAt(inner, p)
                escaped == UnitAt(inner, p + 1)
                value == IF unit # "\\" THEN unit
                         ELSE IF escaped \in DOMAIN Escapes THEN Escapes[escaped] ELSE escaped
                next == IF unit = "\\" THEN EscapedEnd(inner, p) ELSE p + 1
            IN  IF p = Len(inner) THEN {""}
                ELSE IF \/ quote = "TICK" /\ StartsWith(inner, p, <<"$", "{">>)
                        \/ unit = "\\" /\ escaped \in {"", "x", "u"}
                     THEN {}
                ELSE {value \o rest : rest \in texts[next]}
    IN  texts[0]

StringEq(token, expected) ==
    /\ token.kind \in {"String", "Template"}
    /\ Len(token.units) >= 2 /\ Last(token.units) = token.units[1]
    /\ Decoded(SubSeq(token.units, 2, Len(token.units) - 1), token.units[1]) = {expected}
=============================================================================
