----------------------------- MODULE RuleProofs -----------------------------
(***************************************************************************)
(* Proofs about the rules, and about the tokenizer and the matcher they    *)
(* use.                                                                    *)
(***************************************************************************)
EXTENDS RulePlan, SequenceLemmas

-----------------------------------------------------------------------------
(***************************************************************************)
(* The tokenizer.                                                          *)
(***************************************************************************)
(* The units from a position on that are inside a set. *)
LEMMA RunEndIs ==
    ASSUME NEW S, NEW source \in Seq(S), NEW position \in Positions(source), NEW inside
    PROVE  /\ RunEnd(source, position, inside) \in position .. Len(source)
           /\ position < Len(source) /\ position + 1 \in inside =>
                  position < RunEnd(source, position, inside)
<1> DEFINE n == Len(source)
           T == {end \in position .. n : end = n \/ end + 1 \notin inside}
<1>1. n \in Nat /\ position \in Nat /\ position <= n
  BY LenProperties DEF Positions
<1> HIDE DEF n
<1>2. T \subseteq Nat /\ n \in T
  BY <1>1
<1>3. PICK e \in T : \A y \in T : ~(y < e)
  <2> HIDE DEF T
  <2> QED
    BY <1>2, LeastNumber
<1>4. ASSUME NEW i \in position + 1 .. e PROVE i \in inside
  <2>1. i - 1 \in position .. n /\ i - 1 # n /\ i - 1 < e /\ (i - 1) + 1 = i
    BY <1>1, <1>3
  <2> QED
    BY <1>3, <2>1
<1> DEFINE Ends(end) == (end = n \/ end + 1 \notin inside) /\ position + 1 .. end \subseteq inside
<1>5. RunEnd(source, position, inside) = CHOOSE end \in position .. n : Ends(end)
  BY DEF RunEnd, n
<1>6. \E end \in position .. n : Ends(end)
  BY <1>3, <1>4
<1>7. RunEnd(source, position, inside) \in position .. n /\ Ends(RunEnd(source, position, inside))
  <2> HIDE DEF Ends
  <2> QED
    BY <1>5, <1>6
<1> QED
  BY <1>1, <1>7 DEF n

(* There is no unit at the end. *)
NoUnit == ""

LEMMA UnitAtIs ==
    \A source, position : UnitAt(source, position) =
                              IF position < Len(source) THEN source[position + 1] ELSE NoUnit
  BY Zenon DEF UnitAt, NoUnit

LEMMA NoUnitIs ==
    /\ NoUnit \notin Blanks /\ NoUnit \notin Quotes /\ NoUnit \notin Digits
    /\ NoUnit # "." /\ NoUnit # "n" /\ NoUnit # "/" /\ NoUnit # "TICK" /\ NoUnit # "\\"
    /\ NoUnit \notin {"x", "X", "o", "O", "b", "B"} /\ NoUnit \notin {"e", "E"}
    /\ NoUnit \notin {"+", "-"}
  BY Zenon DEF NoUnit, Blanks, LineTerminators, Quotes, Digits

LEMMA EscapedEndIs ==
    ASSUME NEW S, NEW source \in Seq(S), NEW position \in Nat, position < Len(source)
    PROVE  EscapedEnd(source, position) \in position + 1 .. Len(source)
<1>1. Len(source) \in Nat /\ Len(<<"\r", "\n">>) = 2
  BY LenProperties
<1>2. StartsWith(source, position + 1, <<"\r", "\n">>) => position + 3 <= Len(source)
  BY <1>1 DEF StartsWith
<1> QED
  BY <1>1, <1>2 DEF EscapedEnd

LEMMA QuotedEndIs ==
    ASSUME NEW S, NEW source \in Seq(S), NEW quote, NEW position \in Positions(source)
    PROVE  QuotedEnd(source, position, quote) \in position .. Len(source)
<1> DEFINE n == Len(source)
           D == Positions(source)
           V == [p \in D |-> p .. n]
           m == [p \in D |-> n - p]
           Past(p) == IF UnitAt(source, p) = "\\" THEN EscapedEnd(source, p) ELSE p + 1
           Ends(p) == p = n \/ UnitAt(source, p) \in {"\r", "\n"}
           Closes(p) == UnitAt(source, p) = quote
           Body(p, g) == IF Ends(p) THEN p ELSE IF Closes(p) THEN p + 1 ELSE g[Past(p)]
           end == CHOOSE h : h = [p \in D |-> Body(p, h)]
           F == Typed(D, V) \cup {end}
           H == [p \in D |-> [g \in F |-> Body(p, g)]]
<1>0. QuotedEnd(source, position, quote) = end[position]
  BY DEF QuotedEnd
<1>1. n \in Nat /\ D = 0 .. n
  BY LenProperties DEF Positions
<1>2. \A p \in D : ~Ends(p) => p < n /\ Past(p) \in p + 1 .. n
  BY <1>1, EscapedEndIs
<1>3. \A p \in D : \A g \in Typed(D, V) : g[p] \in p .. n
  BY DEF Typed
<1> HIDE DEF n, Past, Ends, Closes, end
<1>4. m \in [D -> Nat] /\ \A x \in D : m[x] <= n /\ V[x] # {}
  BY <1>1
<1> HIDE DEF D
<1>5. \A p \in D : \A g, h \in F :
         (\A y \in D : m[y] < m[p] => g[y] = h[y]) => H[p][g] = H[p][h]
  BY <1>1, <1>2
<1>6. \A p \in D : \A g \in Typed(D, V) : H[p][g] \in V[p]
  BY <1>1, <1>2, <1>3
<1>7. \A p \in D : \A g \in F : H[p][g] = Body(p, g)
  OBVIOUS
<1>8. Recurs(D, V, m, n, F, H)
  BY <1>1, <1>4, <1>5, <1>6 DEF Recurs
<1> HIDE DEF Body, H, V, m
<1>9. end = [p \in D |-> Body(p, end)]
  <2>1. \E f \in Typed(D, V) : f = [x \in D |-> H[x][f]]
    BY <1>8, RecursiveFunction
  <2> QED
    BY <1>7, <2>1 DEF end
<1>10. end = [x \in D |-> H[x][end]]
  BY <1>7, <1>9
<1>11. \A p \in D : end[p] \in V[p]
  BY <1>8, <1>10, RecursiveFunctionIs
<1> QED
  BY <1>0, <1>11 DEF D, V, n

LEMMA OperatorLengths == \A op \in Operators : Len(op) \in 2 .. 4
  BY DEF Operators

LEMMA OperatorEndIs ==
    ASSUME NEW S, NEW source \in Seq(S), NEW position \in Nat, position < Len(source)
    PROVE  OperatorEnd(source, position) \in position + 1 .. Len(source)
<1> DEFINE n == Len(source)
           lengths == {Len(op) : op \in {o \in Operators : StartsWith(source, position, o)}}
<1>1. n \in Nat /\ position + 1 <= n
  BY LenProperties
<1>2. \A k \in lengths : k \in 2 .. 4 /\ position + k <= n
  BY OperatorLengths DEF StartsWith
<1> HIDE DEF lengths, n
<1>3. ASSUME lengths # {}
      PROVE  \E k \in lengths : \A j \in lengths : j <= k
  <2> DEFINE T == {4 - k : k \in lengths}
  <2>1. T \subseteq Nat /\ T # {}
    BY <1>2, <1>3
  <2>2. PICK x \in T : \A y \in T : ~(y < x)
    <3> HIDE DEF T
    <3> QED
      BY <2>1, LeastNumber
  <2>3. PICK k \in lengths : x = 4 - k
    OBVIOUS
  <2>4. \A j \in lengths : ~(4 - j < 4 - k)
    BY <2>2, <2>3
  <2> QED
    BY <1>2, <2>4
<1>4. OperatorEnd(source, position) =
         IF lengths = {} THEN position + 1
         ELSE position + CHOOSE k \in lengths : \A j \in lengths : j <= k
  BY DEF OperatorEnd, lengths
<1> QED
  BY <1>1, <1>2, <1>3, <1>4 DEF n

LEMMA NumberEndIs ==
    ASSUME NEW S, NEW source \in Seq(S), NEW position \in Nat, position < Len(source),
           UnitAt(source, position) \in Digits \/ UnitAt(source, position) = "."
    PROVE  NumberEnd(source, position) \in position + 1 .. Len(source)
<1> DEFINE n == Len(source)
           u(p) == UnitAt(source, p)
           radix == u(position + 1)
           prefixed == u(position) = "0" /\ radix \in {"x", "X", "o", "O", "b", "B"}
           radixDigits == IF radix \in {"x", "X"} THEN HexDigits
                          ELSE IF radix \in {"o", "O"} THEN Digits \ {"8", "9"} ELSE {"0", "1"}
           dot == u(position) = "."
           D(p, digits) == DigitsEnd(source, p, digits)
           whole == D(position + (IF dot THEN 1 ELSE 0), Digits)
           fractional == dot \/ u(whole) = "."
           mantissa == IF fractional /\ ~dot THEN D(whole + 1, Digits) ELSE whole
           exponent == u(mantissa) \in {"e", "E"}
           signed == u(mantissa + 1) \in {"+", "-"}
           end == CASE prefixed -> D(position + 2, radixDigits)
                    [] ~prefixed /\ exponent -> D(mantissa + (IF signed THEN 2 ELSE 1), Digits)
                    [] OTHER -> mantissa
           bigint == prefixed \/ (~fractional /\ ~exponent)
<1>0. NumberEnd(source, position) = IF bigint /\ u(end) = "n" THEN end + 1 ELSE end
  BY DEF NumberEnd
<1>1. n \in Nat /\ position < n /\ DOMAIN source = 1 .. n
  BY LenProperties
<1>2. \A p \in 0 .. n : \A digits : D(p, digits) \in p .. n
  BY RunEndIs DEF DigitsEnd, Positions
<1>3. u(position) \in Digits => D(position, Digits) \in position + 1 .. n
  <2> DEFINE inside == Where(source, Digits \cup {"_"})
  <2>1. D(position, Digits) = RunEnd(source, position, inside)
    BY DEF DigitsEnd
  <2>2. ASSUME position + 1 \in DOMAIN source, source[position + 1] \in Digits
        PROVE  position + 1 \in inside
    BY Zenon, <2>2 DEF Where
  <2>3. position \in Positions(source)
    BY <1>1 DEF Positions
  <2> HIDE DEF inside
  <2>4. /\ RunEnd(source, position, inside) \in position .. n
        /\ position + 1 \in inside => position < RunEnd(source, position, inside)
    BY <1>1, <2>3, RunEndIs
  <2>5. u(position) = source[position + 1] /\ position + 1 \in DOMAIN source
    BY <1>1, UnitAtIs
  <2> HIDE DEF D, n, u
  <2> QED
    BY <1>1, <2>1, <2>2, <2>4, <2>5
<1>4. \A p \in 0 .. n : u(p) # NoUnit => p < n
  BY <1>1, UnitAtIs
<1> HIDE DEF n, u, D
<1>5. prefixed => position + 2 \in 0 .. n
  <2>1. position + 1 \in 0 .. n
    BY <1>1
  <2> QED
    BY <1>1, <1>4, <2>1, NoUnitIs
<1>6. whole \in position + 1 .. n
  BY <1>1, <1>2, <1>3 DEF u
<1> HIDE DEF whole, dot
<1>7. mantissa \in position + 1 .. n
  <2>1. u(whole) = "." => whole + 1 \in 0 .. n
    BY <1>1, <1>4, <1>6, NoUnitIs
  <2> QED
    BY <1>1, <1>2, <1>6, <2>1
<1> HIDE DEF mantissa
<1>8. exponent => mantissa + 1 \in 0 .. n /\ (signed => mantissa + 2 \in 0 .. n)
  <2>1. exponent => mantissa + 1 \in 0 .. n
    BY <1>1, <1>4, <1>7, NoUnitIs
  <2>2. mantissa + 1 \in 0 .. n /\ signed => mantissa + 2 \in 0 .. n
    BY <1>1, <1>4, <1>7, NoUnitIs
  <2> QED
    BY <2>1, <2>2
<1> HIDE DEF exponent, signed, prefixed, radixDigits
<1>9. end \in position + 1 .. n
  <2>1. CASE prefixed
    BY <1>1, <1>2, <1>5, <2>1
  <2>2. CASE ~prefixed /\ exponent
    BY <1>1, <1>2, <1>7, <1>8, <2>2
  <2>3. CASE ~prefixed /\ ~exponent
    BY <1>7, <2>3
  <2> QED
    BY <2>1, <2>2, <2>3
<1> HIDE DEF end
<1>10. u(end) = "n" => end + 1 \in position + 1 .. n
  BY <1>1, <1>4, <1>9, NoUnitIs
<1> QED
  BY <1>0, <1>9, <1>10 DEF n

LEMMA TriviaEndIs ==
    ASSUME NEW S, NEW source \in Seq(S), NEW position \in Positions(source)
    PROVE  TriviaEnd(source, position) \in position .. Len(source)
<1> DEFINE n == Len(source)
           slashes == StartsWith(source, position, <<"/", "/">>)
           opening == StartsWith(source, position, <<"/", "*">>)
           blank == UnitAt(source, position) \in Blanks
<1>1. n \in Nat /\ position \in Nat /\ position <= n
  BY LenProperties DEF Positions
<1>2. blank => position + 1 <= n
  BY <1>1, UnitAtIs, NoUnitIs
<1>3. /\ slashes => position + 2 <= n
      /\ opening => position + 2 <= n
  BY DEF StartsWith
<1>4. slashes => LineCommentEnd(source, position + 2) \in position .. n
  <2>1. SUFFICES ASSUME slashes PROVE LineCommentEnd(source, position + 2) \in position .. n
    OBVIOUS
  <2>2. position + 2 \in Positions(source)
    BY <1>1, <1>3, <2>1 DEF Positions
  <2> QED
    BY <1>1, <2>2, RunEndIs DEF LineCommentEnd
<1>5. ASSUME opening PROVE BlockCommentEnd(source, position + 2) \in position .. n
  <2> DEFINE closings == {i \in position + 2 .. n : StartsWith(source, i, <<"*", "/">>)}
  <2>1. \A i \in closings : i \in Nat /\ position + 2 <= i /\ i + 2 <= n
    BY <1>1 DEF StartsWith
  <2>2. BlockCommentEnd(source, position + 2) =
           IF closings = {} THEN n ELSE 2 + CHOOSE i \in closings : \A j \in closings : i <= j
    BY DEF BlockCommentEnd
  <2> HIDE DEF closings
  <2>3. ASSUME closings # {} PROVE \E i \in closings : \A j \in closings : i <= j
    <3>1. closings \subseteq Nat
      BY <2>1
    <3>2. PICK i \in closings : \A j \in closings : ~(j < i)
      BY <2>3, <3>1, LeastNumber
    <3> QED
      BY <3>1, <3>2
  <2> HIDE DEF n
  <2> QED
    BY <1>1, <2>1, <2>2, <2>3, SMTT(30)
<1>6. TriviaEnd(source, position) =
         CASE blank -> position + 1
           [] slashes -> LineCommentEnd(source, position + 2)
           [] opening -> BlockCommentEnd(source, position + 2)
           [] OTHER -> position
  BY DEF TriviaEnd
<1> HIDE DEF slashes, opening, blank
<1>7. \/ TriviaEnd(source, position) = position
      \/ blank /\ TriviaEnd(source, position) = position + 1
      \/ slashes /\ TriviaEnd(source, position) = LineCommentEnd(source, position + 2)
      \/ opening /\ TriviaEnd(source, position) = BlockCommentEnd(source, position + 2)
  BY <1>6
<1> QED
  BY <1>1, <1>2, <1>4, <1>5, <1>7

LEMMA SkipTriviaIs ==
    ASSUME NEW S, NEW source \in Seq(S), NEW position \in Positions(source)
    PROVE  SkipTrivia(source, position) \in position .. Len(source)
<1> DEFINE n == Len(source)
           D == Positions(source)
           V == [p \in D |-> p .. n]
           m == [p \in D |-> n - p]
           Past(p) == TriviaEnd(source, p)
           Body(p, g) == IF Past(p) = p THEN p ELSE g[Past(p)]
           lo == CHOOSE h : h = [p \in D |-> Body(p, h)]
           F == Typed(D, V) \cup {lo}
           H == [p \in D |-> [g \in F |-> Body(p, g)]]
<1>0. SkipTrivia(source, position) = lo[position]
  BY DEF SkipTrivia
<1>1. n \in Nat /\ D = 0 .. n
  BY LenProperties DEF Positions
<1>2. \A p \in D : Past(p) \in p .. n
  BY TriviaEndIs
<1>3. \A p \in D : \A g \in Typed(D, V) : g[p] \in p .. n
  BY DEF Typed
<1> HIDE DEF n, Past, lo
<1>4. m \in [D -> Nat] /\ \A x \in D : m[x] <= n /\ V[x] # {}
  BY <1>1
<1> HIDE DEF D
<1>5. \A p \in D : \A g, h \in F :
         (\A y \in D : m[y] < m[p] => g[y] = h[y]) => H[p][g] = H[p][h]
  BY <1>1, <1>2
<1>6. \A p \in D : \A g \in Typed(D, V) : H[p][g] \in V[p]
  BY <1>1, <1>2, <1>3
<1>7. \A p \in D : \A g \in F : H[p][g] = Body(p, g)
  OBVIOUS
<1>8. Recurs(D, V, m, n, F, H)
  BY <1>1, <1>4, <1>5, <1>6 DEF Recurs
<1> HIDE DEF Body, H, V, m
<1>9. lo = [p \in D |-> Body(p, lo)]
  <2>1. \E f \in Typed(D, V) : f = [x \in D |-> H[x][f]]
    BY <1>8, RecursiveFunction
  <2> QED
    BY <1>7, <2>1 DEF lo
<1>10. lo = [x \in D |-> H[x][lo]]
  BY <1>7, <1>9
<1>11. \A p \in D : lo[p] \in V[p]
  BY <1>8, <1>10, RecursiveFunctionIs
<1> QED
  BY <1>0, <1>11 DEF D, V, n

LEMMA RegexEndIs ==
    ASSUME NEW S, NEW source \in Seq(S), NEW position \in Positions(source)
    PROVE  RegexEnd(source, position) \in position .. Len(source)
<1> DEFINE n == Len(source)
           D == [at : Positions(source), inClass : BOOLEAN]
           V == [s \in D |-> s.at .. n]
           m == [s \in D |-> n - s.at]
           unit(s) == UnitAt(source, s.at)
           Ends(s) == s.at = n \/ unit(s) \in LineTerminators
           Flags(s) == RunEnd(source, s.at + 1, Words(source))
           Escapee(s) == [s EXCEPT !.at = EscapedEnd(source, s.at)]
           Class(s) == unit(s) = "[" \/ (s.inClass /\ unit(s) # "]")
           Closes(s) == unit(s) = "/" /\ ~s.inClass
           Escaped(s) == unit(s) = "\\"
           Body(s, g) == IF Ends(s) THEN s.at
                         ELSE IF Closes(s) THEN Flags(s)
                         ELSE IF Escaped(s) THEN g[Escapee(s)]
                         ELSE g[[at |-> s.at + 1, inClass |-> Class(s)]]
           end == CHOOSE h : h = [s \in D |-> Body(s, h)]
           F == Typed(D, V) \cup {end}
           H == [s \in D |-> [g \in F |-> Body(s, g)]]
<1>0. RegexEnd(source, position) = end[[at |-> position, inClass |-> FALSE]]
  BY DEF RegexEnd
<1>1. n \in Nat /\ Positions(source) = 0 .. n
  BY LenProperties DEF Positions
<1>2. \A s \in D : ~Ends(s) =>
         /\ s.at < n /\ Flags(s) \in s.at .. n
         /\ Escapee(s) \in D /\ s.at < Escapee(s).at
         /\ [at |-> s.at + 1, inClass |-> Class(s)] \in D
  <2>1. SUFFICES ASSUME NEW s \in D, ~Ends(s)
                 PROVE  /\ s.at < n /\ Flags(s) \in s.at .. n
                        /\ Escapee(s) \in D /\ s.at < Escapee(s).at
                        /\ [at |-> s.at + 1, inClass |-> Class(s)] \in D
    OBVIOUS
  <2>2. s.at \in Nat /\ s.at < n /\ s.at + 1 \in Positions(source)
    BY <1>1, <2>1
  <2>3. Flags(s) \in s.at .. n
    <3> HIDE DEF n
    <3>1. RunEnd(source, s.at + 1, Words(source)) \in s.at + 1 .. n
      BY <2>2, RunEndIs DEF n
    <3> QED
      BY <1>1, <2>2, <3>1
  <2>4. EscapedEnd(source, s.at) \in s.at + 1 .. n
    BY <2>2, EscapedEndIs
  <2>5. Class(s) \in BOOLEAN
    OBVIOUS
  <2> HIDE DEF Flags, Ends, Class, n
  <2> QED
    BY <1>1, <2>1, <2>2, <2>3, <2>4, <2>5
<1>3. \A s \in D : \A g \in Typed(D, V) : g[s] \in s.at .. n
  BY DEF Typed
<1> HIDE DEF n, Ends, Flags, Escapee, Class, Closes, Escaped, end
<1>4. m \in [D -> Nat] /\ \A x \in D : m[x] <= n /\ V[x] # {}
  BY <1>1
<1>a. \A s \in D : s.at \in 0 .. n
  BY <1>1
<1> DEFINE Past(s) == [at |-> s.at + 1, inClass |-> Class(s)]
<1>b. \A s \in D : ~Ends(s) =>
         /\ s.at < n /\ Flags(s) \in s.at .. n
         /\ Escapee(s) \in D /\ s.at < Escapee(s).at
         /\ Past(s) \in D /\ s.at < Past(s).at
  BY <1>2, <1>a
<1> HIDE DEF Past
<1>c. \A s : \A g : Body(s, g) = IF Ends(s) THEN s.at
                         ELSE IF Closes(s) THEN Flags(s)
                         ELSE IF Escaped(s) THEN g[Escapee(s)]
                         ELSE g[Past(s)]
  BY DEF Past
<1> HIDE DEF D, Body
<1>5. \A s \in D : \A g, h \in F :
         (\A y \in D : m[y] < m[s] => g[y] = h[y]) => H[s][g] = H[s][h]
  <2>1. SUFFICES ASSUME NEW s \in D, NEW g \in F, NEW h \in F,
                        \A y \in D : m[y] < m[s] => g[y] = h[y]
                 PROVE  Body(s, g) = Body(s, h)
    OBVIOUS
  <2>2. ~Ends(s) => m[Escapee(s)] < m[s] /\ m[Past(s)] < m[s]
    BY <1>1, <1>a, <1>b
  <2> HIDE DEF m, H, F
  <2>3. ~Ends(s) => g[Escapee(s)] = h[Escapee(s)] /\ g[Past(s)] = h[Past(s)]
    BY <1>b, <2>1, <2>2
  <2> QED
    BY <1>c, <2>3
<1>6. \A s \in D : \A g \in Typed(D, V) : H[s][g] \in V[s]
  BY <1>1, <1>a, <1>b, <1>c, <1>3, SMTT(30)
<1>7. \A s \in D : \A g \in F : H[s][g] = Body(s, g)
  OBVIOUS
<1>8. Recurs(D, V, m, n, F, H)
  BY <1>1, <1>4, <1>5, <1>6 DEF Recurs
<1> HIDE DEF H, V, m
<1>9. end = [s \in D |-> Body(s, end)]
  <2>1. \E f \in Typed(D, V) : f = [x \in D |-> H[x][f]]
    BY <1>8, RecursiveFunction
  <2>2. \E f : f = [s \in D |-> Body(s, f)]
    BY <1>7, <2>1
  <2> HIDE DEF F
  <2> QED
    BY <2>2 DEF end
<1>10. end = [x \in D |-> H[x][end]]
  BY <1>7, <1>9
<1>11. \A s \in D : end[s] \in V[s]
  BY <1>8, <1>10, RecursiveFunctionIs
<1> QED
  BY <1>0, <1>11 DEF D, V, n

(* Where a template may end that starts at a position. *)
EndsAfter(source) == [p \in Positions(source) |-> p .. Len(source)]
TemplatesEnd(source) == Typed(Positions(source), EndsAfter(source))

LEMMA TemplatesEndIs ==
    ASSUME NEW source, NEW nested \in TemplatesEnd(source)
    PROVE  \A p \in Positions(source) : nested[p] \in p .. Len(source)
  BY DEF TemplatesEnd, EndsAfter, Typed

LEMMA TokenAtIs ==
    ASSUME NEW S, NEW source \in Seq(S), NEW nested \in TemplatesEnd(source), NEW previous,
           NEW lo \in Nat, lo < Len(source)
    PROVE  LET item == TokenAt(source, nested, lo, previous)
           IN  item \in Items(source) /\ item.lo = lo /\ item.hi \in lo + 1 .. Len(source)
<1> DEFINE n == Len(source)
           unit == UnitAt(source, lo)
           quoted == unit \in Quotes
           tick == unit = "TICK"
           slash == unit = "/" /\ RegexAllowed(source, previous)
           digit == unit \in Digits \/ (unit = "." /\ UnitAt(source, lo + 1) \in Digits)
           word == IsWord(unit)
           kind == CASE quoted -> "String"
                     [] tick -> "Template"
                     [] slash -> "Regex"
                     [] word -> "Ident"
                     [] digit -> "Number"
                     [] OTHER -> "Punct"
           hi == CASE kind = "String" -> QuotedEnd(source, lo + 1, unit)
                   [] kind = "Template" -> nested[lo + 1]
                   [] kind = "Regex" -> RegexEnd(source, lo + 1)
                   [] kind = "Ident" -> IdentEnd(source, lo)
                   [] kind = "Number" -> NumberEnd(source, lo)
                   [] kind = "Punct" -> OperatorEnd(source, lo)
           item == [kind |-> kind, lo |-> lo, hi |-> hi, lineBreakBefore |-> FALSE,
                    closesControlHeader |-> FALSE, closesStatementBlock |-> FALSE]
<1>0. TokenAt(source, nested, lo, previous) = item
  BY DEF TokenAt
<1>1. n \in Nat /\ lo \in Positions(source) /\ lo + 1 \in Positions(source)
      /\ Positions(source) = 0 .. n /\ DOMAIN source = 1 .. n
  BY LenProperties DEF Positions
<1>2. QuotedEnd(source, lo + 1, unit) \in lo + 1 .. n
  BY <1>1, QuotedEndIs
<1>3. nested[lo + 1] \in lo + 1 .. n
  BY <1>1, TemplatesEndIs
<1>4. RegexEnd(source, lo + 1) \in lo + 1 .. n
  BY <1>1, RegexEndIs
<1>5. word => IdentEnd(source, lo) \in lo + 1 .. n
  <2>1. unit = source[lo + 1] /\ lo + 1 \in DOMAIN source
    BY <1>1, UnitAtIs
  <2>2. word => lo + 1 \in Words(source) \cup Where(source, Digits)
    BY <2>1 DEF Words
  <2> HIDE DEF n
  <2> QED
    BY <1>1, <2>2, RunEndIs DEF IdentEnd, n
<1>6. digit => NumberEnd(source, lo) \in lo + 1 .. n
  BY NumberEndIs
<1>7. OperatorEnd(source, lo) \in lo + 1 .. n
  BY OperatorEndIs
<1> HIDE DEF n, quoted, tick, slash, digit, word, unit
<1>8. /\ kind \in Kinds
      /\ kind = "Ident" => word
      /\ kind = "Number" => digit
  BY DEF Kinds
<1> HIDE DEF kind
<1>9. hi \in lo + 1 .. n
  BY <1>2, <1>3, <1>4, <1>5, <1>6, <1>7, <1>8 DEF Kinds
<1> HIDE DEF hi
<1>10. item \in Items(source) /\ item.lo = lo /\ item.hi \in lo + 1 .. n
  <2>1. hi \in Positions(source)
    BY <1>1, <1>9
  <2> QED
    BY <1>1, <1>8, <1>9, <2>1 DEF Items
<1> QED
  BY <1>0, <1>10 DEF n

LEMMA DelimitersAfterIs ==
    ASSUME NEW source, NEW previous, NEW d \in Delimiters, NEW item
    PROVE  DelimitersAfter(source, previous, d, item) \in Delimiters
<1>1. \A s \in Seq(BOOLEAN) : Popped(s) \in Seq(BOOLEAN)
  <2>1. ASSUME NEW T, NEW s \in Seq(T) PROVE Front(s) \in Seq(T)
    <3>1. Len(s) - 1 \in Int /\ 1 \in Int /\ Len(s) \in Nat
      BY LenProperties
    <3>2. \A i \in 1 .. Len(s) - 1 : s[i] \in T
      BY <3>1, ElementOfSeq
    <3> QED
      BY <3>1, <3>2, SubSeqProperties DEF Front
  <2> QED
    BY <2>1 DEF Popped
<1>2. \A s \in Seq(BOOLEAN) : \A b \in BOOLEAN : Append(s, b) \in Seq(BOOLEAN)
  OBVIOUS
<1>3. AfterControlKeyword(source, previous) \in BOOLEAN
  BY DEF AfterControlKeyword
<1>4. StartsStatementBlock(source, previous, d.statementBlocks) \in BOOLEAN
  BY DEF StartsStatementBlock
<1> QED
  BY <1>1, <1>2, <1>3, <1>4 DEF DelimitersAfter, Delimiters

(* A reader goes on by a token. *)
Reads(source, reader, after) ==
    \A r \in after : /\ r \in Readers(source) /\ reader.at < r.at
                     /\ \E item \in Items(source) :
                           /\ r.previous = {item} /\ reader.at <= item.lo /\ item.lo < item.hi
                           /\ r.at = item.hi

LEMMA NextTokenIs ==
    ASSUME NEW S, NEW source \in Seq(S), NEW nested \in TemplatesEnd(source),
           NEW reader \in Readers(source)
    PROVE  Reads(source, reader, NextToken(source, nested, reader))
<1> DEFINE n == Len(source)
           lo == SkipTrivia(source, reader.at)
           lineBreak == \E i \in reader.at + 1 .. lo : source[i] \in LineTerminators
           read == TokenAt(source, nested, lo, reader.previous)
           item == [read EXCEPT !.lineBreakBefore = lineBreak]
           marked == Annotated(source, reader.delimiters, item)
           delimiters == DelimitersAfter(source, reader.previous, reader.delimiters, item)
<1>0. NextToken(source, nested, reader) =
         IF lo = n THEN {}
         ELSE {[at |-> item.hi, previous |-> {marked}, delimiters |-> delimiters]}
  BY DEF NextToken
<1>1. n \in Nat /\ Positions(source) = 0 .. n /\ reader.at \in 0 .. n /\ reader.delimiters \in Delimiters
  BY LenProperties DEF Positions, Readers
<1>2. lo \in reader.at .. n
  BY <1>1, SkipTriviaIs
<1>3. delimiters \in Delimiters
  BY <1>1, DelimitersAfterIs
<1> SUFFICES ASSUME lo # n
             PROVE  Reads(source, reader, {[at |-> item.hi, previous |-> {marked}, delimiters |-> delimiters]})
  BY <1>0 DEF Reads
<1>4. read \in Items(source) /\ read.lo = lo /\ read.hi \in lo + 1 .. n
  BY <1>1, <1>2, TokenAtIs
<1> HIDE DEF read, lo, n, delimiters
<1>5. lineBreak \in BOOLEAN
  OBVIOUS
<1> HIDE DEF lineBreak
<1>6. item \in Items(source) /\ item.lo = lo /\ item.hi \in lo + 1 .. n
  BY <1>4, <1>5 DEF Items
<1> HIDE DEF item
<1>7. marked \in Items(source) /\ marked.lo = lo /\ marked.hi = item.hi
  <2>3. PICK a, b : marked = [item EXCEPT !.closesControlHeader = a, !.closesStatementBlock = b]
                    /\ a \in BOOLEAN /\ b \in BOOLEAN
    BY DEF Annotated
  <2> QED
    BY <1>6, <2>3 DEF Items
<1> HIDE DEF marked
<1>8. [at |-> item.hi, previous |-> {marked}, delimiters |-> delimiters] \in Readers(source)
  BY <1>1, <1>2, <1>3, <1>6, <1>7 DEF Readers
<1> DEFINE after == [at |-> item.hi, previous |-> {marked}, delimiters |-> delimiters]
<1>9. after \in Readers(source) /\ after.at = item.hi /\ after.previous = {marked}
  BY <1>8
<1> HIDE DEF after
<1>10. reader.at < after.at /\ reader.at <= marked.lo /\ marked.lo < marked.hi /\ after.at = marked.hi
  BY <1>1, <1>2, <1>6, <1>7, <1>9
<1>11. Reads(source, reader, {after})
  BY <1>7, <1>9, <1>10 DEF Reads
<1> QED
  BY <1>11 DEF after

LEMMA TemplateExpressionEndIs ==
    ASSUME NEW S, NEW source \in Seq(S), NEW nested \in TemplatesEnd(source),
           NEW position \in Positions(source)
    PROVE  TemplateExpressionEnd(source, nested, position) \in position .. Len(source)
<1> DEFINE n == Len(source)
           D == [reader : Readers(source), depth : Nat \ {0}]
           V == [s \in D |-> s.reader.at .. n]
           m == [s \in D |-> n - s.reader.at]
           After(s) == NextToken(source, nested, s.reader)
           Reader(s) == CHOOSE r \in After(s) : TRUE
           Item(s) == CHOOSE i \in Reader(s).previous : TRUE
           Opens(s) == Item(s).kind = "Punct" /\ Text(source, Item(s)) = "{"
           Closes(s) == Item(s).kind = "Punct" /\ Text(source, Item(s)) = "}"
           Rest(s) == [reader |-> Reader(s),
                       depth |-> IF Opens(s) THEN s.depth + 1
                                 ELSE IF Closes(s) THEN s.depth - 1 ELSE s.depth]
           Body(s, g) == IF After(s) = {} THEN n
                         ELSE IF Closes(s) /\ s.depth = 1 THEN Reader(s).at
                         ELSE g[Rest(s)]
           end == CHOOSE h : h = [s \in D |-> Body(s, h)]
           F == Typed(D, V) \cup {end}
           H == [s \in D |-> [g \in F |-> Body(s, g)]]
           first == [reader |-> ReaderAt(position), depth |-> 1]
<1>0. TemplateExpressionEnd(source, nested, position) = end[first]
  BY DEF TemplateExpressionEnd
<1>1. n \in Nat /\ Positions(source) = 0 .. n
  BY LenProperties DEF Positions
<1>2. ASSUME NEW s \in D, After(s) # {}
      PROVE  Reader(s) \in Readers(source) /\ s.reader.at < Reader(s).at
  <2>1. s.reader \in Readers(source)
    OBVIOUS
  <2>2. Reads(source, s.reader, After(s))
    BY <2>1, NextTokenIs
  <2> HIDE DEF After
  <2>3. Reader(s) \in After(s)
    BY <1>2
  <2> QED
    BY <2>2, <2>3 DEF Reads
<1>3. \A s \in D : s.reader.at \in 0 .. n
  BY <1>1 DEF Readers
<1> HIDE DEF n, After, Reader, Opens, Closes, end
<1>4. \A s \in D : After(s) # {} /\ ~(Closes(s) /\ s.depth = 1) =>
                      Rest(s) \in D /\ s.reader.at < Rest(s).reader.at
  <2>1. SUFFICES ASSUME NEW s \in D, After(s) # {}, ~(Closes(s) /\ s.depth = 1)
                 PROVE  Rest(s) \in D /\ s.reader.at < Rest(s).reader.at
    OBVIOUS
  <2>2. s.depth \in Nat \ {0}
    OBVIOUS
  <2>3. Rest(s).depth \in Nat \ {0}
    BY <2>1, <2>2
  <2> QED
    BY <1>2, <2>1, <2>3
<1>5. \A s \in D : After(s) # {} => Reader(s).at \in s.reader.at .. n
  BY <1>1, <1>2, <1>3 DEF Readers
<1>6. \A s \in D : \A g \in Typed(D, V) : g[s] \in s.reader.at .. n
  BY DEF Typed
<1>7. first \in D /\ first.reader.at = position
  <2>1. NoDelimiters \in Delimiters
    BY EmptySeq DEF Delimiters, NoDelimiters
  <2>2. ReaderAt(position) \in Readers(source) /\ ReaderAt(position).at = position
    BY <2>1 DEF Readers, ReaderAt
  <2> QED
    BY <2>2
<1> HIDE DEF first
<1>8. m \in [D -> Nat] /\ \A x \in D : m[x] <= n /\ V[x] # {}
  BY <1>1, <1>3
<1> HIDE DEF D, Rest
<1>9. \A s \in D : \A g, h \in F :
         (\A y \in D : m[y] < m[s] => g[y] = h[y]) => H[s][g] = H[s][h]
  <2>1. SUFFICES ASSUME NEW s \in D, NEW g \in F, NEW h \in F,
                        \A y \in D : m[y] < m[s] => g[y] = h[y]
                 PROVE  Body(s, g) = Body(s, h)
    OBVIOUS
  <2>2. After(s) # {} /\ ~(Closes(s) /\ s.depth = 1) => Rest(s) \in D /\ m[Rest(s)] < m[s]
    BY <1>1, <1>3, <1>4
  <2> HIDE DEF m, H, F
  <2> QED
    BY <2>1, <2>2
<1>10. \A s \in D : \A g \in Typed(D, V) : H[s][g] \in V[s]
  <2>1. SUFFICES ASSUME NEW s \in D, NEW g \in Typed(D, V) PROVE Body(s, g) \in s.reader.at .. n
    OBVIOUS
  <2> HIDE DEF H, F, V
  <2> QED
    BY <1>1, <1>3, <1>4, <1>5, <1>6
<1>11. \A s \in D : \A g \in F : H[s][g] = Body(s, g)
  OBVIOUS
<1>12. Recurs(D, V, m, n, F, H)
  BY <1>1, <1>8, <1>9, <1>10 DEF Recurs
<1> HIDE DEF Body, H, V, m
<1>13. end = [s \in D |-> Body(s, end)]
  <2>1. \E f \in Typed(D, V) : f = [x \in D |-> H[x][f]]
    BY <1>12, RecursiveFunction
  <2>2. \E f : f = [s \in D |-> Body(s, f)]
    BY <1>11, <2>1
  <2> HIDE DEF F
  <2> QED
    BY <2>2 DEF end
<1>14. end = [x \in D |-> H[x][end]]
  BY <1>11, <1>13
<1>15. \A s \in D : end[s] \in V[s]
  BY <1>12, <1>14, RecursiveFunctionIs
<1> QED
  BY <1>0, <1>7, <1>15 DEF V, n

LEMMA TemplateEndIs ==
    ASSUME NEW S, NEW source \in Seq(S), NEW nested \in TemplatesEnd(source),
           NEW position \in Positions(source)
    PROVE  TemplateEnd(source, nested, position) \in position .. Len(source)
<1> DEFINE n == Len(source)
           D == Positions(source)
           V == [p \in D |-> p .. n]
           m == [p \in D |-> n - p]
           Closes(p) == UnitAt(source, p) = "TICK"
           expression(p) == StartsWith(source, p, <<"$", "{">>)
           Past(p) == IF UnitAt(source, p) = "\\" THEN EscapedEnd(source, p)
                      ELSE IF expression(p) THEN TemplateExpressionEnd(source, nested, p + 2)
                      ELSE p + 1
           Body(p, g) == IF p = n THEN p ELSE IF Closes(p) THEN p + 1 ELSE g[Past(p)]
           end == CHOOSE h : h = [p \in D |-> Body(p, h)]
           F == Typed(D, V) \cup {end}
           H == [p \in D |-> [g \in F |-> Body(p, g)]]
<1>0. TemplateEnd(source, nested, position) = end[position]
  BY DEF TemplateEnd
<1>1. n \in Nat /\ D = 0 .. n
  BY LenProperties DEF Positions
<1>2. \A p \in D : p # n => p < n /\ Past(p) \in p + 1 .. n
  <2>1. SUFFICES ASSUME NEW p \in D, p # n PROVE p < n /\ Past(p) \in p + 1 .. n
    OBVIOUS
  <2>2. p \in Nat /\ p < n
    BY <1>1, <2>1
  <2>3. EscapedEnd(source, p) \in p + 1 .. n
    BY <2>2, EscapedEndIs
  <2>4. expression(p) => p + 2 \in D
    <3>1. \A a, b : StartsWith(source, p, <<a, b>>) => p + 2 <= n
      BY DEF StartsWith
    <3>2. expression(p) => p + 2 <= n
      BY Zenon, <3>1
    <3> HIDE DEF expression
    <3> QED
      BY <1>1, <2>2, <3>2
  <2>5. expression(p) => TemplateExpressionEnd(source, nested, p + 2) \in p + 2 .. n
    BY <2>4, TemplateExpressionEndIs
  <2> HIDE DEF expression, D, n
  <2> QED
    BY <1>1, <2>2, <2>3, <2>5
<1>3. \A p \in D : \A g \in Typed(D, V) : g[p] \in p .. n
  BY DEF Typed
<1> HIDE DEF n, Past, Closes, end
<1>4. m \in [D -> Nat] /\ \A x \in D : m[x] <= n /\ V[x] # {}
  BY <1>1
<1> HIDE DEF D
<1>5. \A p \in D : \A g, h \in F :
         (\A y \in D : m[y] < m[p] => g[y] = h[y]) => H[p][g] = H[p][h]
  BY <1>1, <1>2
<1>6. \A p \in D : \A g \in Typed(D, V) : H[p][g] \in V[p]
  BY <1>1, <1>2, <1>3
<1>7. \A p \in D : \A g \in F : H[p][g] = Body(p, g)
  OBVIOUS
<1>8. Recurs(D, V, m, n, F, H)
  BY <1>1, <1>4, <1>5, <1>6 DEF Recurs
<1> HIDE DEF Body, H, V, m
<1>9. end = [p \in D |-> Body(p, end)]
  <2>1. \E f \in Typed(D, V) : f = [x \in D |-> H[x][f]]
    BY <1>8, RecursiveFunction
  <2> QED
    BY <1>7, <2>1 DEF end
<1>10. end = [x \in D |-> H[x][end]]
  BY <1>7, <1>9
<1>11. \A p \in D : end[p] \in V[p]
  BY <1>8, <1>10, RecursiveFunctionIs
<1> QED
  BY <1>0, <1>11 DEF D, V, n

LEMMA TemplateEndsIs ==
    ASSUME NEW S, NEW source \in Seq(S) PROVE TemplateEnds(source) \in TemplatesEnd(source)
<1> DEFINE P == Positions(source)
           T == TemplatesEnd(source)
           base == [p \in P |-> Len(source)]
           Outer(g) == [p \in P |-> TemplateEnd(source, g, p)]
           step == [k \in Nat |-> [g \in T |-> Outer(g)]]
           e == CHOOSE h : h = [level \in Nat |-> IF level = 0 THEN base ELSE Outer(h[level - 1])]
<1>0. TemplateEnds(source) = e[Len(source)] /\ Len(source) \in Nat
  BY LenProperties DEF TemplateEnds
<1>1. base \in T
  <2>1. \A p \in P : base[p] \in p .. Len(source)
    BY <1>0 DEF Positions
  <2> QED
    BY <2>1 DEF TemplatesEnd, EndsAfter, Typed
<1>2. ASSUME NEW g \in T PROVE Outer(g) \in T
  <2>1. \A p \in P : Outer(g)[p] \in p .. Len(source)
    BY TemplateEndIs
  <2> QED
    BY <2>1 DEF TemplatesEnd, EndsAfter, Typed
<1> HIDE DEF T, base, Outer, e
<1>3. step \in [Nat -> [T -> T]]
  BY <1>2
<1>4. PICK f : IsRecursion(f, T, base, step)
  BY <1>1, <1>3, Recursion
<1>5. f \in [Nat -> T] /\ f[0] = base /\ \A k \in Nat : f[k + 1] = Outer(f[k])
  BY <1>4 DEF IsRecursion
<1>6. f = [level \in Nat |-> IF level = 0 THEN base ELSE Outer(f[level - 1])]
  <2> DEFINE g == [level \in Nat |-> IF level = 0 THEN base ELSE Outer(f[level - 1])]
  <2>1. ASSUME NEW level \in Nat PROVE f[level] = g[level]
    <3>1. level = 0 \/ (level - 1 \in Nat /\ (level - 1) + 1 = level)
      OBVIOUS
    <3> QED
      BY <1>5, <3>1
  <2> QED
    BY <1>5, <2>1
<1>7. e = [level \in Nat |-> IF level = 0 THEN base ELSE Outer(e[level - 1])]
  BY <1>6 DEF e
<1> DEFINE Q == {k \in Nat : e[k] \in T}
<1>8. 0 \in Q
  BY <1>1, <1>7
<1>9. ASSUME NEW k \in Nat, k \in Q PROVE k + 1 \in Q
  <2>1. e[k + 1] = Outer(e[k])
    BY <1>7
  <2> QED
    BY <1>2, <1>9, <2>1
<1>10. Nat \subseteq Q
  <2> HIDE DEF Q
  <2> QED
    BY <1>8, <1>9, Induction
<1> QED
  BY <1>0, <1>10 DEF T

(* Tokens behind a position, in order, none empty and none within another. *)
Lexemes(source) == {Token(source, item) : item \in {i \in Items(source) : i.lo < i.hi}}

InOrderFrom(source, from) ==
    {s \in Seq(Lexemes(source)) :
        /\ \A i \in DOMAIN s : from <= s[i].lo
        /\ \A i, j \in DOMAIN s : i < j => s[i].hi <= s[j].lo}

LEMMA LexemesAre ==
    ASSUME NEW S, NEW source \in Seq(S), NEW token \in Lexemes(source)
    PROVE  /\ token.kind \in Kinds /\ token.lineBreakBefore \in BOOLEAN
           /\ token.lo \in Nat /\ token.hi \in Nat
           /\ token.lo < token.hi /\ token.hi <= Len(source)
  BY LenProperties DEF Lexemes, Token, Items, Positions

LEMMA TokenBefore ==
    ASSUME NEW S, NEW source \in Seq(S), NEW from \in Nat, NEW x \in Lexemes(source), from <= x.lo,
           NEW rest \in InOrderFrom(source, x.hi)
    PROVE  <<x>> \o rest \in InOrderFrom(source, from)
<1> DEFINE T == Lexemes(source)
           s == <<x>> \o rest
<1>1. /\ <<x>> \in Seq(T) /\ rest \in Seq(T) /\ Len(<<x>>) = 1 /\ <<x>>[1] = x
      /\ \A i \in DOMAIN rest : x.hi <= rest[i].lo
      /\ \A i, j \in DOMAIN rest : i < j => rest[i].hi <= rest[j].lo
  BY DEF InOrderFrom
<1>2. s \in Seq(T) /\ Len(s) = 1 + Len(rest) /\ Len(rest) \in Nat
  BY <1>1, ConcatProperties, LenProperties
<1>3. s[1] = x /\ \A i \in 1 .. Len(rest) : s[1 + i] = rest[i]
  BY <1>1, ConcatProperties, LenProperties
<1>4. DOMAIN s = 1 .. 1 + Len(rest) /\ DOMAIN rest = 1 .. Len(rest)
  BY <1>1, <1>2, LenProperties
<1> HIDE DEF s
<1>5. \A i \in DOMAIN s : i = 1 \/ (i - 1 \in DOMAIN rest /\ s[i] = rest[i - 1])
  BY <1>2, <1>3, <1>4
<1>6. x.lo \in Nat /\ x.hi \in Nat /\ x.lo < x.hi
  BY LexemesAre
<1>7. \A i \in DOMAIN rest : rest[i].lo \in Nat
  <2>1. \A i \in DOMAIN rest : rest[i] \in T
    BY <1>1, <1>4, ElementOfSeq
  <2> QED
    BY <2>1, LexemesAre
<1>8. \A i \in DOMAIN s : from <= s[i].lo
  BY <1>1, <1>3, <1>5, <1>6, <1>7
<1>9. ASSUME NEW i \in DOMAIN s, NEW j \in DOMAIN s, i < j PROVE s[i].hi <= s[j].lo
  <2>1. i \in Nat /\ j \in Nat /\ 1 <= i
    BY <1>2, <1>4
  <2>2. j # 1 /\ j - 1 \in DOMAIN rest /\ s[j] = rest[j - 1]
    BY <1>5, <1>9, <2>1
  <2>3. CASE i = 1
    BY <1>1, <1>3, <2>2, <2>3
  <2>4. CASE i # 1
    <3>1. i - 1 \in DOMAIN rest /\ s[i] = rest[i - 1] /\ i - 1 < j - 1
      BY <1>5, <1>9, <2>1, <2>4
    <3> QED
      BY <1>1, <2>2, <3>1
  <2> QED
    BY <2>3, <2>4
<1> QED
  BY <1>2, <1>8, <1>9 DEF InOrderFrom, s

LEMMA TokensAre ==
    ASSUME NEW S, NEW source \in Seq(S) PROVE Tokens(source) \in InOrderFrom(source, 0)
<1> DEFINE n == Len(source)
           nested == TemplateEnds(source)
           D == Readers(source)
           V == [r \in D |-> InOrderFrom(source, r.at)]
           m == [r \in D |-> n - r.at]
           After(r) == NextToken(source, nested, r)
           Rest(r) == CHOOSE a \in After(r) : TRUE
           Read(r) == Token(source, CHOOSE i \in Rest(r).previous : TRUE)
           Body(r, g) == IF After(r) = {} THEN <<>> ELSE <<Read(r)>> \o g[Rest(r)]
           from == CHOOSE h : h = [r \in D |-> Body(r, h)]
           F == Typed(D, V) \cup {from}
           H == [r \in D |-> [g \in F |-> Body(r, g)]]
           first == ReaderAt(0)
<1>0. Tokens(source) = from[first]
  BY DEF Tokens
<1>1. n \in Nat /\ Positions(source) = 0 .. n
  BY LenProperties DEF Positions
<1>2. nested \in TemplatesEnd(source)
  BY TemplateEndsIs
<1>3. ASSUME NEW r \in D, After(r) # {}
      PROVE  /\ Rest(r) \in D /\ r.at < Rest(r).at
             /\ Read(r) \in Lexemes(source) /\ r.at <= Read(r).lo /\ Read(r).hi = Rest(r).at
  <2>1. Reads(source, r, After(r))
    BY <1>2, NextTokenIs
  <2> HIDE DEF After
  <2>2. Rest(r) \in After(r)
    BY <1>3
  <2> HIDE DEF Rest
  <2>3. PICK item \in Items(source) :
           Rest(r).previous = {item} /\ r.at <= item.lo /\ item.lo < item.hi /\ Rest(r).at = item.hi
    BY <2>1, <2>2 DEF Reads
  <2>4. Read(r) = Token(source, item)
    BY <2>3
  <2>5. Read(r) \in Lexemes(source)
    BY <2>3, <2>4 DEF Lexemes
  <2>6. Read(r).lo = item.lo /\ Read(r).hi = item.hi
    BY <2>4 DEF Token
  <2> HIDE DEF Read
  <2> QED
    BY <2>1, <2>2, <2>3, <2>5, <2>6 DEF Reads
<1>4. \A r \in D : r.at \in 0 .. n
  BY <1>1 DEF Readers
<1>5. <<>> \in InOrderFrom(source, 0) /\ \A r \in D : <<>> \in V[r]
  BY EmptySeq DEF InOrderFrom
<1>6. first \in D /\ first.at = 0
  <2>1. NoDelimiters \in Delimiters
    BY EmptySeq DEF Delimiters, NoDelimiters
  <2> QED
    BY <1>1, <2>1 DEF Readers, ReaderAt
<1> HIDE DEF first, n, After, Rest, Read, from
<1>7. \A r \in D : \A g \in Typed(D, V) : g[r] \in InOrderFrom(source, r.at)
  BY DEF Typed
<1>8. m \in [D -> Nat] /\ \A x \in D : m[x] <= n /\ V[x] # {}
  BY <1>1, <1>4, <1>5
<1> HIDE DEF D
<1>9. \A r \in D : \A g, h \in F :
         (\A y \in D : m[y] < m[r] => g[y] = h[y]) => H[r][g] = H[r][h]
  <2>1. SUFFICES ASSUME NEW r \in D, NEW g \in F, NEW h \in F,
                        \A y \in D : m[y] < m[r] => g[y] = h[y]
                 PROVE  Body(r, g) = Body(r, h)
    OBVIOUS
  <2>2. After(r) # {} => Rest(r) \in D /\ m[Rest(r)] < m[r]
    BY <1>1, <1>3, <1>4
  <2> HIDE DEF m, H, F
  <2> QED
    BY <2>1, <2>2
<1>10. \A r \in D : \A g \in Typed(D, V) : H[r][g] \in V[r]
  <2>1. SUFFICES ASSUME NEW r \in D, NEW g \in Typed(D, V) PROVE Body(r, g) \in InOrderFrom(source, r.at)
    OBVIOUS
  <2> HIDE DEF H, F
  <2>2. CASE After(r) = {}
    BY <1>5, <2>2
  <2>3. CASE After(r) # {}
    <3>1. g[Rest(r)] \in InOrderFrom(source, Read(r).hi)
      BY <1>3, <1>7, <2>3
    <3>2. r.at \in Nat /\ Read(r) \in Lexemes(source) /\ r.at <= Read(r).lo
      BY <1>3, <1>4, <2>3
    <3> HIDE DEF V
    <3>3. <<Read(r)>> \o g[Rest(r)] \in InOrderFrom(source, r.at)
      BY <3>1, <3>2, TokenBefore
    <3> QED
      BY <2>3, <3>3
  <2> QED
    BY <2>2, <2>3
<1>11. \A r \in D : \A g \in F : H[r][g] = Body(r, g)
  OBVIOUS
<1>12. Recurs(D, V, m, n, F, H)
  BY <1>1, <1>8, <1>9, <1>10 DEF Recurs
<1> HIDE DEF Body, H, V, m
<1>13. from = [r \in D |-> Body(r, from)]
  <2>1. \E f \in Typed(D, V) : f = [x \in D |-> H[x][f]]
    BY <1>12, RecursiveFunction
  <2>2. \E f : f = [r \in D |-> Body(r, f)]
    BY <1>11, <2>1
  <2> HIDE DEF F
  <2> QED
    BY <2>2 DEF from
<1>14. from = [x \in D |-> H[x][from]]
  BY <1>11, <1>13
<1>15. \A r \in D : from[r] \in V[r]
  BY <1>12, <1>14, RecursiveFunctionIs
<1> QED
  BY <1>0, <1>6, <1>15 DEF V

(***************************************************************************)
(* Whatever the source, the tokenizer comes to its end, and what it yields *)
(* are pieces of the source in their order: none is empty, none reaches    *)
(* into another, and none ends behind the source.                          *)
(***************************************************************************)
THEOREM TokensAreInOrder ==
    ASSUME NEW S, NEW source \in Seq(S)
    PROVE  LET tokens == Tokens(source)
           IN  /\ tokens \in Seq(Range(tokens))
               /\ \A i \in DOMAIN tokens :
                     /\ tokens[i].lo \in Nat /\ tokens[i].hi \in Nat
                     /\ tokens[i].lo < tokens[i].hi /\ tokens[i].hi <= Len(source)
                     /\ tokens[i].units = SubSeq(source, tokens[i].lo + 1, tokens[i].hi)
               /\ \A i, j \in DOMAIN tokens : i < j => tokens[i].hi <= tokens[j].lo
<1> DEFINE tokens == Tokens(source)
<1>1. tokens \in InOrderFrom(source, 0)
  BY TokensAre
<1> HIDE DEF tokens
<1>2. /\ tokens \in Seq(Lexemes(source))
      /\ \A i, j \in DOMAIN tokens : i < j => tokens[i].hi <= tokens[j].lo
  BY <1>1 DEF InOrderFrom
<1>3. \A i \in DOMAIN tokens : tokens[i] \in Lexemes(source)
  BY <1>2, ElementOfSeq, LenProperties
<1>4. tokens \in Seq(Range(tokens))
  BY <1>2, LenProperties DEF Range
<1>5. \A token \in Lexemes(source) : token.units = SubSeq(source, token.lo + 1, token.hi)
  BY DEF Lexemes, Token, ItemUnits
<1> QED
  BY <1>2, <1>3, <1>4, <1>5, LexemesAre DEF tokens

-----------------------------------------------------------------------------
(***************************************************************************)
(* The token matcher.                                                      *)
(***************************************************************************)
(* What an atom asks of the tokens, as far as the filter needs it. *)
IsAt(s, position) ==
    /\ "end" \in DOMAIN s
    /\ s = [x \in DOMAIN s |-> s[x]]
    /\ s.end = position

LEMMA StepOfOne ==
    ASSUME NEW tokens, NEW atom, NEW s, NEW position \in Nat, IsAt(s, position),
           atom.op = "one", NEW t \in Step(tokens, atom, s)
    PROVE  /\ IsAt(t, position + 1)
           /\ position \in DOMAIN tokens /\ tokens[position].text \in atom.texts
<1>1. t \in IF position \in DOMAIN tokens /\ TextAt(tokens, position) \in atom.texts
            THEN {[s EXCEPT !.end = position + 1]} ELSE {}
  BY DEF Step, IsAt
<1> QED
  BY <1>1 DEF IsAt, TextAt

LEMMA StepOfIdent ==
    ASSUME NEW tokens, NEW atom, NEW s, NEW position \in Nat, IsAt(s, position),
           atom.op = "ident", NEW t \in Step(tokens, atom, s)
    PROVE  IsAt(t, position + 1)
<1>1. \E ids : t = [[s EXCEPT !.end = position + 1] EXCEPT !.ids = ids]
  BY DEF Step, IsAt, Bound
<1> QED
  BY <1>1 DEF IsAt

LEMMA StepOfOneToken ==
    ASSUME NEW tokens, NEW atom, NEW s, NEW position \in Nat, IsAt(s, position),
           atom.op \in {"anyIdent", "str"}, NEW t \in Step(tokens, atom, s)
    PROVE  IsAt(t, position + 1)
<1>1. t = [s EXCEPT !.end = position + 1]
  BY DEF Step, IsAt
<1> QED
  BY <1>1 DEF IsAt

LEMMA StepOfNoWidth ==
    ASSUME NEW tokens, NEW atom, NEW s, NEW position \in Nat, IsAt(s, position),
           atom.op \in NoWidth, NEW t \in Step(tokens, atom, s)
    PROVE  IsAt(t, position)
<1>1. CASE atom.op = "noLineBreak"
  <2>1. t = s
    BY <1>1 DEF Step
  <2> QED
    BY <2>1
<1>2. CASE atom.op = "begin"
  <2>1. \E spans : t = [s EXCEPT !.spans = spans]
    BY <1>2 DEF Step
  <2> QED
    BY <2>1 DEF IsAt
<1>3. CASE atom.op = "end"
  <2>1. \E spans : t = [s EXCEPT !.spans = spans]
    BY <1>3 DEF Step
  <2> QED
    BY <2>1 DEF IsAt
<1> QED
  BY <1>1, <1>2, <1>3 DEF NoWidth

LEMMA StepOfOtherWidth ==
    ASSUME NEW tokens, NEW atom, NEW s, NEW position \in Nat, IsAt(s, position),
           atom.op \in AtomKinds \ VariableWidth, NEW t \in Step(tokens, atom, s)
    PROVE  IsAt(t, IF atom.op \in NoWidth THEN position ELSE position + 1)
<1>1. CASE atom.op \in NoWidth
  BY <1>1, StepOfNoWidth
<1>2. CASE atom.op \in {"one", "ident", "anyIdent", "str"}
  <2>1. atom.op \notin NoWidth
    BY <1>2 DEF NoWidth
  <2>2. IsAt(t, position + 1)
    BY <1>2, StepOfOne, StepOfIdent, StepOfOneToken
  <2> QED
    BY <2>1, <2>2
<1> QED
  BY <1>1, <1>2 DEF AtomKinds

(* The tokens that the first atoms of a pattern take, each one or none. *)
Width(pattern, i) == Cardinality({k \in 1 .. i : pattern[k].op \notin NoWidth})

LEMMA WidthGrows ==
    ASSUME NEW pattern, NEW i \in Nat
    PROVE  /\ Width(pattern, 0) = 0
           /\ Width(pattern, i) \in Nat
           /\ Width(pattern, i + 1) = IF pattern[i + 1].op \in NoWidth THEN Width(pattern, i)
                                      ELSE Width(pattern, i) + 1
<1> DEFINE W(j) == {k \in 1 .. j : pattern[k].op \notin NoWidth}
<1>1. W(0) = {} /\ Width(pattern, 0) = 0
  <2>1. W(0) = {}
    OBVIOUS
  <2> QED
    BY <2>1, FS_EmptySet DEF Width
<1>2. IsFiniteSet(W(i))
  <2>1. IsFiniteSet(1 .. i)
    BY FS_Interval
  <2> QED
    BY <2>1, FS_Subset
<1>3. CASE pattern[i + 1].op \in NoWidth
  <2>1. W(i + 1) = W(i)
    BY <1>3
  <2> HIDE DEF W
  <2> QED
    BY <1>1, <1>2, <1>3, <2>1, FS_CardinalityType DEF Width, W
<1>4. CASE pattern[i + 1].op \notin NoWidth
  <2>1. W(i + 1) = W(i) \cup {i + 1} /\ i + 1 \notin W(i)
    BY <1>4
  <2> HIDE DEF W
  <2>2. Cardinality(W(i + 1)) = Cardinality(W(i)) + 1 /\ Cardinality(W(i)) \in Nat
    BY <1>2, <2>1, FS_AddElement, FS_CardinalityType
  <2> QED
    BY <1>1, <1>4, <2>2 DEF Width, W
<1> QED
  BY <1>3, <1>4

(* What is matched of the first i atoms is what the i-th makes of what is  *)
(* matched of those before it.                                             *)
Matched(M, tokens, pattern, s) ==
    /\ M[0] = {s}
    /\ \A i \in 1 .. Len(pattern) : M[i] = UNION {Step(tokens, pattern[i], t) : t \in M[i - 1]}

LEMMA MatchedExists ==
    ASSUME NEW tokens, NEW S, NEW pattern \in Seq(S), NEW s
    PROVE  Matched(MatchedFrom(tokens, pattern, s), tokens, pattern, s)
<1> DEFINE Taken(i, hits) == UNION {Step(tokens, pattern[i], t) : t \in hits}
           n == Len(pattern)
           IsMatched(f, m) == /\ DOMAIN f = 0 .. m
                              /\ f = [i \in DOMAIN f |-> f[i]]
                              /\ f[0] = {s}
                              /\ \A i \in 1 .. m : f[i] = Taken(i, f[i - 1])
<1>0. n \in Nat
  BY LenProperties
<1> HIDE DEF n, Taken
<1> DEFINE P == {m \in Nat : \E f : IsMatched(f, m)}
<1>1. 0 \in P
  <2>1. IsMatched([i \in 0 .. 0 |-> {s}], 0)
    OBVIOUS
  <2> QED
    BY <2>1
<1>2. ASSUME NEW m \in Nat, m \in P PROVE m + 1 \in P
  <2>1. PICK f : IsMatched(f, m)
    BY <1>2
  <2> DEFINE g == [i \in 0 .. m + 1 |-> IF i = m + 1 THEN Taken(m + 1, f[m]) ELSE f[i]]
  <2>2. g[0] = {s}
    BY <2>1
  <2>3. ASSUME NEW i \in 1 .. m + 1 PROVE g[i] = Taken(i, g[i - 1])
    BY <2>1
  <2>4. DOMAIN g = 0 .. m + 1 /\ g = [i \in DOMAIN g |-> g[i]]
    OBVIOUS
  <2> HIDE DEF g
  <2> QED
    BY <2>2, <2>3, <2>4
<1>3. PICK f : IsMatched(f, n)
  <2> HIDE DEF P
  <2>1. n \in P
    BY <1>0, <1>1, <1>2, Induction
  <2> QED
    BY <2>1 DEF P
<1> DEFINE Def(h) == h = [i \in 0 .. n |-> IF i = 0 THEN {s} ELSE Taken(i, h[i - 1])]
           matched == CHOOSE h : Def(h)
<1>4. Def(f)
  <2> DEFINE g == [i \in 0 .. n |-> IF i = 0 THEN {s} ELSE Taken(i, f[i - 1])]
  <2>1. \A i \in 0 .. n : f[i] = g[i]
    BY <1>3
  <2> QED
    BY <1>3, <2>1
<1>5. Def(matched)
  <2> HIDE DEF Def
  <2> QED
    BY <1>4
<1>6. MatchedFrom(tokens, pattern, s) = matched
  BY DEF MatchedFrom, Taken, n
<1>7. /\ matched[0] = {s}
      /\ \A i \in 1 .. n : matched[i] = Taken(i, matched[i - 1])
  <2> HIDE DEF matched
  <2> QED
    BY <1>0, <1>5
<1> HIDE DEF matched
<1> QED
  BY <1>6, <1>7 DEF Matched, Taken, n

(* Where a partial match stands, as long as no atom took one token or two. *)
FixedTo(pattern, i) == \A k \in 1 .. i : pattern[k].op \notin VariableWidth

LEMMA MatchedEnds ==
    ASSUME NEW tokens, NEW S, NEW pattern \in Seq(S), IsPattern(pattern),
           NEW s, NEW start \in Nat, IsAt(s, start)
    PROVE  \A i \in 0 .. Len(pattern) :
              FixedTo(pattern, i) =>
                  \A t \in MatchedFrom(tokens, pattern, s)[i] : IsAt(t, start + Width(pattern, i))
<1> DEFINE n == Len(pattern)
           M == MatchedFrom(tokens, pattern, s)
           P == {i \in Nat : i <= n /\ FixedTo(pattern, i) =>
                                \A t \in M[i] : IsAt(t, start + Width(pattern, i))}
<1>0. n \in Nat /\ DOMAIN pattern = 1 .. n
  BY LenProperties
<1>1. Matched(M, tokens, pattern, s)
  BY MatchedExists
<1> HIDE DEF M
<1>a. /\ M[0] = {s}
      /\ \A i \in 1 .. n : M[i] = UNION {Step(tokens, pattern[i], t) : t \in M[i - 1]}
  BY <1>1 DEF Matched
<1> HIDE DEF n
<1>2. 0 \in P
  BY <1>a, WidthGrows
<1>3. ASSUME NEW i \in Nat, i \in P PROVE i + 1 \in P
  <2>1. SUFFICES ASSUME i + 1 <= n, FixedTo(pattern, i + 1), NEW t \in M[i + 1]
                 PROVE  IsAt(t, start + Width(pattern, i + 1))
    OBVIOUS
  <2> DEFINE atom == pattern[i + 1]
             position == start + Width(pattern, i)
  <2>2. PICK u \in M[i] : t \in Step(tokens, atom, u)
    BY <1>0, <1>a, <2>1
  <2>3. IsAt(u, position) /\ position \in Nat
    <3>1. FixedTo(pattern, i) /\ i <= n
      BY <1>0, <2>1 DEF FixedTo
    <3>2. Width(pattern, i) \in Nat
      BY WidthGrows
    <3> QED
      BY <1>3, <3>1, <3>2
  <2>4. atom.op \in AtomKinds \ VariableWidth
    BY <1>0, <2>1 DEF FixedTo, IsPattern
  <2>5. IsAt(t, IF atom.op \in NoWidth THEN position ELSE position + 1)
    <3> HIDE DEF atom, position
    <3> QED
      BY <2>2, <2>3, <2>4, StepOfOtherWidth
  <2>6. start + Width(pattern, i + 1) = IF atom.op \in NoWidth THEN position ELSE position + 1
    <3>1. /\ Width(pattern, i) \in Nat
          /\ Width(pattern, i + 1) = IF atom.op \in NoWidth THEN Width(pattern, i)
                                     ELSE Width(pattern, i) + 1
      BY WidthGrows
    <3> HIDE DEF atom
    <3> QED
      BY <3>1
  <2> QED
    BY <2>5, <2>6
<1>4. Nat \subseteq P
  <2> HIDE DEF P
  <2> QED
    BY <1>2, <1>3, Induction
<1> QED
  BY <1>0, <1>4 DEF M, n

LEMMA MatchedThroughout ==
    ASSUME NEW tokens, NEW S, NEW pattern \in Seq(S), NEW s,
           MatchedFrom(tokens, pattern, s)[Len(pattern)] # {}
    PROVE  \A i \in 0 .. Len(pattern) : MatchedFrom(tokens, pattern, s)[i] # {}
<1> DEFINE n == Len(pattern)
           M == MatchedFrom(tokens, pattern, s)
           P == {j \in Nat : j <= n => M[n - j] # {}}
<1>0. n \in Nat /\ M[n] # {}
  BY LenProperties
<1>1. Matched(M, tokens, pattern, s)
  BY MatchedExists
<1> HIDE DEF M
<1>a. \A i \in 1 .. n : M[i] = UNION {Step(tokens, pattern[i], t) : t \in M[i - 1]}
  BY <1>1 DEF Matched
<1> HIDE DEF n
<1>2. 0 \in P
  BY <1>0
<1>3. ASSUME NEW j \in Nat, j \in P PROVE j + 1 \in P
  <2>1. SUFFICES ASSUME j + 1 <= n, M[n - (j + 1)] = {} PROVE FALSE
    OBVIOUS
  <2>2. n - j \in 1 .. n /\ (n - j) - 1 = n - (j + 1)
    BY <1>0, <2>1
  <2>3. M[n - j] # {}
    BY <1>0, <1>3, <2>1
  <2>4. M[n - j] = UNION {Step(tokens, pattern[n - j], t) : t \in M[(n - j) - 1]}
    BY <1>a, <2>2
  <2> QED
    BY <2>1, <2>2, <2>3, <2>4
<1>4. Nat \subseteq P
  <2> HIDE DEF P
  <2> QED
    BY <1>2, <1>3, Induction
<1>5. ASSUME NEW i \in 0 .. n PROVE M[i] # {}
  <2>1. n - i \in Nat /\ n - i <= n /\ n - (n - i) = i
    BY <1>0
  <2>2. n - i \in P
    <3> HIDE DEF P
    <3> QED
      BY <1>4, <2>1
  <2> QED
    BY <2>1, <2>2
<1> QED
  BY <1>5 DEF M, n

(* A pivot is where it says, in every match. *)
LEMMA PivotIsInEveryMatch ==
    ASSUME NEW tokens, NEW S, NEW pattern \in Seq(S), IsPattern(pattern),
           NEW start \in Nat, NEW ids, MatchAt(tokens, start, pattern, ids) # {},
           NEW p \in Pivots(pattern)
    PROVE  TextAt(tokens, start + p.offset) = p.text
<1> DEFINE n == Len(pattern)
           s == [start |-> start, end |-> start, ids |-> ids, spans |-> NoSlots, bools |-> NoSlots]
           M == MatchedFrom(tokens, pattern, s)
<1>0. n \in Nat /\ DOMAIN pattern = 1 .. n
  BY LenProperties
<1>1. PICK i \in DOMAIN pattern :
         /\ pattern[i].op = "one" /\ Cardinality(pattern[i].texts) = 1
         /\ FixedTo(pattern, i - 1)
         /\ p = [offset |-> Width(pattern, i - 1), text |-> CHOOSE x \in pattern[i].texts : TRUE]
  BY DEF Pivots, Width, FixedTo
<1>2. i \in 1 .. n /\ i - 1 \in 0 .. n
  BY <1>0
<1>3. IsAt(s, start)
  BY DEF IsAt
<1>4. M[n] # {}
  BY DEF MatchAt
<1>5. M[i] # {} /\ M[i] = UNION {Step(tokens, pattern[i], t) : t \in M[i - 1]}
  <2>1. \A j \in 0 .. n : M[j] # {}
    <3> HIDE DEF s
    <3> QED
      BY <1>4, MatchedThroughout
  <2>2. Matched(M, tokens, pattern, s)
    BY MatchedExists
  <2> HIDE DEF M, s
  <2> QED
    BY <1>0, <1>2, <2>1, <2>2 DEF Matched
<1> HIDE DEF s
<1>6. PICK u \in M[i - 1] : Step(tokens, pattern[i], u) # {}
  BY <1>5
<1> DEFINE position == start + Width(pattern, i - 1)
<1>7. IsAt(u, position)
  BY <1>1, <1>2, <1>3, <1>6, MatchedEnds
<1>8. position \in Nat
  BY <1>2, WidthGrows
<1>9. position \in DOMAIN tokens /\ tokens[position].text \in pattern[i].texts
  <2> HIDE DEF position, M
  <2> QED
    BY <1>1, <1>6, <1>7, <1>8, StepOfOne
<1>10. tokens[position].text = CHOOSE x \in pattern[i].texts : TRUE
  <2>1. PICK x : pattern[i].texts = {x}
    BY <1>1, FS_Singleton DEF IsPattern
  <2> QED
    BY <1>9, <2>1
<1> QED
  BY <1>1, <1>9, <1>10 DEF TextAt

(***************************************************************************)
(* find and any_in try a match only where the pivot is, and lose none by   *)
(* it: of any pattern, in any tokens, in any range, with any identifiers   *)
(* bound before (what pivot_filter_matches_exhaustive_search of            *)
(* token_match.rs asks of one pattern and one text).                       *)
(***************************************************************************)
THEOREM FilterLosesNoMatch ==
    ASSUME NEW tokens, NEW S, NEW pattern \in Seq(S), IsPattern(pattern),
           NEW range, range \subseteq Nat, NEW ids
    PROVE  FindIn(tokens, range, pattern, ids) =
               UNION {MatchAt(tokens, start, pattern, ids) : start \in range}
<1> DEFINE pivot == LiteralPivot(pattern)
           starts == {start \in range : MayStartAt(tokens, start, pivot)}
<1>1. pivot \subseteq Pivots(pattern)
  BY DEF LiteralPivot
<1>2. ASSUME NEW start \in range, MatchAt(tokens, start, pattern, ids) # {}
      PROVE  start \in starts
  BY <1>1, <1>2, PivotIsInEveryMatch DEF MayStartAt
<1>3. FindIn(tokens, range, pattern, ids) = UNION {MatchAt(tokens, start, pattern, ids) : start \in starts}
  BY DEF FindIn
<1> HIDE DEF starts
<1>4. starts \subseteq range
  BY DEF starts
<1> QED
  BY <1>2, <1>3, <1>4

-----------------------------------------------------------------------------
(***************************************************************************)
(* The patterns of the rules.                                              *)
(***************************************************************************)
(* A sequence of atoms, each as the matcher wants it. *)
Sound(p) == p = [i \in DOMAIN p |-> p[i]] /\ Len(p) \in Nat /\ DOMAIN p = 1 .. Len(p) /\ IsPattern(p)

Slots(p, op) == {p[i].slot : i \in {k \in DOMAIN p : p[k].op = op}}

LEMMA SoundIsSequence == ASSUME NEW p, Sound(p) PROVE p \in Seq(Range(p))
  BY DEF Sound, Range

LEMMA Joined ==
    \A p, q : Sound(p) /\ Sound(q) =>
        /\ Sound(p \o q)
        /\ \A op : Slots(p \o q, op) = Slots(p, op) \cup Slots(q, op)
<1> SUFFICES ASSUME NEW p, Sound(p), NEW q, Sound(q)
             PROVE  Sound(p \o q) /\ \A op : Slots(p \o q, op) = Slots(p, op) \cup Slots(q, op)
  OBVIOUS
<1> DEFINE S == Range(p) \cup Range(q)
           c == p \o q
<1>1. p \in Seq(S) /\ q \in Seq(S)
  BY SoundIsSequence
<1>2. /\ c \in Seq(S) /\ Len(c) = Len(p) + Len(q)
      /\ \A i \in 1 .. Len(p) : c[i] = p[i]
      /\ \A i \in 1 .. Len(q) : c[Len(p) + i] = q[i]
      /\ \A i \in 1 .. Len(c) : i \in 1 .. Len(p) \/ (i - Len(p) \in 1 .. Len(q) /\ c[i] = q[i - Len(p)])
  BY <1>1, ConcatProperties, LenProperties
<1>3. DOMAIN c = 1 .. Len(c) /\ Len(c) \in Nat /\ c = [i \in DOMAIN c |-> c[i]]
  BY <1>2, LenProperties
<1> HIDE DEF c
<1>4. \A i \in DOMAIN c : (\E j \in DOMAIN p : c[i] = p[j]) \/ (\E j \in DOMAIN q : c[i] = q[j])
  BY <1>2, <1>3 DEF Sound
<1>5. /\ \A i \in DOMAIN p : i \in DOMAIN c /\ c[i] = p[i]
      /\ \A i \in DOMAIN q : Len(p) + i \in DOMAIN c /\ c[Len(p) + i] = q[i]
  BY <1>2, <1>3 DEF Sound
<1>6. Sound(c)
  BY <1>3, <1>4 DEF Sound, IsPattern
<1>7. ASSUME NEW op PROVE Slots(c, op) = Slots(p, op) \cup Slots(q, op)
  BY <1>4, <1>5 DEF Slots
<1> QED
  BY <1>6, <1>7 DEF c

LEMMA SoundJoined == \A p, q : Sound(p) /\ Sound(q) => Sound(p \o q)
  BY Joined

LEMMA SlotsJoined == \A p, q, op : Sound(p) /\ Sound(q) => Slots(p \o q, op) = Slots(p, op) \cup Slots(q, op)
  BY Joined

LEMMA SingleAtoms ==
    /\ Sound(AnyIdent) /\ Sound(Undefined) /\ Sound(NoLineBreak)
    /\ \A slot : Sound(Ident(slot)) /\ Sound(Begin(slot)) /\ Sound(End(slot)) /\ Sound(CaptureBool(slot))
    /\ \A value : Sound(Str(value)) /\ Sound(Bool(value))
  BY DEF Sound, IsPattern, AtomKinds, VariableWidth, NoWidth, AnyIdent, Undefined, NoLineBreak,
         Ident, Begin, End, CaptureBool, Str, Bool

LEMMA SlotAtoms ==
    \A slot : slot \in Slots(Ident(slot), "ident") /\ slot \in Slots(Begin(slot), "begin")
<1> SUFFICES ASSUME NEW slot PROVE slot \in Slots(Ident(slot), "ident") /\ slot \in Slots(Begin(slot), "begin")
  OBVIOUS
<1>1. /\ 1 \in DOMAIN Ident(slot) /\ Ident(slot)[1] = [op |-> "ident", slot |-> slot]
      /\ 1 \in DOMAIN Begin(slot) /\ Begin(slot)[1] = [op |-> "begin", slot |-> slot]
  BY DEF Ident, Begin
<1> QED
  BY <1>1 DEF Slots

LEMMA TextAtoms ==
    /\ \A texts : IsFiniteSet(texts) => Sound(OneOf(texts))
    /\ \A texts : Len(texts) \in Nat /\ DOMAIN texts = 1 .. Len(texts) => Sound(Run(texts))
<1>1. ASSUME NEW texts, IsFiniteSet(texts) PROVE Sound(OneOf(texts))
  BY <1>1 DEF Sound, IsPattern, AtomKinds, OneOf
<1>2. ASSUME NEW texts, Len(texts) \in Nat, DOMAIN texts = 1 .. Len(texts) PROVE Sound(Run(texts))
  <2>1. \A i \in DOMAIN texts : IsFiniteSet({texts[i]})
    BY FS_Singleton
  <2> DEFINE S == {[op |-> "one", texts |-> {texts[i]}] : i \in DOMAIN texts}
  <2>2. Run(texts) \in [1 .. Len(texts) -> S]
    BY <1>2 DEF Run
  <2>3. Run(texts) \in Seq(S)
    BY <1>2, <2>2
  <2>4. Len(Run(texts)) \in Nat /\ DOMAIN Run(texts) = 1 .. Len(Run(texts))
    BY <2>3, LenProperties
  <2> QED
    BY <2>1, <2>4 DEF Sound, IsPattern, AtomKinds, Run
<1> QED
  BY <1>1, <1>2

LEMMA FewTexts == \A a, b, c : IsFiniteSet({a, b}) /\ IsFiniteSet({a, b, c})
<1> SUFFICES ASSUME NEW a, NEW b, NEW c PROVE IsFiniteSet({a, b}) /\ IsFiniteSet({a, b, c})
  OBVIOUS
<1>1. IsFiniteSet({} \cup {a}) /\ IsFiniteSet({} \cup {a} \cup {b}) /\ IsFiniteSet({} \cup {a} \cup {b} \cup {c})
  BY FS_EmptySet, FS_AddElement
<1>2. {a, b} = {} \cup {a} \cup {b} /\ {a, b, c} = {} \cup {a} \cup {b} \cup {c}
  OBVIOUS
<1> QED
  BY <1>1, <1>2

LEMMA CommonAtoms ==
    /\ \A property : Sound(Member(property))
    /\ Sound(NullEq) /\ Sound(NullNe) /\ Sound(Declaration)
<1>1. \A a, b, c : Sound(OneOf({a, b})) /\ Sound(OneOf({a, b, c}))
  BY TextAtoms, FewTexts
<1>2. \A text : Sound(Run(<<text>>))
  BY TextAtoms
<1> QED
  BY <1>1, <1>2, SoundJoined DEF Member, NullEq, NullNe, Declaration

LEMMA Runs == \A a, b, c, d, e, f :
    /\ Sound(Run(<<a>>)) /\ Sound(Run(<<a, b>>)) /\ Sound(Run(<<a, b, c>>))
    /\ Sound(Run(<<a, b, c, d>>)) /\ Sound(Run(<<a, b, c, d, e>>)) /\ Sound(Run(<<a, b, c, d, e, f>>))
<1> SUFFICES ASSUME NEW a, NEW b, NEW c, NEW d, NEW e, NEW f
             PROVE  /\ Sound(Run(<<a>>)) /\ Sound(Run(<<a, b>>)) /\ Sound(Run(<<a, b, c>>))
                    /\ Sound(Run(<<a, b, c, d>>)) /\ Sound(Run(<<a, b, c, d, e>>))
                    /\ Sound(Run(<<a, b, c, d, e, f>>))
  OBVIOUS
<1>1. Sound(Run(<<a>>)) /\ Sound(Run(<<a, b>>)) /\ Sound(Run(<<a, b, c>>))
  BY TextAtoms
<1>2. Sound(Run(<<a, b, c, d>>))
  BY TextAtoms
<1>3. Sound(Run(<<a, b, c, d, e>>))
  BY TextAtoms
<1>4. Sound(Run(<<a, b, c, d, e, f>>))
  BY TextAtoms
<1> QED
  BY <1>1, <1>2, <1>3, <1>4

LEMMA SpeedPatterns ==
    Sound(SpeedGuarded) /\ Sound(SpeedPatched) /\ "guard" \in Slots(SpeedGuarded, "begin")
<1>1. Sound(SpeedHead) /\ Sound(SpeedTail)
  BY Zenon, SingleAtoms, Runs, CommonAtoms, SoundJoined DEF SpeedHead, SpeedTail
<1>2. Sound(SpeedPatched) /\ Sound(SpeedGuarded)
  BY <1>1, SingleAtoms, Runs, SoundJoined DEF SpeedGuarded, SpeedPatched
<1>3. /\ Sound(Begin("guard")) /\ Sound(End("guard")) /\ Sound(Run(<<"!">>)) /\ Sound(Ident("allowed"))
      /\ Sound(Run(<<"||">>)) /\ "guard" \in Slots(Begin("guard"), "begin")
  BY SingleAtoms, SlotAtoms, Runs
<1>4. "guard" \in Slots(SpeedGuarded, "begin")
  BY <1>1, <1>3, SoundJoined, SlotsJoined DEF SpeedGuarded
<1> QED
  BY <1>2, <1>4

LEMMA SoundFastMode == Sound(FastMode)
  BY Zenon, SingleAtoms, Runs, CommonAtoms, SoundJoined DEF FastMode

LEMMA AllowancePatterns ==
    /\ Sound(AllowanceGuarded) /\ Sound(AllowancePatched)
    /\ "guard" \in Slots(AllowanceGuarded, "begin")
    /\ \A slot \in {"auth", "loading", "data"} : slot \in Slots(AllowanceGuarded, "ident")
<1>1. Sound(AllowanceQuery)
  BY ZenonT(30), SingleAtoms, Runs, CommonAtoms, SoundJoined DEF AllowanceQuery
<1>2. Sound(AllowanceLoading)
  BY ZenonT(30), SingleAtoms, Runs, CommonAtoms, SoundJoined DEF AllowanceLoading
<1>3. Sound(AllowanceHead)
  BY <1>1, <1>2, SingleAtoms, Runs, SoundJoined DEF AllowanceHead
<1>4. Sound(DataAllows)
  BY Zenon, SoundFastMode, SingleAtoms, Runs, CommonAtoms, SoundJoined DEF DataAllows
<1>5. /\ Sound(Ident("auth")) /\ Sound(Ident("loading")) /\ Sound(Ident("data")) /\ Sound(NullNe)
      /\ Sound(Run(<<"&&", "!">>)) /\ Sound(Run(<<"&&">>)) /\ Sound(Run(<<",">>))
      /\ Sound(Begin("guard")) /\ Sound(End("guard"))
  BY SingleAtoms, CommonAtoms, Runs
<1>6. /\ "guard" \in Slots(Begin("guard"), "begin") /\ "data" \in Slots(Ident("data"), "ident")
      /\ "auth" \in Slots(Ident("auth"), "ident") /\ "loading" \in Slots(Ident("loading"), "ident")
  BY SlotAtoms
<1>7. "data" \in Slots(DataAllows, "ident")
  <2> DEFINE data == Ident("data")
             and == Run(<<"&&">>)
  <2>1. Sound(data) /\ Sound(and) /\ Sound(NullNe) /\ "data" \in Slots(data, "ident")
    BY <1>5, <1>6
  <2>2. DataAllows = data \o NullNe \o and \o data \o FastMode
    BY DEF DataAllows
  <2> HIDE DEF data, and
  <2> QED
    BY <2>1, <2>2, SoundFastMode, SoundJoined, SlotsJoined
<1>8. Sound(AllowanceCondition)
  BY <1>4, <1>5, SoundJoined DEF AllowanceCondition
<1>9. \A slot \in {"auth", "loading", "data"} : slot \in Slots(AllowanceCondition, "ident")
  <2> DEFINE auth == Ident("auth")
             andNot == Run(<<"&&", "!">>)
             loading == Ident("loading")
             and == Run(<<"&&">>)
  <2>1. /\ Sound(auth) /\ Sound(andNot) /\ Sound(loading) /\ Sound(and)
        /\ "auth" \in Slots(auth, "ident") /\ "loading" \in Slots(loading, "ident")
    BY <1>5, <1>6
  <2>2. AllowanceCondition = auth \o andNot \o loading \o and \o DataAllows
    BY DEF AllowanceCondition
  <2> HIDE DEF auth, andNot, loading, and
  <2>3. Slots(AllowanceCondition, "ident")
          = Slots(auth, "ident") \cup Slots(andNot, "ident") \cup Slots(loading, "ident")
            \cup Slots(and, "ident") \cup Slots(DataAllows, "ident")
    BY <1>4, <2>1, <2>2, SoundJoined, SlotsJoined
  <2> QED
    BY <1>7, <2>1, <2>3
<1>10. Sound(AllowanceGuarded) /\ "guard" \in Slots(AllowanceGuarded, "begin")
       /\ \A slot \in Slots(AllowanceCondition, "ident") : slot \in Slots(AllowanceGuarded, "ident")
  <2> DEFINE begin == Begin("guard")
             end == End("guard")
             comma == Run(<<",">>)
  <2>1. /\ Sound(begin) /\ Sound(end) /\ Sound(comma)
        /\ "guard" \in Slots(begin, "begin")
    BY <1>5, <1>6
  <2>2. AllowanceGuarded = AllowanceHead \o begin \o AllowanceCondition \o end \o comma
    BY DEF AllowanceGuarded
  <2> HIDE DEF begin, end, comma
  <2>3. Sound(AllowanceGuarded)
    BY <1>3, <1>8, <2>1, <2>2, SoundJoined
  <2>4. \A op : Slots(AllowanceGuarded, op)
          = Slots(AllowanceHead, op) \cup Slots(begin, op) \cup Slots(AllowanceCondition, op)
            \cup Slots(end, op) \cup Slots(comma, op)
    BY <1>3, <1>8, <2>1, <2>2, SoundJoined, SlotsJoined
  <2> QED
    BY <2>1, <2>3, <2>4
<1>11. \A slot \in {"auth", "loading", "data"} : slot \in Slots(AllowanceGuarded, "ident")
  BY <1>9, <1>10
<1>12. Sound(AllowancePatched)
  BY Zenon, <1>3, <1>4, SingleAtoms, Runs, SoundJoined DEF AllowancePatched
<1> QED
  BY <1>10, <1>11, <1>12

LEMMA RequestPattern == Sound(RequestState) /\ "guard" \in Slots(RequestState, "begin")
<1>1. Sound(RequestHead)
  BY ZenonT(30), SingleAtoms, Runs, CommonAtoms, SoundJoined DEF RequestHead
<1>2. Sound(RequestAuth)
  BY ZenonT(30), SingleAtoms, Runs, CommonAtoms, SoundJoined DEF RequestAuth
<1>3. Sound(RequestResponse)
  BY ZenonT(30), SingleAtoms, Runs, CommonAtoms, SoundJoined DEF RequestResponse
<1>4. Sound(RequestResult)
  BY ZenonT(60), SoundFastMode, SingleAtoms, Runs, CommonAtoms, SoundJoined DEF RequestResult
<1>5. /\ Sound(NoLineBreak) /\ Sound(Begin("guard")) /\ Sound(CaptureBool("value")) /\ Sound(End("guard"))
      /\ "guard" \in Slots(Begin("guard"), "begin")
  BY SingleAtoms, SlotAtoms
<1> QED
  BY <1>1, <1>2, <1>3, <1>4, <1>5, SoundJoined, SlotsJoined DEF RequestState

LEMMA ConversationPatterns ==
    /\ Sound(ConversationGuarded) /\ Sound(ConversationPatched)
    /\ \A slot \in {"tier", "guard"} : slot \in Slots(ConversationGuarded, "begin")
    /\ \A slot \in {"base", "fallback", "model", "effective", "allowed"} :
          slot \in Slots(ConversationGuarded, "ident")
<1>1. Sound(InConversation) /\ Sound(ThreadIsSet) /\ Sound(OverrideIsSet) /\ Sound(Fallback)
  BY ZenonT(30), SingleAtoms, Runs, CommonAtoms, SoundJoined
     DEF InConversation, ThreadIsSet, OverrideIsSet, Fallback
<1>2. Sound(DefaultTier)
  BY ZenonT(30), SingleAtoms, Runs, CommonAtoms, SoundJoined DEF DefaultTier
<1>3. Sound(ConversationHead)
  BY ZenonT(30), <1>2, SingleAtoms, Runs, CommonAtoms, SoundJoined DEF ConversationHead
<1>4. Sound(ConversationTail)
  BY ZenonT(30), SingleAtoms, Runs, CommonAtoms, SoundJoined DEF ConversationTail
<1>5. Sound(TierChoice)
  BY ZenonT(30), <1>1, SingleAtoms, Runs, CommonAtoms, SoundJoined DEF TierChoice
<1>6. Sound(RequestChoice)
  BY ZenonT(30), <1>1, SingleAtoms, Runs, CommonAtoms, SoundJoined DEF RequestChoice
<1>7. Sound(RequestIs)
  BY Zenon, SingleAtoms, Runs, SoundJoined DEF RequestIs
<1>8. /\ Sound(Begin("tier")) /\ Sound(End("tier")) /\ Sound(Begin("guard")) /\ Sound(End("guard"))
      /\ Sound(Ident("base")) /\ "base" \in Slots(Ident("base"), "ident")
      /\ "tier" \in Slots(Begin("tier"), "begin") /\ "guard" \in Slots(Begin("guard"), "begin")
  BY SingleAtoms, SlotAtoms
<1>9. Sound(ConversationGuarded) /\ Sound(ConversationPatched)
  BY <1>1, <1>3, <1>4, <1>5, <1>6, <1>7, <1>8, SoundJoined DEF ConversationGuarded, ConversationPatched
<1>10. "tier" \in Slots(ConversationGuarded, "begin")
  BY <1>1, <1>3, <1>4, <1>5, <1>6, <1>7, <1>8, SoundJoined, SlotsJoined DEF ConversationGuarded
<1>11. "guard" \in Slots(ConversationGuarded, "begin")
  BY <1>1, <1>3, <1>4, <1>5, <1>6, <1>7, <1>8, SoundJoined, SlotsJoined DEF ConversationGuarded
<1>12. \A slot \in {"fallback", "model", "effective", "allowed"} : slot \in Slots(Fallback, "ident")
  <2> DEFINE open == Run(<<"(">>)
             comma == Run(<<",">>)
             close == Run(<<")">>)
             f == Ident("fallback")
             m == Ident("model")
             e == Ident("effective")
             a == Ident("allowed")
  <2>1. /\ Sound(open) /\ Sound(comma) /\ Sound(close) /\ Sound(f) /\ Sound(m) /\ Sound(e) /\ Sound(a)
        /\ "fallback" \in Slots(f, "ident") /\ "model" \in Slots(m, "ident")
        /\ "effective" \in Slots(e, "ident") /\ "allowed" \in Slots(a, "ident")
    BY SingleAtoms, Runs, SlotAtoms
  <2>2. Fallback = f \o open \o m \o comma \o e \o comma \o a \o close
    BY DEF Fallback
  <2> HIDE DEF open, comma, close, f, m, e, a
  <2>3. Slots(Fallback, "ident")
          = Slots(f, "ident") \cup Slots(open, "ident") \cup Slots(m, "ident") \cup Slots(comma, "ident")
            \cup Slots(e, "ident") \cup Slots(comma, "ident") \cup Slots(a, "ident") \cup Slots(close, "ident")
    BY <2>1, <2>2, SoundJoined, SlotsJoined
  <2> QED
    BY <2>1, <2>3
<1>13. \A slot \in {"fallback", "model", "effective", "allowed"} : slot \in Slots(ConversationGuarded, "ident")
  <2> DEFINE before == InConversation \o Run(<<"(">>) \o ThreadIsSet \o Run(<<"||">>) \o OverrideIsSet
                       \o Run(<<")", "?">>) \o Ident("allowed") \o Run(<<"?">>) \o Ident("effective")
                       \o Run(<<":", "null", ":">>)
  <2>1. Sound(before)
    BY ZenonT(30), <1>1, SingleAtoms, Runs, SoundJoined
  <2>2. RequestChoice = before \o Fallback
    BY DEF RequestChoice
  <2> HIDE DEF before
  <2>3. \A slot \in {"fallback", "model", "effective", "allowed"} : slot \in Slots(RequestChoice, "ident")
    BY <1>1, <1>12, <2>1, <2>2, SlotsJoined
  <2> QED
    BY <1>3, <1>4, <1>5, <1>6, <1>7, <1>8, <2>3, SoundJoined, SlotsJoined DEF ConversationGuarded
<1>14. "base" \in Slots(ConversationGuarded, "ident")
  <2>1. "base" \in Slots(TierChoice, "ident")
    <3> DEFINE before == InConversation \o ThreadIsSet \o Run(<<"?">>) \o Ident("thread")
                         \o Member("serviceTier") \o Run(<<":">>) \o InConversation \o OverrideIsSet
                         \o Run(<<"?">>) \o Ident("override") \o Run(<<":">>)
    <3>1. Sound(before)
      BY ZenonT(30), <1>1, SingleAtoms, CommonAtoms, Runs, SoundJoined
    <3>2. TierChoice = before \o Ident("base")
      BY DEF TierChoice
    <3> HIDE DEF before
    <3> QED
      BY <1>8, <3>1, <3>2, SlotsJoined
  <2> QED
    BY <1>3, <1>4, <1>5, <1>6, <1>7, <1>8, <2>1, SoundJoined, SlotsJoined DEF ConversationGuarded
<1> QED
  BY <1>9, <1>10, <1>11, <1>13, <1>14

LEMMA IntelligencePatterns ==
    /\ Sound(IntelligenceGuarded) /\ Sound(IntelligencePatched)
    /\ "guard" \in Slots(IntelligenceGuarded, "begin")
<1>1. Sound(MenuHead) /\ Sound(MenuTail)
  <2>1. Sound(OneOf({",", ";"}))
    BY Zenon, TextAtoms, FewTexts
  <2> QED
    BY Zenon, <2>1, SingleAtoms, Runs, CommonAtoms, SoundJoined DEF MenuHead, MenuTail
<1>2. /\ Sound(Begin("guard")) /\ Sound(End("guard")) /\ Sound(AnyIdent) /\ Sound(Run(<<"&&">>))
      /\ "guard" \in Slots(Begin("guard"), "begin")
  BY SingleAtoms, SlotAtoms, Runs
<1> QED
  BY <1>1, <1>2, SoundJoined, SlotsJoined DEF IntelligenceGuarded, IntelligencePatched

LEMMA SoundContexts == \A pattern \in ContextPatterns : Sound(pattern)
<1>1. Sound(OneOf({"==", "==="}))
  BY TextAtoms, FewTexts
<1>2. Sound(AuthChatgpt)
  BY Zenon, <1>1, SingleAtoms, Runs, CommonAtoms, SoundJoined DEF AuthChatgpt
<1>3. Sound(NullableAuth) /\ Sound(AllowedBinding)
  BY Zenon, SingleAtoms, Runs, CommonAtoms, SoundJoined DEF NullableAuth, AllowedBinding
<1> QED
  BY Zenon, <1>2, <1>3, SingleAtoms DEF ContextPatterns

LEMMA RulePatternsAreSound == \A pattern \in RulePatterns : Sound(pattern)
  BY SpeedPatterns, AllowancePatterns, RequestPattern, ConversationPatterns, IntelligencePatterns
     DEF RulePatterns

(***************************************************************************)
(* Every pattern of the rules, those that look around a match included, is *)
(* one that the filter of find and any_in is right for.                    *)
(***************************************************************************)
THEOREM PatternsAreSound ==
    \A pattern \in RulePatterns \cup ContextPatterns :
        pattern \in Seq(Range(pattern)) /\ IsPattern(pattern)
  BY RulePatternsAreSound, SoundContexts, SoundIsSequence DEF Sound

LEMMA NoneIsCutShort ==
    ASSUME NEW S, NEW content \in Seq(S), TokensIn(content) = Tokens(content)
    PROVE  PatternsCutShort(content) = {}
<1> DEFINE tokens == TokensIn(content)
<1>1. DOMAIN tokens \subseteq Nat
  BY TokensAreInOrder, LenProperties
<1> HIDE DEF tokens
<1>2. ASSUME NEW pattern \in RulePatterns
      PROVE  Find(tokens, pattern) =
                 UNION {MatchAt(tokens, start, pattern, NoSlots) : start \in DOMAIN tokens}
  <2>1. pattern \in Seq(Range(pattern)) /\ IsPattern(pattern)
    BY PatternsAreSound
  <2> QED
    BY <1>1, <2>1, FilterLosesNoMatch DEF Find
<1> QED
  BY <1>2 DEF PatternsCutShort, tokens

(***************************************************************************)
(* In whatever archive is found, the filter drops no match of any rule.    *)
(***************************************************************************)
THEOREM PivotAlwaysLosesNothing == Spec => []PivotLosesNothing
<1> DEFINE Known == archive \in Archives
<1>1. Init => Known
  BY DEF Init
<1>2. Known /\ [Next]_vars => Known'
  BY DEF Next, Open, SkipEntry, ScanEntry, FinishPlan, vars
<1>3. Known => PivotLosesNothing
  <2>1. SUFFICES ASSUME Known, NEW i \in DOMAIN archive.entries
                 PROVE  PatternsCutShort(archive.entries[i].content) = {}
    BY DEF PivotLosesNothing
  <2>2. archive.entries[i].content \in Seq(STRING)
    BY <2>1, ArchivesAssumption DEF IsArchive, IsEntry
  <2>3. TokensIn(archive.entries[i].content) = Tokens(archive.entries[i].content)
    BY <2>1, TokensInAssumption
  <2> QED
    BY <2>2, <2>3, NoneIsCutShort
<1> QED
  BY <1>1, <1>2, <1>3, PTL DEF Spec

(***************************************************************************)
(* What a step of a match does: from where the match stands, past the      *)
(* tokens of the atom, with its identifiers and its spans.                 *)
(***************************************************************************)
LEMMA TextAtIs ==
    \A tokens, i : TextAt(tokens, i) = IF i \in DOMAIN tokens THEN tokens[i].text ELSE NoUnit
  BY Zenon DEF TextAt, NoUnit

LEMMA NoTextIs ==
    /\ NoUnit \notin {"true", "false"} /\ NoUnit # "!" /\ NoUnit \notin {"0", "1"} /\ NoUnit # "0"
    /\ NoUnit # "undefined" /\ NoUnit # "void" /\ NoUnit # "{"
  BY Zenon DEF NoUnit

(* Where a value may end that starts at a token. *)
LEMMA BoolValueIs ==
    ASSUME NEW tokens, NEW i \in Nat
    PROVE  /\ \A b \in BoolValue(tokens, i) :
                 \/ b.end = i + 1 /\ i \in DOMAIN tokens
                 \/ b.end = i + 2 /\ i + 1 \in DOMAIN tokens
           /\ \A b, c \in BoolValue(tokens, i) : b = c
<1>1. /\ TextAt(tokens, i) \in {"true", "false"} => i \in DOMAIN tokens
      /\ TextAt(tokens, i + 1) \in {"0", "1"} => i + 1 \in DOMAIN tokens
  BY TextAtIs, NoTextIs
<1> QED
  BY <1>1 DEF BoolValue

IsHit(t) == t = [start |-> t.start, end |-> t.end, ids |-> t.ids, spans |-> t.spans, bools |-> t.bools]

(* What an atom does to where a match stands. *)
Moves(tokens, s, t) ==
    \/ t.end = s.end
    \/ t.end = s.end + 1 /\ s.end \in DOMAIN tokens
    \/ t.end = s.end + 2 /\ s.end + 1 \in DOMAIN tokens

(* ... to the identifiers it binds ... *)
Binds(tokens, atom, s, t) ==
    IF atom.op # "ident" THEN t.ids = s.ids
    ELSE /\ s.end \in DOMAIN tokens
         /\ t.ids \in {s.ids, WithSlot(s.ids, atom.slot, s.end)}
         /\ atom.slot \in DOMAIN t.ids

(* ... and to its spans. *)
Spans(atom, s, t) ==
    CASE atom.op = "begin" ->
           /\ t.end = s.end
           /\ atom.slot \notin DOMAIN s.spans
           /\ t.spans = WithSlot(s.spans, atom.slot, <<s.end, s.end>>)
      [] atom.op = "end" ->
           /\ t.end = s.end
           /\ atom.slot \in DOMAIN s.spans
           /\ s.spans[atom.slot][1] < s.end /\ s.spans[atom.slot][2] = s.spans[atom.slot][1]
           /\ t.spans = [s.spans EXCEPT ![atom.slot][2] = s.end]
      [] OTHER -> t.spans = s.spans

Follows(tokens, atom, s, t) ==
    IsHit(t) /\ t.start = s.start /\ Moves(tokens, s, t) /\ Binds(tokens, atom, s, t) /\ Spans(atom, s, t)

LEMMA EndMoved ==
    \A s, e : IsHit(s) =>
        LET t == [s EXCEPT !.end = e]
        IN  IsHit(t) /\ t.start = s.start /\ t.end = e /\ t.ids = s.ids /\ t.spans = s.spans
  BY DEF IsHit

LEMMA Passes ==
    ASSUME NEW tokens, NEW atom, NEW s, IsHit(s), s.end \in Nat,
           NEW e, \/ e = s.end
                  \/ e = s.end + 1 /\ s.end \in DOMAIN tokens
                  \/ e = s.end + 2 /\ s.end + 1 \in DOMAIN tokens,
           atom.op \notin {"ident", "begin", "end"}
    PROVE  Follows(tokens, atom, s, [s EXCEPT !.end = e])
  BY EndMoved DEF Follows, Moves, Binds, Spans

LEMMA FollowsOneToken ==
    ASSUME NEW tokens, NEW atom, NEW s, IsHit(s), s.end \in Nat,
           atom.op \in {"one", "anyIdent", "str"}, NEW t \in Step(tokens, atom, s)
    PROVE  Follows(tokens, atom, s, t)
<1>1. t = [s EXCEPT !.end = s.end + 1] /\ s.end \in DOMAIN tokens
  BY DEF Step
<1> QED
  BY <1>1, Passes

LEMMA FollowsBool ==
    ASSUME NEW tokens, NEW atom, NEW s, IsHit(s), s.end \in Nat,
           atom.op = "bool", NEW t \in Step(tokens, atom, s)
    PROVE  Follows(tokens, atom, s, t)
<1>1. PICK b \in BoolValue(tokens, s.end) : t = [s EXCEPT !.end = b.end]
  BY DEF Step
<1> QED
  BY <1>1, BoolValueIs, Passes

LEMMA FollowsCapture ==
    ASSUME NEW tokens, NEW atom, NEW s, IsHit(s), s.end \in Nat,
           atom.op = "captureBool", NEW t \in Step(tokens, atom, s)
    PROVE  Follows(tokens, atom, s, t)
<1>1. PICK b \in BoolValue(tokens, s.end) : \E bools : t = [[s EXCEPT !.end = b.end] EXCEPT !.bools = bools]
  <2> DEFINE Stored(b) == Bound(s.bools, atom.slot, b.value, LAMBDA x, y : x = y)
             Reached(b) == {[s EXCEPT !.end = b.end, !.bools = bools] : bools \in Stored(b)}
  <2>1. Step(tokens, atom, s) = UNION {Reached(b) : b \in BoolValue(tokens, s.end)}
    BY DEF Step
  <2> HIDE DEF Reached
  <2>2. PICK b \in BoolValue(tokens, s.end) : t \in Reached(b)
    BY <2>1
  <2> HIDE DEF Stored
  <2>3. \E bools : t = [s EXCEPT !.end = b.end, !.bools = bools]
    BY <2>2 DEF Reached
  <2> QED
    BY <2>3 DEF IsHit
<1> DEFINE u == [s EXCEPT !.end = b.end]
<1>2. Follows(tokens, atom, s, u)
  BY BoolValueIs, Passes
<1>3. PICK bools : t = [u EXCEPT !.bools = bools]
  BY <1>1
<1> HIDE DEF u
<1>4. IsHit(t) /\ t.start = u.start /\ t.end = u.end /\ t.ids = u.ids /\ t.spans = u.spans
  BY <1>2, <1>3 DEF IsHit, Follows
<1> QED
  BY <1>2, <1>4 DEF Follows, Moves, Binds, Spans

LEMMA FollowsUndefined ==
    ASSUME NEW tokens, NEW atom, NEW s, IsHit(s), s.end \in Nat,
           atom.op = "undefined", NEW t \in Step(tokens, atom, s)
    PROVE  Follows(tokens, atom, s, t)
<1>1. /\ TextAt(tokens, s.end) = "undefined" => s.end \in DOMAIN tokens
      /\ TextAt(tokens, s.end + 1) = "0" => s.end + 1 \in DOMAIN tokens
  BY TextAtIs, NoTextIs
<1>2. \/ t = [s EXCEPT !.end = s.end + 1] /\ s.end \in DOMAIN tokens
      \/ t = [s EXCEPT !.end = s.end + 2] /\ s.end + 1 \in DOMAIN tokens
  BY <1>1 DEF Step
<1>3. PICK e : /\ t = [s EXCEPT !.end = e]
               /\ \/ e = s.end + 1 /\ s.end \in DOMAIN tokens
                  \/ e = s.end + 2 /\ s.end + 1 \in DOMAIN tokens
  BY <1>2
<1>4. atom.op \notin {"ident", "begin", "end"}
  OBVIOUS
<1> QED
  BY <1>3, <1>4, Passes

LEMMA FollowsNoLineBreak ==
    ASSUME NEW tokens, NEW atom, NEW s, IsHit(s), s.end \in Nat,
           atom.op = "noLineBreak", NEW t \in Step(tokens, atom, s)
    PROVE  Follows(tokens, atom, s, t)
<1>1. t = s
  BY DEF Step
<1>2. atom.op # "ident" /\ atom.op # "begin" /\ atom.op # "end"
  OBVIOUS
<1>3. Moves(tokens, s, t) /\ Binds(tokens, atom, s, t) /\ Spans(atom, s, t)
  BY <1>1, <1>2 DEF Moves, Binds, Spans
<1>4. IsHit(t) /\ t.start = s.start
  BY <1>1
<1> QED
  BY <1>3, <1>4 DEF Follows

LEMMA FollowsIdent ==
    ASSUME NEW tokens, NEW atom, NEW s, IsHit(s), s.end \in Nat,
           atom.op = "ident", NEW t \in Step(tokens, atom, s)
    PROVE  Follows(tokens, atom, s, t)
<1> DEFINE u == [s EXCEPT !.end = s.end + 1]
<1>1. /\ s.end \in DOMAIN tokens
      /\ \E ids \in {s.ids, WithSlot(s.ids, atom.slot, s.end)} :
            atom.slot \in DOMAIN ids /\ t = [u EXCEPT !.ids = ids]
  BY DEF Step, Bound, WithSlot
<1>2. IsHit(u) /\ u.start = s.start /\ u.end = s.end + 1 /\ u.spans = s.spans
  BY EndMoved
<1> HIDE DEF u
<1>3. PICK ids \in {s.ids, WithSlot(s.ids, atom.slot, s.end)} :
         atom.slot \in DOMAIN ids /\ t = [u EXCEPT !.ids = ids]
  BY <1>1
<1>4. IsHit(t) /\ t.start = u.start /\ t.end = u.end /\ t.ids = ids /\ t.spans = u.spans
  BY <1>2, <1>3 DEF IsHit
<1> QED
  BY <1>1, <1>2, <1>3, <1>4 DEF Follows, Moves, Binds, Spans

LEMMA FollowsSpan ==
    ASSUME NEW tokens, NEW atom, NEW s, IsHit(s), s.end \in Nat,
           atom.op \in {"begin", "end"}, NEW t \in Step(tokens, atom, s)
    PROVE  Follows(tokens, atom, s, t)
<1>1. \A spans : LET u == [s EXCEPT !.spans = spans]
                 IN  IsHit(u) /\ u.start = s.start /\ u.end = s.end /\ u.ids = s.ids /\ u.spans = spans
  BY DEF IsHit
<1>2. CASE atom.op = "begin"
  <2>1. /\ atom.slot \notin DOMAIN s.spans
        /\ t = [s EXCEPT !.spans = WithSlot(s.spans, atom.slot, <<s.end, s.end>>)]
    BY <1>2 DEF Step
  <2> QED
    BY <1>1, <1>2, <2>1 DEF Follows, Moves, Binds, Spans
<1>3. CASE atom.op = "end"
  <2>1. /\ atom.slot \in DOMAIN s.spans
        /\ s.spans[atom.slot][1] < s.end /\ s.spans[atom.slot][2] = s.spans[atom.slot][1]
        /\ t = [s EXCEPT !.spans = [s.spans EXCEPT ![atom.slot][2] = s.end]]
    BY <1>3 DEF Step
  <2> QED
    BY <1>1, <1>3, <2>1 DEF Follows, Moves, Binds, Spans
<1> QED
  BY <1>2, <1>3

LEMMA StepFollows ==
    ASSUME NEW tokens, NEW atom, NEW s, IsHit(s), s.end \in Nat,
           atom.op \in AtomKinds, NEW t \in Step(tokens, atom, s)
    PROVE  Follows(tokens, atom, s, t)
  BY FollowsOneToken, FollowsBool, FollowsCapture, FollowsUndefined, FollowsNoLineBreak, FollowsIdent,
     FollowsSpan DEF AtomKinds, VariableWidth, NoWidth

(***************************************************************************)
(* A match stays within the tokens it has passed: so do its identifiers,   *)
(* and a span that is open ends behind where it began.                     *)
(***************************************************************************)
IdsInside(tokens, t) == \A x \in DOMAIN t.ids : t.ids[x] \in DOMAIN tokens

SpansInside(start, t) ==
    \A x \in DOMAIN t.spans :
        /\ t.spans[x] = <<t.spans[x][1], t.spans[x][2]>>
        /\ t.spans[x][1] \in start .. t.end /\ t.spans[x][2] \in t.spans[x][1] .. t.end

(* The slots of the atoms a match has passed are bound, and their spans hold tokens. *)
Passed(p, k, t) ==
    \A i \in 1 .. k :
        /\ p[i].op = "ident" => p[i].slot \in DOMAIN t.ids
        /\ p[i].op = "begin" => p[i].slot \in DOMAIN t.spans
        /\ p[i].op = "end" => /\ p[i].slot \in DOMAIN t.spans
                              /\ t.spans[p[i].slot][1] < t.spans[p[i].slot][2]

Reaches(tokens, p, start, k, t) ==
    /\ IsHit(t) /\ t.start = start /\ t.end \in start .. Len(tokens) + 1
    /\ IdsInside(tokens, t) /\ SpansInside(start, t) /\ Passed(p, k, t)

LEMMA IdsStayInside ==
    ASSUME NEW tokens, NEW atom, NEW s, NEW t, Binds(tokens, atom, s, t), IdsInside(tokens, s)
    PROVE  IdsInside(tokens, t) /\ DOMAIN s.ids \subseteq DOMAIN t.ids
           /\ (atom.op = "ident" => atom.slot \in DOMAIN t.ids)
<1>1. CASE t.ids = s.ids
  BY <1>1 DEF Binds, IdsInside
<1>2. CASE t.ids = WithSlot(s.ids, atom.slot, s.end) /\ atom.op = "ident"
  BY <1>2 DEF Binds, IdsInside, WithSlot
<1> QED
  BY <1>1, <1>2 DEF Binds

LEMMA SpansStayInside ==
    ASSUME NEW tokens, NEW atom, NEW s, NEW t, NEW start \in Nat, IsHit(s), s.end \in Nat, start <= s.end,
           t.end \in Nat, s.end <= t.end, Spans(atom, s, t), SpansInside(start, s)
    PROVE  /\ SpansInside(start, t) /\ DOMAIN s.spans \subseteq DOMAIN t.spans
           /\ (atom.op = "begin" => atom.slot \in DOMAIN t.spans)
           /\ (atom.op = "end" => /\ atom.slot \in DOMAIN t.spans
                                  /\ t.spans[atom.slot][1] < t.spans[atom.slot][2])
           /\ \A x \in DOMAIN s.spans :
                 s.spans[x][1] < s.spans[x][2] => t.spans[x][1] < t.spans[x][2]
<1>1. CASE atom.op \notin {"begin", "end"}
  <2>1. t.spans = s.spans
    BY <1>1 DEF Spans
  <2> QED
    BY <1>1, <2>1 DEF SpansInside
<1>2. CASE atom.op = "begin"
  <2>1. /\ t.end = s.end /\ atom.slot \notin DOMAIN s.spans
        /\ t.spans = WithSlot(s.spans, atom.slot, <<s.end, s.end>>)
    BY <1>2 DEF Spans
  <2>2. /\ DOMAIN t.spans = DOMAIN s.spans \cup {atom.slot}
        /\ t.spans[atom.slot] = <<s.end, s.end>>
        /\ \A x \in DOMAIN s.spans : t.spans[x] = s.spans[x]
    BY <2>1 DEF WithSlot
  <2> QED
    BY <1>2, <2>1, <2>2 DEF SpansInside
<1>3. CASE atom.op = "end"
  <2> DEFINE slot == atom.slot
             span == s.spans[slot]
  <2>1. /\ t.end = s.end /\ slot \in DOMAIN s.spans
        /\ span[1] < s.end /\ span[2] = span[1]
        /\ t.spans = [s.spans EXCEPT ![slot][2] = s.end]
    BY <1>3 DEF Spans
  <2>2. span = <<span[1], span[2]>> /\ span[1] \in start .. s.end
    BY <2>1 DEF SpansInside
  <2>3. DOMAIN t.spans = DOMAIN s.spans
        /\ \A x \in DOMAIN s.spans : t.spans[x] = IF x = slot THEN [span EXCEPT ![2] = s.end] ELSE s.spans[x]
    BY <2>1
  <2>4. [span EXCEPT ![2] = s.end] = <<span[1], s.end>>
    <3> DEFINE b == span[1]
    <3>1. span = <<b, b>>
      BY <2>1, <2>2
    <3>2. [<<b, b>> EXCEPT ![2] = s.end] = <<b, s.end>>
      OBVIOUS
    <3> QED
      BY <3>1, <3>2
  <2>5. t.spans[slot] = <<span[1], s.end>>
    BY <2>1, <2>3, <2>4
  <2>6. \A x \in DOMAIN s.spans : x # slot => t.spans[x] = s.spans[x]
    BY <2>3
  <2> HIDE DEF span, slot
  <2>7. SpansInside(start, t)
    <3>1. ASSUME NEW x \in DOMAIN t.spans
          PROVE  /\ t.spans[x] = <<t.spans[x][1], t.spans[x][2]>>
                 /\ t.spans[x][1] \in start .. t.end /\ t.spans[x][2] \in t.spans[x][1] .. t.end
      <4>1. CASE x = slot
        BY <2>1, <2>2, <2>5, <4>1
      <4>2. CASE x # slot
        BY <2>1, <2>3, <2>6, <4>2 DEF SpansInside
      <4> QED
        BY <4>1, <4>2
    <3> QED
      BY <3>1 DEF SpansInside
  <2> QED
    BY <1>3, <2>1, <2>2, <2>3, <2>5, <2>6, <2>7 DEF slot
<1> QED
  BY <1>1, <1>2, <1>3

LEMMA StepReaches ==
    ASSUME NEW tokens, DOMAIN tokens = 1 .. Len(tokens), Len(tokens) \in Nat, NEW p, NEW start \in Nat,
           NEW k \in Nat, NEW s, Reaches(tokens, p, start, k, s),
           p[k + 1].op \in AtomKinds, NEW t \in Step(tokens, p[k + 1], s)
    PROVE  Reaches(tokens, p, start, k + 1, t)
<1> DEFINE atom == p[k + 1]
<1>1. s.end \in Nat /\ start <= s.end /\ s.end <= Len(tokens) + 1 /\ IsHit(s)
  BY DEF Reaches
<1>2. Follows(tokens, atom, s, t)
  BY <1>1, StepFollows
<1> HIDE DEF atom
<1>3. t.end \in Nat /\ s.end <= t.end /\ t.end <= Len(tokens) + 1
  BY <1>1, <1>2 DEF Follows, Moves
<1>4. IdsInside(tokens, t) /\ DOMAIN s.ids \subseteq DOMAIN t.ids
      /\ (atom.op = "ident" => atom.slot \in DOMAIN t.ids)
  BY <1>2, IdsStayInside DEF Follows, Reaches
<1>5. /\ SpansInside(start, t) /\ DOMAIN s.spans \subseteq DOMAIN t.spans
      /\ (atom.op = "begin" => atom.slot \in DOMAIN t.spans)
      /\ (atom.op = "end" => /\ atom.slot \in DOMAIN t.spans
                             /\ t.spans[atom.slot][1] < t.spans[atom.slot][2])
      /\ \A x \in DOMAIN s.spans :
            s.spans[x][1] < s.spans[x][2] => t.spans[x][1] < t.spans[x][2]
  <2>1. Spans(atom, s, t) /\ SpansInside(start, s)
    BY <1>2 DEF Follows, Reaches
  <2> QED
    BY <1>1, <1>3, <2>1, SpansStayInside
<1>6. Passed(p, k + 1, t)
  <2>1. ASSUME NEW i \in 1 .. k
        PROVE  /\ p[i].op = "ident" => p[i].slot \in DOMAIN t.ids
               /\ p[i].op = "begin" => p[i].slot \in DOMAIN t.spans
               /\ p[i].op = "end" => /\ p[i].slot \in DOMAIN t.spans
                                     /\ t.spans[p[i].slot][1] < t.spans[p[i].slot][2]
    <3>1. /\ p[i].op = "ident" => p[i].slot \in DOMAIN s.ids
          /\ p[i].op = "begin" => p[i].slot \in DOMAIN s.spans
          /\ p[i].op = "end" => /\ p[i].slot \in DOMAIN s.spans
                                /\ s.spans[p[i].slot][1] < s.spans[p[i].slot][2]
      BY DEF Reaches, Passed
    <3> QED
      BY <1>4, <1>5, <3>1
  <2>2. \A i \in 1 .. k + 1 : i \in 1 .. k \/ i = k + 1
    OBVIOUS
  <2> QED
    BY <1>4, <1>5, <2>1, <2>2 DEF Passed, atom
<1> QED
  BY <1>1, <1>2, <1>3, <1>4, <1>5, <1>6 DEF Reaches, Follows

(***************************************************************************)
(* A pattern matches at most once at a token, and finitely often.          *)
(***************************************************************************)
AtMostOne(S) == \A x, y \in S : x = y

LEMMA FewIsFinite == ASSUME NEW S, AtMostOne(S) PROVE IsFiniteSet(S)
<1>1. CASE S = {}
  BY <1>1, FS_EmptySet
<1>2. CASE S # {}
  <2>1. PICK x : S = {x}
    BY <1>2 DEF AtMostOne
  <2> QED
    BY <2>1, FS_Singleton
<1> QED
  BY <1>1, <1>2

LEMMA CaptureIsOne ==
    ASSUME NEW tokens, NEW atom, NEW s, s.end \in Nat, atom.op = "captureBool"
    PROVE  AtMostOne(Step(tokens, atom, s))
<1> DEFINE Stored(b) == Bound(s.bools, atom.slot, b.value, LAMBDA x, y : x = y)
           Reached(b) == {[s EXCEPT !.end = b.end, !.bools = bools] : bools \in Stored(b)}
<1>1. Step(tokens, atom, s) = UNION {Reached(b) : b \in BoolValue(tokens, s.end)}
  BY DEF Step
<1>2. \A b : AtMostOne(Stored(b))
  BY DEF Bound, AtMostOne
<1> HIDE DEF Stored
<1>3. \A b : AtMostOne(Reached(b))
  BY <1>2 DEF AtMostOne
<1> HIDE DEF Reached
<1>4. \A b, c \in BoolValue(tokens, s.end) : b = c
  BY BoolValueIs
<1> QED
  BY <1>1, <1>3, <1>4 DEF AtMostOne

LEMMA IdentIsOne ==
    ASSUME NEW tokens, NEW atom, NEW s, atom.op = "ident"
    PROVE  AtMostOne(Step(tokens, atom, s))
<1> DEFINE past == [s EXCEPT !.end = s.end + 1]
           Stored == Bound(s.ids, atom.slot, s.end, LAMBDA i, j : tokens[i].text = tokens[j].text)
           Reached == {[past EXCEPT !.ids = ids] : ids \in Stored}
<1>1. Step(tokens, atom, s) \in {{}, Reached}
  BY DEF Step
<1>2. AtMostOne(Stored)
  BY DEF Bound, AtMostOne
<1> HIDE DEF Stored, past
<1>3. AtMostOne(Reached)
  BY <1>2 DEF AtMostOne
<1> QED
  BY <1>1, <1>3 DEF AtMostOne

LEMMA BoolIsOne ==
    ASSUME NEW tokens, NEW atom, NEW s, s.end \in Nat, atom.op = "bool"
    PROVE  AtMostOne(Step(tokens, atom, s))
<1>1. Step(tokens, atom, s) =
         {[s EXCEPT !.end = b.end] : b \in {v \in BoolValue(tokens, s.end) : v.value = atom.value}}
  BY DEF Step
<1>2. \A b, c \in BoolValue(tokens, s.end) : b = c
  BY BoolValueIs
<1> QED
  BY <1>1, <1>2 DEF AtMostOne

LEMMA StepIsOne ==
    ASSUME NEW tokens, NEW atom, NEW s, s.end \in Nat, atom.op \in AtomKinds
    PROVE  AtMostOne(Step(tokens, atom, s))
<1>1. CASE atom.op \in {"one", "anyIdent", "str"}
  BY <1>1 DEF Step, AtMostOne
<1>2. CASE atom.op \in {"undefined", "noLineBreak"}
  BY <1>2 DEF Step, AtMostOne
<1>3. CASE atom.op = "begin"
  BY <1>3 DEF Step, AtMostOne
<1>4. CASE atom.op = "end"
  BY <1>4 DEF Step, AtMostOne
<1> QED
  BY <1>1, <1>2, <1>3, <1>4, CaptureIsOne, IdentIsOne, BoolIsOne DEF AtomKinds, VariableWidth, NoWidth

(* There is at most one match at a token. *)
LEMMA MatchIs ==
    ASSUME NEW tokens, DOMAIN tokens = 1 .. Len(tokens), Len(tokens) \in Nat,
           NEW S, NEW p \in Seq(S), IsPattern(p), NEW start \in DOMAIN tokens
    PROVE  /\ AtMostOne(MatchAt(tokens, start, p, NoSlots))
           /\ \A t \in MatchAt(tokens, start, p, NoSlots) : Reaches(tokens, p, start, Len(p), t)
<1> DEFINE n == Len(p)
           s == [start |-> start, end |-> start, ids |-> NoSlots, spans |-> NoSlots, bools |-> NoSlots]
           M == MatchedFrom(tokens, p, s)
           P == {i \in Nat : i <= n => AtMostOne(M[i]) /\ \A u \in M[i] : Reaches(tokens, p, start, i, u)}
<1>0. n \in Nat /\ DOMAIN p = 1 .. n /\ start \in Nat
  BY LenProperties
<1>1. Matched(M, tokens, p, s)
  BY MatchedExists
<1>2. Reaches(tokens, p, start, 0, s)
  BY DEF Reaches, IsHit, IdsInside, SpansInside, Passed, NoSlots
<1>3. MatchAt(tokens, start, p, NoSlots) = M[n]
  BY DEF MatchAt
<1> HIDE DEF M, s
<1>4. /\ M[0] = {s}
      /\ \A i \in 1 .. n : M[i] = UNION {Step(tokens, p[i], u) : u \in M[i - 1]}
  BY <1>1 DEF Matched
<1> HIDE DEF n
<1>5. 0 \in P
  BY <1>2, <1>4 DEF AtMostOne
<1>6. ASSUME NEW i \in Nat, i \in P PROVE i + 1 \in P
  <2>1. SUFFICES ASSUME i + 1 <= n
                 PROVE  AtMostOne(M[i + 1]) /\ \A u \in M[i + 1] : Reaches(tokens, p, start, i + 1, u)
    OBVIOUS
  <2>2. M[i + 1] = UNION {Step(tokens, p[i + 1], v) : v \in M[i]}
    BY <1>0, <1>4, <2>1
  <2>3. p[i + 1].op \in AtomKinds
    BY <1>0, <2>1 DEF IsPattern
  <2>4. ASSUME NEW v \in M[i]
        PROVE  /\ AtMostOne(Step(tokens, p[i + 1], v))
               /\ \A u \in Step(tokens, p[i + 1], v) : Reaches(tokens, p, start, i + 1, u)
    <3>1. Reaches(tokens, p, start, i, v)
      BY <1>0, <1>6, <2>1
    <3>2. v.end \in Nat
      BY <1>0, <3>1 DEF Reaches
    <3> QED
      BY <1>0, <2>3, <3>1, <3>2, StepReaches, StepIsOne
  <2>5. AtMostOne(M[i])
    BY <1>0, <1>6, <2>1
  <2> QED
    BY <2>2, <2>4, <2>5 DEF AtMostOne
<1>7. Nat \subseteq P
  <2> HIDE DEF P
  <2> QED
    BY <1>5, <1>6, Induction
<1> QED
  BY <1>0, <1>3, <1>7 DEF n

(* What find yields: matches that start at a token, finitely many. *)
LEMMA FindIs ==
    ASSUME NEW tokens, DOMAIN tokens = 1 .. Len(tokens), Len(tokens) \in Nat, NEW p, Sound(p)
    PROVE  /\ IsFiniteSet(Find(tokens, p))
           /\ \A hit \in Find(tokens, p) :
                 hit.start \in DOMAIN tokens /\ Reaches(tokens, p, hit.start, Len(p), hit)
<1>1. p \in Seq(Range(p)) /\ IsPattern(p)
  BY SoundIsSequence DEF Sound
<1> DEFINE D == DOMAIN tokens
           f == [start \in D |-> MatchAt(tokens, start, p, NoSlots)]
<1>2. Find(tokens, p) = UNION Range(f)
  <2>1. D \subseteq Nat
    OBVIOUS
  <2>2. Find(tokens, p) = UNION {MatchAt(tokens, start, p, NoSlots) : start \in D}
    BY <1>1, <2>1, FilterLosesNoMatch DEF Find
  <2> QED
    BY <2>2 DEF Range
<1>3. \A start \in D :
         /\ IsFiniteSet(f[start])
         /\ \A hit \in f[start] : hit.start = start /\ Reaches(tokens, p, start, Len(p), hit)
  <2>1. ASSUME NEW start \in D
        PROVE  /\ IsFiniteSet(f[start])
               /\ \A hit \in f[start] : hit.start = start /\ Reaches(tokens, p, start, Len(p), hit)
    <3>1. IsFiniteSet(f[start])
      BY <1>1, MatchIs, FewIsFinite
    <3>2. \A hit \in f[start] : Reaches(tokens, p, start, Len(p), hit)
      BY <1>1, MatchIs
    <3> QED
      BY <3>1, <3>2 DEF Reaches
  <2> QED
    BY <2>1
<1> HIDE DEF f
<1>4. DOMAIN f = D
  BY DEF f
<1>5. IsFiniteSet(UNION Range(f))
  <2>1. IsFiniteSet(D)
    BY FS_Interval
  <2>2. IsFiniteSet(Range(f))
    BY <1>4, <2>1, FiniteImage
  <2>3. \A s \in Range(f) : IsFiniteSet(s)
    BY <1>3, <1>4 DEF Range
  <2> QED
    BY <2>2, <2>3, FiniteUnion
<1> QED
  BY <1>2, <1>3, <1>4, <1>5 DEF Range

(***************************************************************************)
(* Text, tokens and sites: a stretch of tokens is a valid range of the text,*)
(* and a site with edits for stretches of it is none the planner refuses.  *)
(***************************************************************************)
IsText(source) == source \in Seq(STRING) /\ \A i \in DOMAIN source : source[i] # Continuation

(* The tokens lie in the text, in order: TokensAreInOrder. *)
Lie(tokens, source) ==
    /\ Len(tokens) \in Nat /\ DOMAIN tokens = 1 .. Len(tokens) /\ Len(source) \in Nat
    /\ \A i \in DOMAIN tokens :
          /\ tokens[i].lo \in Nat /\ tokens[i].hi \in Nat
          /\ tokens[i].lo < tokens[i].hi /\ tokens[i].hi <= Len(source)
          /\ tokens[i].units \in Seq(STRING)
    /\ \A i, j \in DOMAIN tokens : i < j => tokens[i].hi <= tokens[j].lo

LEMMA TokensLie == ASSUME NEW source, IsText(source) PROVE Lie(Tokens(source), source)
<1> DEFINE tokens == Tokens(source)
<1>1. /\ tokens \in Seq(Range(tokens))
      /\ \A i \in DOMAIN tokens :
            /\ tokens[i].lo \in Nat /\ tokens[i].hi \in Nat
            /\ tokens[i].lo < tokens[i].hi /\ tokens[i].hi <= Len(source)
            /\ tokens[i].units = SubSeq(source, tokens[i].lo + 1, tokens[i].hi)
      /\ \A i, j \in DOMAIN tokens : i < j => tokens[i].hi <= tokens[j].lo
  BY TokensAreInOrder DEF IsText
<1> HIDE DEF tokens
<1>2. source \in Seq(STRING) /\ Len(source) \in Nat
  BY LenProperties DEF IsText
<1>3. ASSUME NEW i \in DOMAIN tokens PROVE tokens[i].units \in Seq(STRING)
  <2>1. tokens[i].lo + 1 \in 1 .. Len(source) + 1 /\ tokens[i].hi \in 0 .. Len(source)
    BY <1>1, <1>2
  <2>2. SubSeq(source, tokens[i].lo + 1, tokens[i].hi) \in Seq(STRING)
    BY <1>2, <2>1, SubSeqProperties
  <2> QED
    BY <1>1, <2>2
<1>4. Len(tokens) \in Nat /\ DOMAIN tokens = 1 .. Len(tokens)
  BY <1>1, LenProperties
<1> QED
  BY <1>1, <1>2, <1>3, <1>4 DEF Lie, tokens

(* From one token to before another. *)
Stretch(tokens, start, end) == [lo |-> tokens[start].lo, hi |-> tokens[end - 1].hi]

LEMMA TokenRangeIs ==
    ASSUME NEW tokens, NEW start, NEW end
    PROVE  /\ \A range \in TokenRange(tokens, start, end) :
                 /\ start < end /\ end <= Len(tokens) + 1
                 /\ range = Stretch(tokens, start, end)
           /\ AtMostOne(TokenRange(tokens, start, end))
           /\ IsFiniteSet(TokenRange(tokens, start, end))
<1>1. \A range \in TokenRange(tokens, start, end) :
         start < end /\ end <= Len(tokens) + 1 /\ range = Stretch(tokens, start, end)
  BY DEF TokenRange, Stretch
<1>2. AtMostOne(TokenRange(tokens, start, end))
  BY <1>1 DEF AtMostOne
<1> QED
  BY <1>1, <1>2, FewIsFinite

LEMMA Stretches ==
    ASSUME NEW tokens, NEW source, Lie(tokens, source),
           NEW start \in 1 .. Len(tokens), NEW end \in start + 1 .. Len(tokens) + 1
    PROVE  LET range == Stretch(tokens, start, end)
           IN  /\ range.lo \in Nat /\ range.hi \in Nat
               /\ range.lo < range.hi /\ range.hi <= Len(source)
               /\ \A b \in start .. end - 1 : \A e \in b + 1 .. end :
                     range.lo <= Stretch(tokens, b, e).lo /\ Stretch(tokens, b, e).hi <= range.hi
<1>1. Len(tokens) \in Nat /\ DOMAIN tokens = 1 .. Len(tokens)
  BY DEF Lie
<1>2. \A i, j \in 1 .. Len(tokens) : i <= j =>
         /\ tokens[i].lo \in Nat /\ tokens[i].hi \in Nat /\ tokens[j].lo \in Nat /\ tokens[j].hi \in Nat
         /\ tokens[i].lo < tokens[j].hi /\ tokens[j].hi <= Len(source)
         /\ tokens[i].lo <= tokens[j].lo /\ tokens[i].hi <= tokens[j].hi
  <2>1. SUFFICES ASSUME NEW i \in 1 .. Len(tokens), NEW j \in 1 .. Len(tokens), i <= j
                 PROVE  /\ tokens[i].lo \in Nat /\ tokens[i].hi \in Nat /\ tokens[j].lo \in Nat /\ tokens[j].hi \in Nat
                        /\ tokens[i].lo < tokens[j].hi /\ tokens[j].hi <= Len(source)
                        /\ tokens[i].lo <= tokens[j].lo /\ tokens[i].hi <= tokens[j].hi
    OBVIOUS
  <2>2. CASE i = j
    BY <1>1, <2>2 DEF Lie
  <2>3. CASE i < j
    <3>1. \A k \in {i, j} :
             /\ tokens[k].lo \in Nat /\ tokens[k].hi \in Nat
             /\ tokens[k].lo < tokens[k].hi /\ tokens[k].hi <= Len(source)
      BY <1>1 DEF Lie
    <3>2. tokens[i].hi <= tokens[j].lo
      BY <1>1, <2>3 DEF Lie
    <3>3. Len(source) \in Nat
      BY DEF Lie
    <3> QED
      BY <3>1, <3>2, <3>3, SMTT(30)
  <2> QED
    BY <1>1, <2>1, <2>2, <2>3
<1>3. start \in 1 .. Len(tokens) /\ end - 1 \in 1 .. Len(tokens) /\ start <= end - 1
  BY <1>1
<1>4. ASSUME NEW b \in start .. end - 1, NEW e \in b + 1 .. end
      PROVE  tokens[start].lo <= tokens[b].lo /\ tokens[e - 1].hi <= tokens[end - 1].hi
  <2>1. b \in 1 .. Len(tokens) /\ e - 1 \in 1 .. Len(tokens) /\ start <= b /\ e - 1 <= end - 1
    BY <1>1
  <2> QED
    BY <1>2, <1>3, <2>1
<1> QED
  BY <1>2, <1>3, <1>4 DEF Stretch

(* What an edit of a site may be: other text for some of its tokens. *)
EditsFrom(tokens, start, end) ==
    {EditOf(Stretch(tokens, se[1], se[2]), se[3]) :
        se \in {x \in (start .. end - 1) \X (start .. end) \X Seq(STRING) : x[1] < x[2]}}

IsSoundSite(source, site) ==
    site \in Sites /\ IsFiniteSet(site.edits) /\ ~InvalidSite(source, site)

LEMMA SiteIsSound ==
    ASSUME NEW tokens, NEW source, IsText(source), Lie(tokens, source),
           NEW start \in 1 .. Len(tokens), NEW end \in Nat, NEW range \in TokenRange(tokens, start, end),
           NEW edits, IsFiniteSet(edits), edits \subseteq EditsFrom(tokens, start, end)
    PROVE  IsSoundSite(source, SiteOf(range, edits))
<1>0. Len(tokens) \in Nat /\ Len(source) \in Nat
  BY DEF Lie
<1>1. end \in start + 1 .. Len(tokens) + 1 /\ range = Stretch(tokens, start, end)
  BY <1>0, TokenRangeIs
<1>2. /\ range.lo \in Nat /\ range.hi \in Nat /\ range.lo < range.hi /\ range.hi <= Len(source)
      /\ \A b \in start .. end - 1 : \A e \in b + 1 .. end :
            range.lo <= Stretch(tokens, b, e).lo /\ Stretch(tokens, b, e).hi <= range.hi
  BY <1>1, Stretches
<1>3. \A r : r.lo \in Nat /\ r.hi \in Nat /\ r.lo < r.hi /\ r.hi <= Len(source) => ValidRange(source, r)
  <2>1. \A i \in 0 .. Len(source) : IsBoundary(source, i)
    BY <1>0, LenProperties DEF IsText, IsBoundary
  <2> QED
    BY <1>0, <2>1 DEF ValidRange
<1>4. ASSUME NEW edit \in edits
      PROVE  /\ edit \in EditRecords /\ ValidRange(source, edit)
             /\ range.lo <= edit.lo /\ edit.hi <= range.hi
  <2>1. PICK b \in start .. end - 1, e \in start .. end, text \in Seq(STRING) :
           b < e /\ edit = EditOf(Stretch(tokens, b, e), text)
    BY DEF EditsFrom
  <2>2. b \in 1 .. Len(tokens) /\ e \in b + 1 .. Len(tokens) + 1 /\ e \in b + 1 .. end
    BY <1>0, <1>1, <2>1
  <2> DEFINE part == Stretch(tokens, b, e)
  <2>3. part.lo \in Nat /\ part.hi \in Nat /\ part.lo < part.hi /\ part.hi <= Len(source)
    BY <2>2, Stretches
  <2>4. range.lo <= part.lo /\ part.hi <= range.hi
    BY <1>2, <2>2
  <2> HIDE DEF part
  <2>5. edit = [lo |-> part.lo, hi |-> part.hi, text |-> text]
    BY <2>1 DEF EditOf, part
  <2> QED
    BY <1>3, <2>1, <2>3, <2>4, <2>5 DEF EditRecords
<1>5. SiteOf(range, edits) = [lo |-> range.lo, hi |-> range.hi, edits |-> edits]
  BY DEF SiteOf
<1> DEFINE site == SiteOf(range, edits)
<1>6. site.lo = range.lo /\ site.hi = range.hi /\ site.edits = edits
  BY <1>5
<1>7. site \in Sites
  BY <1>2, <1>4, <1>5 DEF Sites
<1> HIDE DEF site
<1>8. ~InvalidSite(source, site)
  <2>1. ValidRange(source, site)
    BY <1>2, <1>3, <1>6
  <2>2. \A edit \in site.edits : ValidRange(source, edit) /\ ~(edit.lo < site.lo) /\ ~(edit.hi > site.hi)
    BY <1>2, <1>4, <1>6 DEF EditRecords
  <2> QED
    BY <2>1, <2>2 DEF InvalidSite
<1> QED
  BY <1>6, <1>7, <1>8 DEF IsSoundSite, site

(***************************************************************************)
(* The sites of a rule made of patterns.                                   *)
(***************************************************************************)
LEMMA SlotsOfHit ==
    ASSUME NEW tokens, NEW source, Lie(tokens, source), NEW p, Sound(p), NEW hit \in Find(tokens, p)
    PROVE  /\ hit.start \in 1 .. Len(tokens) /\ hit.end \in Nat
           /\ \A slot \in Slots(p, "begin") :
                 /\ hit.spans[slot][1] \in hit.start .. hit.end
                 /\ hit.spans[slot][2] \in hit.start .. hit.end
           /\ \A slot \in Slots(p, "ident") : Units(tokens, hit, slot) \in Seq(STRING)
<1>0. Len(tokens) \in Nat /\ DOMAIN tokens = 1 .. Len(tokens)
  BY DEF Lie
<1>1. hit.start \in 1 .. Len(tokens) /\ Reaches(tokens, p, hit.start, Len(p), hit)
  BY <1>0, FindIs
<1>2. hit.end \in Nat
  BY <1>0, <1>1 DEF Reaches
<1>3. DOMAIN p = 1 .. Len(p)
  BY DEF Sound
<1>4. ASSUME NEW slot \in Slots(p, "begin")
      PROVE  hit.spans[slot][1] \in hit.start .. hit.end /\ hit.spans[slot][2] \in hit.start .. hit.end
  <2>1. slot \in DOMAIN hit.spans
    BY <1>1, <1>3 DEF Slots, Reaches, Passed
  <2>2. hit.spans[slot][1] \in hit.start .. hit.end
        /\ hit.spans[slot][2] \in hit.spans[slot][1] .. hit.end
    BY <1>1, <2>1 DEF Reaches, SpansInside
  <2> QED
    BY <1>1, <1>2, <2>2
<1>5. ASSUME NEW slot \in Slots(p, "ident") PROVE Units(tokens, hit, slot) \in Seq(STRING)
  <2>1. slot \in DOMAIN hit.ids
    BY <1>1, <1>3 DEF Slots, Reaches, Passed
  <2>2. hit.ids[slot] \in DOMAIN tokens
    BY <1>1, <2>1 DEF Reaches, IdsInside
  <2> QED
    BY <2>2 DEF Units, Lie
<1> QED
  BY <1>1, <1>2, <1>4, <1>5

(* Other text for a captured span. *)
SpanEdits(tokens, hit, slot, text) == {EditOf(range, text) : range \in Span(tokens, hit, slot)}

LEMMA SpanEditsAre ==
    ASSUME NEW tokens, NEW source, Lie(tokens, source), NEW p, Sound(p), NEW hit \in Find(tokens, p),
           NEW slot \in Slots(p, "begin"), NEW text \in Seq(STRING)
    PROVE  /\ IsFiniteSet(SpanEdits(tokens, hit, slot, text))
           /\ SpanEdits(tokens, hit, slot, text) \subseteq EditsFrom(tokens, hit.start, hit.end)
<1> DEFINE b == hit.spans[slot][1]
           e == hit.spans[slot][2]
           start == hit.start
           end == hit.end
           ranges == TokenRange(tokens, b, e)
<1>1. start \in Nat /\ end \in Nat /\ b \in start .. end /\ e \in start .. end
  BY SlotsOfHit
<1>2. SpanEdits(tokens, hit, slot, text) = {EditOf(range, text) : range \in ranges}
  BY DEF SpanEdits, Span
<1>3. AtMostOne(ranges) /\ \A range \in ranges : b < e /\ range = Stretch(tokens, b, e)
  BY TokenRangeIs
<1> HIDE DEF b, e, start, end, ranges
<1>4. ASSUME NEW range \in ranges PROVE EditOf(range, text) \in EditsFrom(tokens, start, end)
  <2> DEFINE se == <<b, e, text>>
  <2>1. b \in start .. end - 1 /\ b < e
    BY <1>1, <1>3
  <2>2. se \in {x \in (start .. end - 1) \X (start .. end) \X Seq(STRING) : x[1] < x[2]}
    BY <1>1, <2>1
  <2>3. EditOf(range, text) = EditOf(Stretch(tokens, se[1], se[2]), se[3])
    BY <1>3
  <2> QED
    BY <2>2, <2>3 DEF EditsFrom
<1>5. AtMostOne(SpanEdits(tokens, hit, slot, text))
  BY <1>2, <1>3 DEF AtMostOne
<1> QED
  BY <1>2, <1>4, <1>5, FewIsFinite DEF start, end

AreSound(source, sites) == IsFiniteSet(sites) /\ \A site \in sites : IsSoundSite(source, site)

LEMMA BothAreSound ==
    \A source, a, b : AreSound(source, a) /\ AreSound(source, b) => AreSound(source, a \cup b)
  BY FS_Union DEF AreSound

(* Every match of H has its edits. *)
AreEdits(tokens, H, edits) ==
    \A hit \in H : IsFiniteSet(edits[hit]) /\ edits[hit] \subseteq EditsFrom(tokens, hit.start, hit.end)

SitesWith(tokens, H, edits) == UNION {HitSites(tokens, hit, edits[hit]) : hit \in H}

(* The sites of some of the matches of a pattern, each with its edits. *)
LEMMA HitSitesAreSound ==
    ASSUME NEW tokens, NEW source, IsText(source), Lie(tokens, source), NEW p, Sound(p),
           NEW H, H \subseteq Find(tokens, p), NEW edits, AreEdits(tokens, H, edits)
    PROVE  AreSound(source, SitesWith(tokens, H, edits))
<1> DEFINE f == [hit \in H |-> HitSites(tokens, hit, edits[hit])]
<1>1. Len(tokens) \in Nat /\ DOMAIN tokens = 1 .. Len(tokens)
  BY DEF Lie
<1>2. ASSUME NEW hit \in H PROVE AreSound(source, f[hit])
  <2>1. hit \in Find(tokens, p)
    OBVIOUS
  <2>2. hit.start \in 1 .. Len(tokens) /\ hit.end \in Nat
    BY <2>1, SlotsOfHit
  <2> DEFINE ranges == TokenRange(tokens, hit.start, hit.end)
  <2>3. AtMostOne(ranges)
    BY TokenRangeIs
  <2>4. \A range \in ranges : IsSoundSite(source, SiteOf(range, edits[hit]))
    <3>1. IsFiniteSet(edits[hit]) /\ edits[hit] \subseteq EditsFrom(tokens, hit.start, hit.end)
      BY DEF AreEdits
    <3> QED
      BY <2>2, <3>1, SiteIsSound
  <2>5. f[hit] = {SiteOf(range, edits[hit]) : range \in ranges}
    BY DEF HitSites
  <2> HIDE DEF f, ranges
  <2>6. AtMostOne(f[hit])
    BY <2>3, <2>5 DEF AtMostOne
  <2> QED
    BY <2>4, <2>5, <2>6, FewIsFinite DEF AreSound
<1>3. DOMAIN f = H /\ UNION Range(f) = SitesWith(tokens, H, edits)
  BY DEF Range, SitesWith
<1> HIDE DEF f
<1>4. IsFiniteSet(H)
  BY <1>1, FindIs, FS_Subset
<1>5. IsFiniteSet(Range(f)) /\ \A s \in Range(f) : IsFiniteSet(s)
  <2>1. \A s \in Range(f) : \E hit \in H : s = f[hit]
    BY <1>3 DEF Range
  <2> QED
    BY <1>2, <1>3, <1>4, <2>1, FiniteImage DEF AreSound
<1>6. IsFiniteSet(UNION Range(f))
  BY <1>5, FiniteUnion
<1>7. \A site \in UNION Range(f) : \E hit \in H : site \in f[hit]
  BY <1>3 DEF Range
<1> QED
  BY <1>2, <1>3, <1>6, <1>7 DEF AreSound

(* A rule: the sites to be patched with their edits, and the patched ones. *)
LEMMA RuleIsSound ==
    ASSUME NEW tokens, NEW source, IsText(source), Lie(tokens, source), NEW g, Sound(g), NEW q, Sound(q),
           NEW G, G \subseteq Find(tokens, g), NEW Q, Q \subseteq Find(tokens, q),
           NEW edits, AreEdits(tokens, G, edits)
    PROVE  AreSound(source, SitesWith(tokens, G, edits) \cup SitesWith(tokens, Q, [hit \in Q |-> {}]))
<1> DEFINE none == [hit \in Q |-> {}]
<1>1. AreEdits(tokens, Q, none)
  BY FS_EmptySet DEF AreEdits
<1> HIDE DEF none
<1>2. AreSound(source, SitesWith(tokens, Q, none))
  BY <1>1, HitSitesAreSound
<1>3. AreSound(source, SitesWith(tokens, G, edits))
  BY HitSitesAreSound
<1> QED
  BY <1>2, <1>3, BothAreSound DEF none

LEMMA SpeedIsSound ==
    ASSUME NEW tokens, NEW source, IsText(source), Lie(tokens, source)
    PROVE  AreSound(source, DetectSpeedSetting(tokens))
<1> DEFINE G == Find(tokens, SpeedGuarded)
           Q == Find(tokens, SpeedPatched)
           edits == [hit \in G |-> RemoveCapturedSpan(tokens, hit)]
<1>1. DetectSpeedSetting(tokens) =
         SitesWith(tokens, G, edits) \cup SitesWith(tokens, Q, [hit \in Q |-> {}])
  BY DEF DetectSpeedSetting, PatternSites, SitesWith
<1>2. AreEdits(tokens, G, edits)
  <2> SUFFICES ASSUME NEW hit \in G
               PROVE  /\ IsFiniteSet(edits[hit])
                      /\ edits[hit] \subseteq EditsFrom(tokens, hit.start, hit.end)
    BY DEF AreEdits
  <2>1. edits[hit] = SpanEdits(tokens, hit, "guard", <<>>)
    BY DEF RemoveCapturedSpan, SpanEdits
  <2>2. <<>> \in Seq(STRING)
    OBVIOUS
  <2> HIDE DEF edits
  <2> QED
    BY <2>1, <2>2, SpeedPatterns, SpanEditsAre
<1> HIDE DEF edits
<1> QED
  BY <1>1, <1>2, SpeedPatterns, RuleIsSound

(***************************************************************************)
(* What the edits write, and the rules that write it.                      *)
(***************************************************************************)
LEMMA Tuples ==
    ASSUME NEW Q
    PROVE  /\ \A a \in Q : <<a>> \in Seq(Q)
           /\ \A a, b \in Q : <<a, b>> \in Seq(Q)
           /\ \A a, b, c \in Q : <<a, b, c>> \in Seq(Q)
           /\ \A a, b, c, d \in Q : <<a, b, c, d>> \in Seq(Q)
           /\ \A a, b, c, d, e \in Q : <<a, b, c, d, e>> \in Seq(Q)
  OBVIOUS

LEMMA LongTuple ==
    ASSUME NEW Q, NEW a \in Q, NEW b \in Q, NEW c \in Q, NEW d \in Q, NEW e \in Q, NEW f \in Q,
           NEW g \in Q, NEW h \in Q, NEW i \in Q
    PROVE  <<a, b, c, a, b, d, a, b, e, f, g, g, f, h, i, f, i>> \in Seq(Q)
  OBVIOUS

LEMMA JoinedText == \A s, t : s \in Seq(STRING) /\ t \in Seq(STRING) => s \o t \in Seq(STRING)
  BY ConcatProperties

LEMMA AllowanceTextIs ==
    ASSUME NEW tokens, NEW hit,
           \A slot \in {"auth", "loading", "data"} : Units(tokens, hit, slot) \in Seq(STRING)
    PROVE  AllowanceText(tokens, hit) \in Seq(STRING)
<1> DEFINE auth == Units(tokens, hit, "auth")
           loading == Units(tokens, hit, "loading")
           data == Units(tokens, hit, "data")
           w1 == <<"?">>
           w2 == <<"!", "=", "null", "&", "&">>
           w3 == <<"?", ".", "requirements", "?", ".", "featureRequirements", "?", ".", "fast_mode",
                   "!", "=", "=", "!", "1", ":", "!", "0">>
           w4 == <<"!">>
           w5 == <<"&", "&", "(">>
           w6 == <<")">>
<1>1. w1 \in Seq(STRING) /\ w2 \in Seq(STRING) /\ w4 \in Seq(STRING) /\ w5 \in Seq(STRING) /\ w6 \in Seq(STRING)
  BY UnitsAssumption, Tuples
<1>2. w3 \in Seq(STRING)
  <2>1. /\ "?" \in STRING /\ "." \in STRING /\ "requirements" \in STRING
        /\ "featureRequirements" \in STRING /\ "fast_mode" \in STRING /\ "!" \in STRING
        /\ "=" \in STRING /\ "1" \in STRING /\ ":" \in STRING /\ "0" \in STRING
    BY UnitsAssumption
  <2> QED
    BY <2>1, LongTuple
<1>3. auth \in Seq(STRING) /\ loading \in Seq(STRING) /\ data \in Seq(STRING)
  OBVIOUS
<1>4. AllowanceText(tokens, hit) = w4 \o loading \o w5 \o (auth \o w1 \o data \o w2 \o data \o w3) \o w6
  BY DEF AllowanceText, AllowanceChoice
<1> HIDE DEF auth, loading, data, w1, w2, w3, w4, w5, w6
<1>5. auth \o w1 \o data \o w2 \o data \o w3 \in Seq(STRING)
  BY <1>1, <1>2, <1>3, JoinedText
<1> QED
  BY <1>1, <1>3, <1>4, <1>5, JoinedText

LEMMA AllowanceIsSound ==
    ASSUME NEW tokens, NEW source, IsText(source), Lie(tokens, source)
    PROVE  AreSound(source, DetectAllowance(tokens))
<1> DEFINE G == {hit \in Find(tokens, AllowanceGuarded) : AllowanceContext(tokens, hit)}
           Q == {hit \in Find(tokens, AllowancePatched) : AllowanceContext(tokens, hit)}
           edits == [hit \in G |-> AllowanceEdits(tokens, hit)]
<1>1. DetectAllowance(tokens) =
         SitesWith(tokens, G, edits) \cup SitesWith(tokens, Q, [hit \in Q |-> {}])
  BY DEF DetectAllowance, PatternSites, SitesWith
<1>2. AreEdits(tokens, G, edits)
  <2> SUFFICES ASSUME NEW hit \in G
               PROVE  /\ IsFiniteSet(edits[hit])
                      /\ edits[hit] \subseteq EditsFrom(tokens, hit.start, hit.end)
    BY DEF AreEdits
  <2>0. hit \in Find(tokens, AllowanceGuarded)
    OBVIOUS
  <2>1. edits[hit] = SpanEdits(tokens, hit, "guard", AllowanceText(tokens, hit))
    BY DEF AllowanceEdits, SpanEdits
  <2>2. AllowanceText(tokens, hit) \in Seq(STRING)
    <3>1. \A slot \in {"auth", "loading", "data"} : Units(tokens, hit, slot) \in Seq(STRING)
      BY <2>0, AllowancePatterns, SlotsOfHit
    <3> QED
      BY <3>1, AllowanceTextIs
  <2> HIDE DEF edits, G
  <2> QED
    BY <2>0, <2>1, <2>2, AllowancePatterns, SpanEditsAre
<1>a. G \subseteq Find(tokens, AllowanceGuarded) /\ Q \subseteq Find(tokens, AllowancePatched)
  OBVIOUS
<1> HIDE DEF edits, G, Q
<1> QED
  BY <1>1, <1>2, <1>a, AllowancePatterns, RuleIsSound

LEMMA RequestIsSound ==
    ASSUME NEW tokens, NEW source, IsText(source), Lie(tokens, source)
    PROVE  AreSound(source, DetectRequestAllowance(tokens))
<1> DEFINE G == Find(tokens, RequestState)
           edits == [hit \in G |-> RequestEdits(tokens, hit)]
<1>1. DetectRequestAllowance(tokens) = SitesWith(tokens, G, edits)
  BY DEF DetectRequestAllowance, HitSites, SitesWith
<1>2. AreEdits(tokens, G, edits)
  <2> SUFFICES ASSUME NEW hit \in G
               PROVE  /\ IsFiniteSet(edits[hit])
                      /\ edits[hit] \subseteq EditsFrom(tokens, hit.start, hit.end)
    BY DEF AreEdits
  <2>1. edits[hit] \in {{}, SpanEdits(tokens, hit, "guard", <<"!", "0">>)}
    BY DEF RequestEdits, SpanEdits
  <2>2. <<"!", "0">> \in Seq(STRING)
    BY UnitsAssumption, Tuples
  <2> DEFINE written == SpanEdits(tokens, hit, "guard", <<"!", "0">>)
  <2>3. IsFiniteSet(written) /\ written \subseteq EditsFrom(tokens, hit.start, hit.end)
    BY <2>2, RequestPattern, SpanEditsAre
  <2> HIDE DEF edits, written
  <2>4. edits[hit] \in {{}, written}
    BY <2>1 DEF written
  <2> QED
    BY <2>3, <2>4, FS_EmptySet
<1> HIDE DEF edits
<1> QED
  BY <1>1, <1>2, RequestPattern, HitSitesAreSound

LEMMA ConversationIsSound ==
    ASSUME NEW tokens, NEW source, IsText(source), Lie(tokens, source)
    PROVE  AreSound(source, DetectConversationFallback(tokens))
<1> DEFINE G == {hit \in Find(tokens, ConversationGuarded) : ConversationContext(tokens, hit)}
           Q == {hit \in Find(tokens, ConversationPatched) : ConversationContext(tokens, hit)}
           edits == [hit \in G |-> ConversationEdits(tokens, hit)]
<1>1. DetectConversationFallback(tokens) =
         SitesWith(tokens, G, edits) \cup SitesWith(tokens, Q, [hit \in Q |-> {}])
  BY DEF DetectConversationFallback, PatternSites, SitesWith
<1>2. AreEdits(tokens, G, edits)
  <2> SUFFICES ASSUME NEW hit \in G
               PROVE  /\ IsFiniteSet(edits[hit])
                      /\ edits[hit] \subseteq EditsFrom(tokens, hit.start, hit.end)
    BY DEF AreEdits
  <2> DEFINE units(slot) == Units(tokens, hit, slot)
             open == <<"(">>
             comma == <<",">>
             close == <<")">>
             call == units("fallback") \o open \o units("model") \o comma \o units("effective")
                     \o comma \o units("allowed") \o close
             both == SpanEdits(tokens, hit, "tier", units("base"))
                     \cup SpanEdits(tokens, hit, "guard", call)
  <2>0. hit \in Find(tokens, ConversationGuarded)
    OBVIOUS
  <2>1. edits[hit] = both
    BY DEF ConversationEdits, SpanEdits
  <2>2. \A slot \in {"base", "fallback", "model", "effective", "allowed"} : units(slot) \in Seq(STRING)
    BY <2>0, ConversationPatterns, SlotsOfHit
  <2>3. open \in Seq(STRING) /\ comma \in Seq(STRING) /\ close \in Seq(STRING)
    BY UnitsAssumption, Tuples
  <2>4. /\ units("base") \in Seq(STRING) /\ units("fallback") \in Seq(STRING) /\ units("model") \in Seq(STRING)
        /\ units("effective") \in Seq(STRING) /\ units("allowed") \in Seq(STRING)
    BY <2>2
  <2> HIDE DEF edits, G, units, open, comma, close
  <2>5. call \in Seq(STRING)
    BY <2>3, <2>4, JoinedText
  <2> HIDE DEF call
  <2>6. /\ IsFiniteSet(SpanEdits(tokens, hit, "tier", units("base")))
        /\ SpanEdits(tokens, hit, "tier", units("base")) \subseteq EditsFrom(tokens, hit.start, hit.end)
    BY <2>0, <2>4, ConversationPatterns, SpanEditsAre
  <2>7. /\ IsFiniteSet(SpanEdits(tokens, hit, "guard", call))
        /\ SpanEdits(tokens, hit, "guard", call) \subseteq EditsFrom(tokens, hit.start, hit.end)
    BY <2>0, <2>5, ConversationPatterns, SpanEditsAre
  <2> QED
    BY <2>1, <2>6, <2>7, FS_Union
<1>a. G \subseteq Find(tokens, ConversationGuarded) /\ Q \subseteq Find(tokens, ConversationPatched)
  OBVIOUS
<1> HIDE DEF edits, G, Q
<1> QED
  BY <1>1, <1>2, <1>a, ConversationPatterns, RuleIsSound

LEMMA IntelligenceIsSound ==
    ASSUME NEW tokens, NEW source, IsText(source), Lie(tokens, source)
    PROVE  AreSound(source, DetectIntelligenceMenu(tokens))
<1> DEFINE G == {hit \in Find(tokens, IntelligenceGuarded) : IntelligenceContext(tokens, hit)}
           Q == {hit \in Find(tokens, IntelligencePatched) : IntelligenceContext(tokens, hit)}
           edits == [hit \in G |-> RemoveCapturedSpan(tokens, hit)]
<1>1. DetectIntelligenceMenu(tokens) =
         SitesWith(tokens, G, edits) \cup SitesWith(tokens, Q, [hit \in Q |-> {}])
  BY DEF DetectIntelligenceMenu, PatternSites, SitesWith
<1>2. AreEdits(tokens, G, edits)
  <2> SUFFICES ASSUME NEW hit \in G
               PROVE  /\ IsFiniteSet(edits[hit])
                      /\ edits[hit] \subseteq EditsFrom(tokens, hit.start, hit.end)
    BY DEF AreEdits
  <2>0. hit \in Find(tokens, IntelligenceGuarded)
    OBVIOUS
  <2>1. edits[hit] = SpanEdits(tokens, hit, "guard", <<>>)
    BY DEF RemoveCapturedSpan, SpanEdits
  <2>2. <<>> \in Seq(STRING)
    OBVIOUS
  <2> HIDE DEF edits, G
  <2> QED
    BY <2>0, <2>1, <2>2, IntelligencePatterns, SpanEditsAre
<1>a. G \subseteq Find(tokens, IntelligenceGuarded) /\ Q \subseteq Find(tokens, IntelligencePatched)
  OBVIOUS
<1> HIDE DEF edits, G, Q
<1> QED
  BY <1>1, <1>2, <1>a, IntelligencePatterns, RuleIsSound

(***************************************************************************)
(* The brackets of an object, forwards: a matching bracket comes behind.   *)
(***************************************************************************)
Stacks == Seq(Brackets)

LEMMA StackChanges ==
    ASSUME NEW stack \in Stacks
    PROVE  /\ Front(stack) \in Stacks
           /\ \A text \in Brackets : Append(stack, text) \in Stacks /\ Append(stack, text) # <<>>
<1>1. Len(stack) - 1 \in Int /\ 1 \in Int /\ Len(stack) \in Nat
  BY LenProperties DEF Stacks
<1>2. \A i \in 1 .. Len(stack) - 1 : stack[i] \in Brackets
  BY <1>1, ElementOfSeq DEF Stacks
<1>3. Front(stack) \in Stacks
  BY <1>1, <1>2, SubSeqProperties DEF Front, Stacks
<1>4. \A text \in Brackets : Append(stack, text) \in Stacks /\ Append(stack, text) # <<>>
  BY AppendProperties DEF Stacks
<1> QED
  BY <1>3, <1>4

LEMMA NoBrackets == <<>> \in Stacks
  BY DEF Stacks

LEMMA UpdateStackIs ==
    /\ \A stack \in Stacks : \A text : UpdateStack(stack, text) \subseteq Stacks
    /\ \A text \in Brackets : \A after \in UpdateStack(<<>>, text) : after # <<>>
<1>1. ASSUME NEW stack \in Stacks, NEW text PROVE UpdateStack(stack, text) \subseteq Stacks
  BY StackChanges DEF UpdateStack, IsOpen
<1>2. ASSUME NEW text \in Brackets, NEW after \in UpdateStack(<<>>, text) PROVE after # <<>>
  BY StackChanges, NoBrackets DEF UpdateStack, IsOpen
<1> QED
  BY <1>1, <1>2

(* The bracket that closes one is behind it. *)
LEMMA MatchingCloseIs ==
    ASSUME NEW tokens, Len(tokens) \in Nat, NEW open \in 1 .. Len(tokens), tokens[open].text \in Brackets
    PROVE  MatchingClose(tokens, open) \subseteq open + 1 .. Len(tokens)
<1> DEFINE n == Len(tokens)
           D == [at : 1 .. n + 1, stack : Stacks]
           V == [s \in D |-> SUBSET (s.at .. n)]
           m == [s \in D |-> n + 1 - s.at]
           After(s) == UpdateStack(s.stack, tokens[s.at].text)
           Next1(s, after) == [at |-> s.at + 1, stack |-> after]
           Body(s, g) == IF s.at > n THEN {}
                         ELSE UNION {IF after = <<>> THEN {s.at} ELSE g[Next1(s, after)] : after \in After(s)}
           N == n + 1
           close == CHOOSE h : h = [s \in D |-> Body(s, h)]
           F == Typed(D, V) \cup {close}
           H == [s \in D |-> [g \in F |-> Body(s, g)]]
<1>0. MatchingClose(tokens, open) = close[[at |-> open, stack |-> <<>>]]
  BY DEF MatchingClose, Stacks
<1>1. n \in Nat
  OBVIOUS
<1>2. \A s \in D : s.at <= n =>
         \A after \in After(s) : Next1(s, after) \in D /\ Next1(s, after).at = s.at + 1
  <2>1. \A s \in D : After(s) \subseteq Stacks
    BY UpdateStackIs
  <2> HIDE DEF After, n
  <2> QED
    BY <1>1, <2>1
<1>3. \A s \in D : \A g \in Typed(D, V) : g[s] \subseteq s.at .. n
  BY DEF Typed
<1>a. \A s \in D : s.at \in 1 .. n + 1
  OBVIOUS
<1>o. /\ [at |-> open, stack |-> <<>>] \in D
      /\ \A after \in After([at |-> open, stack |-> <<>>]) : after # <<>>
  BY NoBrackets, UpdateStackIs
<1> HIDE DEF n, After, Next1, close, D, Body
<1>4. N \in Nat /\ m \in [D -> Nat] /\ \A x \in D : m[x] <= N /\ V[x] # {}
  <2>1. N \in Nat /\ \A x \in D : n + 1 - x.at \in Nat /\ n + 1 - x.at <= N
    BY <1>1, <1>a
  <2>2. \A x \in D : {} \in V[x]
    OBVIOUS
  <2> HIDE DEF V, N
  <2> QED
    BY <2>1, <2>2
<1>5. \A s \in D : \A g, h \in F :
         (\A y \in D : m[y] < m[s] => g[y] = h[y]) => H[s][g] = H[s][h]
  <2>1. SUFFICES ASSUME NEW s \in D, NEW g \in F, NEW h \in F,
                        \A y \in D : m[y] < m[s] => g[y] = h[y]
                 PROVE  Body(s, g) = Body(s, h)
    OBVIOUS
  <2>2. s.at <= n => \A after \in After(s) : Next1(s, after) \in D /\ m[Next1(s, after)] < m[s]
    BY <1>1, <1>2, <1>a
  <2> HIDE DEF m, H, F
  <2>3. s.at <= n => \A after \in After(s) : g[Next1(s, after)] = h[Next1(s, after)]
    BY <2>1, <2>2
  <2> DEFINE part(e, after) == IF after = <<>> THEN {s.at} ELSE e[Next1(s, after)]
  <2>4. s.at <= n => \A after \in After(s) : part(g, after) = part(h, after)
    BY <2>3
  <2>5. \A e : Body(s, e) = IF s.at > n THEN {} ELSE UNION {part(e, after) : after \in After(s)}
    BY DEF Body
  <2> HIDE DEF part
  <2>6. CASE s.at > n
    BY <2>5, <2>6
  <2>7. CASE s.at <= n
    <3>1. {part(g, after) : after \in After(s)} = {part(h, after) : after \in After(s)}
      BY <2>4, <2>7
    <3>2. ~(s.at > n)
      BY <1>1, <1>a, <2>7
    <3> QED
      BY <2>5, <3>1, <3>2
  <2> QED
    BY <1>1, <1>a, <2>6, <2>7
<1>6. \A s \in D : \A g \in Typed(D, V) : H[s][g] \in V[s]
  <2>1. SUFFICES ASSUME NEW s \in D, NEW g \in Typed(D, V) PROVE Body(s, g) \subseteq s.at .. n
    OBVIOUS
  <2>2. s.at <= n => \A after \in After(s) : g[Next1(s, after)] \subseteq s.at + 1 .. n
    BY <1>2, <1>3
  <2> HIDE DEF V, m, H, F
  <2> QED
    BY <1>1, <1>a, <2>2 DEF Body
<1>7. \A s \in D : \A g \in F : H[s][g] = Body(s, g)
  OBVIOUS
<1>8. Recurs(D, V, m, N, F, H)
  <2> HIDE DEF D, V, m, N, F, H
  <2> QED
    BY <1>4, <1>5, <1>6 DEF Recurs
<1> HIDE DEF H, V, m, N
<1>9. close = [s \in D |-> Body(s, close)]
  <2>1. \E f \in Typed(D, V) : f = [x \in D |-> H[x][f]]
    BY <1>8, RecursiveFunction
  <2>2. \E f : f = [s \in D |-> Body(s, f)]
    BY <1>7, <2>1
  <2> HIDE DEF F
  <2> QED
    BY <2>2 DEF close, Body
<1>10. close = [x \in D |-> H[x][close]]
  BY <1>7, <1>9
<1>11. \A s \in D : close[s] \in V[s]
  BY <1>8, <1>10, RecursiveFunctionIs
<1> QED
  <2> DEFINE first == [at |-> open, stack |-> <<>>]
  <2>1. first \in D /\ first.at = open /\ open <= n /\ close[first] = Body(first, close)
    BY <1>o, <1>9 DEF n
  <2>2. \A after \in After(first) : after # <<>> /\ close[Next1(first, after)] \subseteq open + 1 .. n
    BY <1>2, <1>11, <1>o, <2>1 DEF V
  <2> HIDE DEF first
  <2> QED
    BY <1>0, <1>1, <2>1, <2>2 DEF Body, first, n

(***************************************************************************)
(* The brackets of an object, backwards, and the fields between them.      *)
(***************************************************************************)
LEMMA OpeningForIs == \A text \in DOMAIN OpeningFor : OpeningFor[text] \in Brackets
  BY DEF OpeningFor, Brackets

Braces(tokens, i) == {k \in 1 .. i : TextAt(tokens, k) = "{"}

LEMMA BracesAre ==
    ASSUME NEW tokens, NEW i \in Nat, i # 0
    PROVE  /\ Braces(tokens, i - 1) \subseteq Braces(tokens, i)
           /\ TextAt(tokens, i) = "{" => {i} \subseteq Braces(tokens, i)
<1>1. i \in 1 .. i /\ 1 .. i - 1 \subseteq 1 .. i
  OBVIOUS
<1>2. \A k : k \in Braces(tokens, i) <=> k \in 1 .. i /\ TextAt(tokens, k) = "{"
  BY Zenon DEF Braces
<1>3. \A k \in Braces(tokens, i - 1) : k \in 1 .. i - 1 /\ TextAt(tokens, k) = "{"
  BY Zenon DEF Braces
<1> QED
  BY <1>1, <1>2, <1>3, Zenon

(* A brace that encloses a token is before it, or there. *)
LEMMA EnclosingBraceIs ==
    ASSUME NEW tokens, Len(tokens) \in Nat, NEW i \in 0 .. Len(tokens)
    PROVE  EnclosingBrace(tokens, i) \subseteq Braces(tokens, i)
<1> DEFINE n == Len(tokens)
           D == [at : 0 .. n, stack : Stacks]
           V == [s \in D |-> SUBSET Braces(tokens, s.at)]
           m == [s \in D |-> s.at]
           text(s) == TextAt(tokens, s.at)
           Prior(s) == [s EXCEPT !.at = s.at - 1]
           Closing(s) == [Prior(s) EXCEPT !.stack = Append(s.stack, OpeningFor[text(s)])]
           Opening(s) == [Prior(s) EXCEPT !.stack = Front(s.stack)]
           Closes(s) == text(s) \in DOMAIN OpeningFor
           Opens(s) == IsOpen(text(s)) /\ s.stack # <<>>
           Fits(s) == Last(s.stack) = text(s)
           Body(s, g) == IF s.at = 0 THEN {}
                         ELSE IF Closes(s) THEN g[Closing(s)]
                         ELSE IF Opens(s) THEN IF Fits(s) THEN g[Opening(s)] ELSE {}
                         ELSE IF text(s) = "{" THEN {s.at}
                         ELSE g[Prior(s)]
           brace == CHOOSE h : h = [s \in D |-> Body(s, h)]
           F == Typed(D, V) \cup {brace}
           H == [s \in D |-> [g \in F |-> Body(s, g)]]
<1>0. EnclosingBrace(tokens, i) = brace[[at |-> i, stack |-> <<>>]]
  BY DEF EnclosingBrace, Stacks
<1>1. n \in Nat
  OBVIOUS
<1>2. \A s \in D : s.at # 0 =>
         /\ Closes(s) => Closing(s) \in D /\ Closing(s).at = s.at - 1
         /\ Opening(s) \in D /\ Opening(s).at = s.at - 1
         /\ Prior(s) \in D /\ Prior(s).at = s.at - 1
  <2>1. SUFFICES ASSUME NEW s \in D, s.at # 0
                 PROVE  /\ Closes(s) => Closing(s) \in D /\ Closing(s).at = s.at - 1
                        /\ Opening(s) \in D /\ Opening(s).at = s.at - 1
                        /\ Prior(s) \in D /\ Prior(s).at = s.at - 1
    OBVIOUS
  <2>2. s.at - 1 \in 0 .. n /\ s.stack \in Stacks
    BY <1>1, <2>1
  <2>3. Prior(s) = [at |-> s.at - 1, stack |-> s.stack]
    OBVIOUS
  <2>4. Front(s.stack) \in Stacks
    BY <2>2, StackChanges
  <2>5. Closes(s) => Append(s.stack, OpeningFor[text(s)]) \in Stacks
    BY <2>2, StackChanges, OpeningForIs
  <2>6. \A stack : [Prior(s) EXCEPT !.stack = stack] = [at |-> s.at - 1, stack |-> stack]
    <3> HIDE DEF Prior
    <3> QED
      BY <2>3
  <2>7. /\ Opening(s) = [at |-> s.at - 1, stack |-> Front(s.stack)]
        /\ Closing(s) = [at |-> s.at - 1, stack |-> Append(s.stack, OpeningFor[text(s)])]
    <3> HIDE DEF Prior, text
    <3> QED
      BY <2>6
  <2> HIDE DEF Prior, Opening, Closing, Closes, n
  <2> QED
    BY <2>2, <2>3, <2>4, <2>5, <2>7
<1>3. \A s \in D : \A g \in Typed(D, V) : g[s] \subseteq Braces(tokens, s.at)
  BY DEF Typed
<1>a. \A s \in D : s.at \in 0 .. n
  OBVIOUS
<1>o. [at |-> i, stack |-> <<>>] \in D
  BY NoBrackets
<1>c. \A s \in D : s.at # 0 /\ text(s) = "{" => {s.at} \subseteq Braces(tokens, s.at)
  <2>1. \A s \in D : s.at \in Nat
    BY <1>1, <1>a
  <2> HIDE DEF D
  <2> QED
    BY <2>1, BracesAre, Zenon
<1>b. \A s \in D : s.at # 0 => Braces(tokens, s.at - 1) \subseteq Braces(tokens, s.at)
  <2>1. \A s \in D : s.at \in Nat
    BY <1>1, <1>a
  <2> HIDE DEF D
  <2> QED
    BY <2>1, BracesAre, Zenon
<1>d. \A s : \A g :
         Body(s, g) = IF s.at = 0 THEN {}
                      ELSE IF Closes(s) THEN g[Closing(s)]
                      ELSE IF Opens(s) THEN IF Fits(s) THEN g[Opening(s)] ELSE {}
                      ELSE IF text(s) = "{" THEN {s.at}
                      ELSE g[Prior(s)]
  OBVIOUS
<1> HIDE DEF n, text, Prior, Closing, Opening, Closes, Opens, Fits, brace, D, Body
<1>4. n \in Nat /\ m \in [D -> Nat] /\ \A x \in D : m[x] <= n /\ V[x] # {}
  <2>1. \A x \in D : x.at \in Nat /\ x.at <= n
    BY <1>1, <1>a
  <2>2. \A x \in D : {} \in V[x]
    OBVIOUS
  <2> HIDE DEF V
  <2> QED
    BY <1>1, <2>1, <2>2
<1>5. \A s \in D : \A g, h \in F :
         (\A y \in D : m[y] < m[s] => g[y] = h[y]) => H[s][g] = H[s][h]
  <2>1. SUFFICES ASSUME NEW s \in D, NEW g \in F, NEW h \in F,
                        \A y \in D : m[y] < m[s] => g[y] = h[y]
                 PROVE  Body(s, g) = Body(s, h)
    OBVIOUS
  <2>2. s.at # 0 => /\ Closes(s) => m[Closing(s)] < m[s]
                    /\ m[Opening(s)] < m[s] /\ m[Prior(s)] < m[s]
    BY <1>1, <1>2, <1>a
  <2> HIDE DEF m, H, F
  <2>3. s.at # 0 => /\ Closes(s) => g[Closing(s)] = h[Closing(s)]
                    /\ g[Opening(s)] = h[Opening(s)] /\ g[Prior(s)] = h[Prior(s)]
    BY <1>2, <2>1, <2>2
  <2> QED
    BY <1>d, <2>3
<1>6. \A s \in D : \A g \in Typed(D, V) : H[s][g] \in V[s]
  <2>1. SUFFICES ASSUME NEW s \in D, NEW g \in Typed(D, V) PROVE Body(s, g) \subseteq Braces(tokens, s.at)
    OBVIOUS
  <2>2. s.at # 0 => /\ Closes(s) => g[Closing(s)] \subseteq Braces(tokens, s.at - 1)
                    /\ g[Opening(s)] \subseteq Braces(tokens, s.at - 1)
                    /\ g[Prior(s)] \subseteq Braces(tokens, s.at - 1)
    BY <1>2, <1>3
  <2> HIDE DEF V, m, H, F
  <2>3. s.at # 0 => Braces(tokens, s.at - 1) \subseteq Braces(tokens, s.at)
    BY <1>b
  <2>4. s.at # 0 => /\ Closes(s) => g[Closing(s)] \subseteq Braces(tokens, s.at)
                    /\ g[Opening(s)] \subseteq Braces(tokens, s.at)
                    /\ g[Prior(s)] \subseteq Braces(tokens, s.at)
    BY <2>2, <2>3
  <2> QED
    BY <1>c, <1>d, <2>4
<1>7. \A s \in D : \A g \in F : H[s][g] = Body(s, g)
  OBVIOUS
<1>8. Recurs(D, V, m, n, F, H)
  <2> HIDE DEF V, m, F, H
  <2> QED
    BY <1>4, <1>5, <1>6 DEF Recurs
<1> HIDE DEF H, V, m
<1>9. brace = [s \in D |-> Body(s, brace)]
  <2>1. \E f \in Typed(D, V) : f = [x \in D |-> H[x][f]]
    BY <1>8, RecursiveFunction
  <2>2. \E f : f = [s \in D |-> Body(s, f)]
    BY <1>7, <2>1
  <2> HIDE DEF F
  <2> QED
    BY <2>2 DEF brace, Body
<1>10. brace = [x \in D |-> H[x][brace]]
  BY <1>7, <1>9
<1>11. \A s \in D : brace[s] \in V[s]
  BY <1>8, <1>10, RecursiveFunctionIs
<1> QED
  BY <1>0, <1>o, <1>11 DEF V

(* The fields of an object end inside it. *)
LEMMA FieldEndsIs ==
    ASSUME NEW tokens, NEW object, object.open \in Nat, object.close \in Nat, object.open < object.close
    PROVE  FieldEnds(tokens, object) \subseteq object.open + 1 .. object.close
<1> DEFINE first == object.open + 1
           last == object.close
           D == [at : first .. last, stack : Stacks]
           V == [s \in D |-> SUBSET (s.at .. last)]
           m == [s \in D |-> last - s.at]
           After(s) == UpdateStack(s.stack, tokens[s.at].text)
           Past(s, after) == [at |-> s.at + 1, stack |-> after]
           Comma(s) == IF s.stack = <<>> /\ tokens[s.at].text = "," THEN {s.at} ELSE {}
           Body(s, g) == IF s.at = last THEN {last}
                         ELSE Comma(s) \cup (UNION {g[Past(s, after)] : after \in After(s)})
           ends == CHOOSE h : h = [s \in D |-> Body(s, h)]
           F == Typed(D, V) \cup {ends}
           H == [s \in D |-> [g \in F |-> Body(s, g)]]
<1>0. FieldEnds(tokens, object) = ends[[at |-> first, stack |-> <<>>]]
  BY DEF FieldEnds, Stacks
<1>1. first \in Nat /\ last \in Nat /\ first <= last
  OBVIOUS
<1>2. \A s \in D : s.at # last =>
         \A after \in After(s) : Past(s, after) \in D /\ Past(s, after).at = s.at + 1
  <2>1. \A s \in D : After(s) \subseteq Stacks
    BY UpdateStackIs
  <2> HIDE DEF After, first, last
  <2> QED
    BY <1>1, <2>1
<1>3. \A s \in D : \A g \in Typed(D, V) : g[s] \subseteq s.at .. last
  BY DEF Typed
<1>a. \A s \in D : s.at \in first .. last
  OBVIOUS
<1>c. \A s \in D : Comma(s) \subseteq s.at .. last
  <2>1. \A s \in D : s.at \in s.at .. last
    BY <1>1, <1>a
  <2>2. \A s : Comma(s) \subseteq {s.at}
    OBVIOUS
  <2> HIDE DEF Comma, D
  <2> QED
    BY <2>1, <2>2
<1>o. [at |-> first, stack |-> <<>>] \in D
  BY <1>1, NoBrackets
<1>d. \A s : \A g : Body(s, g) = IF s.at = last THEN {last}
                                 ELSE Comma(s) \cup (UNION {g[Past(s, after)] : after \in After(s)})
  OBVIOUS
<1> HIDE DEF first, last, After, Past, Comma, ends, D, Body
<1>4. last \in Nat /\ m \in [D -> Nat] /\ \A x \in D : m[x] <= last /\ V[x] # {}
  <2>1. \A x \in D : last - x.at \in Nat /\ last - x.at <= last
    BY <1>1, <1>a
  <2>2. \A x \in D : {} \in V[x]
    OBVIOUS
  <2> HIDE DEF V
  <2> QED
    BY <1>1, <2>1, <2>2
<1>5. \A s \in D : \A g, h \in F :
         (\A y \in D : m[y] < m[s] => g[y] = h[y]) => H[s][g] = H[s][h]
  <2>1. SUFFICES ASSUME NEW s \in D, NEW g \in F, NEW h \in F,
                        \A y \in D : m[y] < m[s] => g[y] = h[y]
                 PROVE  Body(s, g) = Body(s, h)
    OBVIOUS
  <2>2. s.at # last => \A after \in After(s) : Past(s, after) \in D /\ m[Past(s, after)] < m[s]
    BY <1>1, <1>2, <1>a
  <2> HIDE DEF m, H, F
  <2>3. s.at # last => {g[Past(s, after)] : after \in After(s)} = {h[Past(s, after)] : after \in After(s)}
    BY <2>1, <2>2
  <2> QED
    BY <1>d, <2>3
<1>6. \A s \in D : \A g \in Typed(D, V) : H[s][g] \in V[s]
  <2>1. SUFFICES ASSUME NEW s \in D, NEW g \in Typed(D, V) PROVE Body(s, g) \subseteq s.at .. last
    OBVIOUS
  <2>2. s.at # last => \A after \in After(s) : g[Past(s, after)] \subseteq s.at + 1 .. last
    BY <1>2, <1>3
  <2> HIDE DEF V, m, H, F
  <2>3. s.at # last => \A after \in After(s) : g[Past(s, after)] \subseteq s.at .. last
    BY <1>1, <1>a, <2>2
  <2>4. s.at # last => UNION {g[Past(s, after)] : after \in After(s)} \subseteq s.at .. last
    BY <2>3
  <2>5. s.at = last => {last} \subseteq s.at .. last
    BY <1>1
  <2> QED
    BY <1>c, <1>d, <2>4, <2>5
<1>7. \A s \in D : \A g \in F : H[s][g] = Body(s, g)
  OBVIOUS
<1>8. Recurs(D, V, m, last, F, H)
  <2> HIDE DEF V, m, F, H
  <2> QED
    BY <1>4, <1>5, <1>6 DEF Recurs
<1> HIDE DEF H, V, m
<1>9. ends = [s \in D |-> Body(s, ends)]
  <2>1. \E f \in Typed(D, V) : f = [x \in D |-> H[x][f]]
    BY <1>8, RecursiveFunction
  <2>2. \E f : f = [s \in D |-> Body(s, f)]
    BY <1>7, <2>1
  <2> HIDE DEF F
  <2> QED
    BY <2>2 DEF ends, Body
<1>10. ends = [x \in D |-> H[x][ends]]
  BY <1>7, <1>9
<1>11. \A s \in D : ends[s] \in V[s]
  BY <1>8, <1>10, RecursiveFunctionIs
<1> QED
  BY <1>0, <1>o, <1>11 DEF V, first, last

(***************************************************************************)
(* The slash command, and all the rules.                                   *)
(***************************************************************************)
LEMMA FiniteStretch == \A i, j \in Nat : \A S \in SUBSET (i .. j) : IsFiniteSet(S)
<1>1. \A i, j \in Nat : i \in Int /\ j \in Int
  OBVIOUS
<1>2. \A i, j \in Nat : IsFiniteSet(i .. j)
  BY <1>1, FS_Interval
<1> QED
  BY <1>2, FS_Subset, Zenon

(* Where a field of an object begins: behind the bracket, or behind the field before it. *)
LEMMA FieldBefore ==
    ASSUME NEW open \in Nat, NEW ends, ends \subseteq Nat, NEW end \in Nat, open < end
    PROVE  \E i \in {open} \cup ends : i < end /\ \A j \in ends : j < end => j <= i
<1> DEFINE before == {i \in {open} \cup ends : i < end}
           gaps == {k \in Nat : end - k \in before}
<1>1. \A i \in before : i \in Nat /\ end - i \in Nat /\ end - (end - i) = i
  OBVIOUS
<1>2. end - open \in gaps
  BY <1>1
<1>3. PICK k \in gaps : \A l \in gaps : ~(l < k)
  BY <1>2, LeastNumber
<1>4. end - k \in {open} \cup ends /\ end - k < end
  BY <1>3
<1>5. ASSUME NEW j \in ends, j < end PROVE j <= end - k
  <2>1. j \in before
    BY <1>5
  <2>2. end - j \in gaps
    BY <1>1, <2>1
  <2> HIDE DEF gaps
  <2>3. j \in Nat /\ end - j \in Nat /\ k \in Nat /\ ~(end - j < k)
    BY <1>1, <1>3, <2>1, <2>2 DEF gaps
  <2> QED
    BY <2>3
<1> QED
  BY <1>4, <1>5

(* The identifier of a field is a token inside the object. *)
LEMMA IdentFieldIs ==
    ASSUME NEW tokens, NEW object, object.open \in Nat, object.close \in Nat, object.open < object.close,
           NEW key
    PROVE  IdentField(tokens, object, key) \subseteq object.open + 1 .. object.close - 1
<1> DEFINE ends == FieldEnds(tokens, object)
           first(end) == 1 + CHOOSE i \in {object.open} \cup ends :
                                 i < end /\ \A j \in ends : j < end => j <= i
           range(end) == [lo |-> first(end) + 2, hi |-> end]
<1>1. ends \subseteq object.open + 1 .. object.close
  BY FieldEndsIs
<1>2. Field(tokens, object, key) \subseteq {range(end) : end \in ends}
  BY DEF Field
<1>a. \A i \in {object.open} \cup ends : i \in Nat /\ i >= object.open
  BY <1>1
<1> HIDE DEF ends
<1>3. ASSUME NEW end \in ends PROVE first(end) \in Nat /\ first(end) > object.open
  <2>0. end \in Nat /\ object.open < end /\ ends \subseteq Nat
    BY <1>1
  <2>1. \E i \in {object.open} \cup ends : i < end /\ \A j \in ends : j < end => j <= i
    BY <2>0, FieldBefore
  <2> DEFINE before == CHOOSE i \in {object.open} \cup ends :
                           i < end /\ \A j \in ends : j < end => j <= i
  <2>2. before \in {object.open} \cup ends
    BY <2>1
  <2>3. first(end) = 1 + before
    OBVIOUS
  <2> HIDE DEF before, first
  <2>4. before \in Nat /\ before >= object.open
    BY <1>a, <2>2
  <2> QED
    BY <2>3, <2>4
<1> SUFFICES ASSUME NEW e \in IdentField(tokens, object, key)
             PROVE  e \in object.open + 1 .. object.close - 1
  OBVIOUS
<1>4. PICK r \in Field(tokens, object, key) : e \in SingleIdent(tokens, r)
  BY DEF IdentField
<1>5. PICK end \in ends : r = range(end)
  BY <1>2
<1>6. r.hi = r.lo + 1 /\ e = r.lo
  BY <1>4 DEF SingleIdent
<1>7. r.lo = first(end) + 2 /\ r.hi = end
  BY <1>5
<1>8. end \in Nat /\ end <= object.close
  BY <1>1
<1> HIDE DEF first, range
<1> QED
  BY <1>3, <1>6, <1>7, <1>8

Objects(n) == {object \in [open : 1 .. n, close : 1 .. n] : object.open < object.close}

LEMMA FewObjects == ASSUME NEW n \in Nat PROVE IsFiniteSet(Objects(n))
<1> DEFINE pairs == (1 .. n) \X (1 .. n)
           f == [p \in pairs |-> [open |-> p[1], close |-> p[2]]]
<1>1. IsFiniteSet(1 .. n)
  BY FiniteStretch
<1>2. IsFiniteSet(pairs)
  BY <1>1, FS_Product
<1>3. Objects(n) \subseteq Range(f)
  <2> SUFFICES ASSUME NEW object \in Objects(n) PROVE object \in Range(f)
    OBVIOUS
  <2>1. object.open \in 1 .. n /\ object.close \in 1 .. n
        /\ object = [open |-> object.open, close |-> object.close]
    BY DEF Objects
  <2>2. <<object.open, object.close>> \in pairs /\ f[<<object.open, object.close>>] = object
    BY <2>1
  <2> QED
    BY <2>2 DEF Range
<1>4. DOMAIN f = pairs
  OBVIOUS
<1> HIDE DEF f, pairs
<1> QED
  BY <1>2, <1>3, <1>4, FiniteImage, FS_Subset

(* An object is a stretch of the tokens, from its opening bracket to its closing one. *)
LEMMA EnclosingObjectIs ==
    ASSUME NEW tokens, Len(tokens) \in Nat, DOMAIN tokens = 1 .. Len(tokens), NEW i \in DOMAIN tokens
    PROVE  EnclosingObject(tokens, i) \subseteq Objects(Len(tokens))
<1>0. i \in 1 .. Len(tokens)
  OBVIOUS
<1> SUFFICES ASSUME NEW object \in EnclosingObject(tokens, i)
             PROVE  object \in Objects(Len(tokens))
  OBVIOUS
<1>1. PICK open \in EnclosingBrace(tokens, i) :
         \E close \in MatchingClose(tokens, open) : object = [open |-> open, close |-> close]
  BY DEF EnclosingObject
<1>2. PICK close \in MatchingClose(tokens, open) : object = [open |-> open, close |-> close]
  BY <1>1
<1>3. open \in Braces(tokens, i)
  BY EnclosingBraceIs
<1>4. open \in 1 .. Len(tokens) /\ tokens[open].text \in Brackets
  <2>1. open \in 1 .. i /\ TextAt(tokens, open) = "{"
    BY <1>3, Zenon DEF Braces
  <2>2. open \in DOMAIN tokens
    <3>1. open \in 1 .. i
      BY <2>1, Zenon
    <3>2. open \in 1 .. Len(tokens)
      BY <1>0, <3>1
    <3> QED
      BY <3>2
  <2>3. tokens[open].text = "{"
    BY <2>1, <2>2, Zenon DEF TextAt
  <2>4. "{" \in Brackets
    BY Zenon DEF Brackets
  <2> QED
    BY <2>2, <2>3, <2>4, Zenon
<1>5. close \in open + 1 .. Len(tokens)
  BY <1>2, <1>4, MatchingCloseIs
<1>6. close \in 1 .. Len(tokens) /\ open < close
  BY <1>4, <1>5
<1> QED
  BY <1>2, <1>4, <1>6 DEF Objects

LEMMA UnionIsSound ==
    ASSUME NEW source, NEW I, IsFiniteSet(I), NEW f, DOMAIN f = I, \A i \in I : AreSound(source, f[i])
    PROVE  AreSound(source, UNION Range(f))
<1>1. \A s \in Range(f) : AreSound(source, s)
  BY DEF Range
<1>2. IsFiniteSet(UNION Range(f))
  BY <1>1, FiniteImage, FiniteUnion DEF AreSound
<1>3. \A site \in UNION Range(f) : \E s \in Range(f) : site \in s
  OBVIOUS
<1> QED
  BY <1>1, <1>2, <1>3 DEF AreSound

LEMMA EditIsFrom ==
    ASSUME NEW tokens, NEW start, NEW end, NEW b \in start .. end - 1, NEW e \in start .. end, b < e,
           NEW text \in Seq(STRING)
    PROVE  EditOf(Stretch(tokens, b, e), text) \in EditsFrom(tokens, start, end)
<1> DEFINE se == <<b, e, text>>
<1>1. se \in {x \in (start .. end - 1) \X (start .. end) \X Seq(STRING) : x[1] < x[2]}
  OBVIOUS
<1>2. se[1] = b /\ se[2] = e /\ se[3] = text
  OBVIOUS
<1> HIDE DEF se
<1>3. EditOf(Stretch(tokens, b, e), text) = EditOf(Stretch(tokens, se[1], se[2]), se[3])
  BY <1>2
<1> QED
  BY <1>1, <1>3 DEF EditsFrom

EnableEdits(tokens, idents) ==
    UNION {{EditOf(range, <<"!", "0">>) : range \in TokenRange(tokens, e, e + 1)} : e \in idents}

LEMMA EnableEditsAre ==
    ASSUME NEW tokens, NEW open \in Nat, NEW close \in Nat, NEW idents, idents \subseteq open + 1 .. close - 1
    PROVE  /\ IsFiniteSet(EnableEdits(tokens, idents))
           /\ EnableEdits(tokens, idents) \subseteq EditsFrom(tokens, open, close + 1)
<1> DEFINE text == <<"!", "0">>
           edits == [e \in idents |-> {EditOf(range, text) : range \in TokenRange(tokens, e, e + 1)}]
<1>0. text \in Seq(STRING)
  BY UnitsAssumption, Tuples
<1>1. EnableEdits(tokens, idents) = UNION Range(edits) /\ DOMAIN edits = idents
  BY DEF EnableEdits, Range
<1>2. \A e \in idents : edits[e] = {EditOf(range, text) : range \in TokenRange(tokens, e, e + 1)}
  OBVIOUS
<1> HIDE DEF edits, text
<1>3. ASSUME NEW e \in idents PROVE IsFiniteSet(edits[e]) /\ edits[e] \subseteq EditsFrom(tokens, open, close + 1)
  <2> DEFINE ranges == TokenRange(tokens, e, e + 1)
  <2>1. AtMostOne(ranges) /\ \A range \in ranges : range = Stretch(tokens, e, e + 1)
    BY TokenRangeIs
  <2>2. edits[e] = {EditOf(range, text) : range \in ranges}
    BY <1>2
  <2> DEFINE end == close + 1
             after == e + 1
  <2>3. e \in open .. end - 1 /\ after \in open .. end /\ e < after
    OBVIOUS
  <2>4. EditOf(Stretch(tokens, e, e + 1), text) \in EditsFrom(tokens, open, close + 1)
    <3> HIDE DEF end, after
    <3>1. EditOf(Stretch(tokens, e, after), text) \in EditsFrom(tokens, open, end)
      BY <1>0, <2>3, EditIsFrom
    <3> QED
      BY <3>1 DEF end, after
  <2> HIDE DEF ranges
  <2>5. AtMostOne(edits[e])
    BY <2>1, <2>2 DEF AtMostOne
  <2>6. edits[e] \subseteq EditsFrom(tokens, open, close + 1)
    BY <2>1, <2>2, <2>4
  <2> QED
    BY <2>5, <2>6, FewIsFinite
<1>4. IsFiniteSet(idents)
  <2>1. close - 1 \in Int /\ open + 1 \in Int
    OBVIOUS
  <2> QED
    BY <2>1, FS_Interval, FS_Subset
<1>5. \A s \in Range(edits) : IsFiniteSet(s) /\ s \subseteq EditsFrom(tokens, open, close + 1)
  BY <1>1, <1>3 DEF Range
<1>6. IsFiniteSet(UNION Range(edits))
  BY <1>1, <1>4, <1>5, FiniteImage, FiniteUnion
<1> QED
  BY <1>1, <1>5, <1>6

(* The site of an object. *)
ObjectSites(tokens, object, edits) ==
    {SiteOf(range, edits) : range \in TokenRange(tokens, object.open, object.close + 1)}

LEMMA ObjectIsSound ==
    ASSUME NEW tokens, NEW source, IsText(source), Lie(tokens, source), NEW object \in Objects(Len(tokens)),
           NEW edits, IsFiniteSet(edits), edits \subseteq EditsFrom(tokens, object.open, object.close + 1)
    PROVE  AreSound(source, ObjectSites(tokens, object, edits))
<1> DEFINE ranges == TokenRange(tokens, object.open, object.close + 1)
           sites == ObjectSites(tokens, object, edits)
<1>1. object.open \in 1 .. Len(tokens) /\ object.close + 1 \in Nat
  BY DEF Objects
<1>2. \A range \in ranges : IsSoundSite(source, SiteOf(range, edits))
  BY <1>1, SiteIsSound
<1>3. AtMostOne(ranges)
  BY TokenRangeIs
<1>4. sites = {SiteOf(range, edits) : range \in ranges}
  BY DEF ObjectSites
<1> HIDE DEF ranges, sites
<1>5. AtMostOne(sites)
  BY <1>3, <1>4 DEF AtMostOne
<1>6. AreSound(source, sites)
  BY <1>2, <1>4, <1>5, FewIsFinite DEF AreSound
<1> QED
  BY <1>6 DEF sites

CommandSites(tokens, object) ==
    LET enabled == IdentField(tokens, object, "enabled")
    IN  CASE BoolField(tokens, object, "enabled") = {TRUE} -> ObjectSites(tokens, object, {})
          [] BoolField(tokens, object, "enabled") # {TRUE} /\ enabled # {} ->
               ObjectSites(tokens, object, EnableEdits(tokens, enabled))
          [] OTHER -> {}

LEMMA CommandIsSound ==
    ASSUME NEW tokens, NEW source, IsText(source), Lie(tokens, source), NEW object \in Objects(Len(tokens))
    PROVE  AreSound(source, CommandSites(tokens, object))
<1> DEFINE enabled == IdentField(tokens, object, "enabled")
<1>1. object.open \in Nat /\ object.close \in Nat /\ object.open < object.close
  BY DEF Objects
<1>2. enabled \subseteq object.open + 1 .. object.close - 1
  BY <1>1, IdentFieldIs
<1>3. CommandSites(tokens, object) \in
         {ObjectSites(tokens, object, {}), ObjectSites(tokens, object, EnableEdits(tokens, enabled)), {}}
  BY DEF CommandSites
<1> HIDE DEF enabled
<1>4. AreSound(source, ObjectSites(tokens, object, {}))
  BY FS_EmptySet, ObjectIsSound
<1>5. AreSound(source, ObjectSites(tokens, object, EnableEdits(tokens, enabled)))
  BY <1>1, <1>2, EnableEditsAre, ObjectIsSound
<1>6. AreSound(source, {})
  BY FS_EmptySet DEF AreSound
<1> QED
  BY <1>3, <1>4, <1>5, <1>6

LEMMA SlashCommandIsSound ==
    ASSUME NEW tokens, NEW source, IsText(source), Lie(tokens, source)
    PROVE  AreSound(source, DetectSlashCommand(tokens))
<1>0. Len(tokens) \in Nat /\ DOMAIN tokens = 1 .. Len(tokens)
  BY DEF Lie
<1>1. ASSUME NEW i \in DOMAIN tokens PROVE AreSound(source, SlashCommandAt(tokens, i))
  <2> DEFINE O == {o \in EnclosingObject(tokens, i) : IsSlashCommand(tokens, o)}
             f == [object \in O |-> CommandSites(tokens, object)]
  <2>1. SlashCommandAt(tokens, i) = UNION {CommandSites(tokens, object) : object \in O}
    BY DEF SlashCommandAt, CommandSites, ObjectSites, EnableEdits
  <2>2. UNION Range(f) = UNION {CommandSites(tokens, object) : object \in O} /\ DOMAIN f = O
    BY DEF Range
  <2>3. O \subseteq Objects(Len(tokens))
    BY <1>0, EnclosingObjectIs
  <2>4. \A object \in O : f[object] = CommandSites(tokens, object)
    OBVIOUS
  <2> HIDE DEF O, f
  <2>5. IsFiniteSet(O)
    BY <1>0, <2>3, FewObjects, FS_Subset
  <2>6. \A object \in O : AreSound(source, f[object])
    BY <2>3, <2>4, CommandIsSound
  <2> QED
    BY <2>1, <2>2, <2>5, <2>6, UnionIsSound
<1> DEFINE I == {k \in DOMAIN tokens : tokens[k].text = "requiresEmptyComposer"}
           f == [i \in I |-> SlashCommandAt(tokens, i)]
<1>2. DetectSlashCommand(tokens) = UNION Range(f) /\ DOMAIN f = I
  BY DEF DetectSlashCommand, Range
<1>3. \A i \in I : i \in DOMAIN tokens /\ f[i] = SlashCommandAt(tokens, i)
  OBVIOUS
<1> HIDE DEF I, f
<1>4. IsFiniteSet(I)
  <2>1. I \subseteq 1 .. Len(tokens)
    BY <1>0, <1>3
  <2> QED
    BY <1>0, <2>1, FiniteStretch
<1> QED
  BY <1>1, <1>2, <1>3, <1>4, UnionIsSound

(***************************************************************************)
(* Whatever the script, each of the six rules finds finitely many sites,   *)
(* and none that the planner refuses: every site is a stretch of tokens,   *)
(* and every edit of it replaces a stretch of those.  (DetectAssumption,   *)
(* of the rules that the code has.)                                        *)
(***************************************************************************)
THEOREM RulesAreSound ==
    ASSUME NEW source, IsText(source), NEW f \in FastFeatures
    PROVE  /\ IsDetection(FastDetect(f, source))
           /\ \A site \in FastDetect(f, source) : ~InvalidSite(source, site)
<1> DEFINE tokens == Tokens(source)
<1>1. Lie(tokens, source)
  BY TokensLie
<1>2. FastDetect(f, source) =
         CASE f = "speed" -> DetectSpeedSetting(tokens)
           [] f = "allowance" -> DetectAllowance(tokens)
           [] f = "request" -> DetectRequestAllowance(tokens)
           [] f = "conversation" -> DetectConversationFallback(tokens)
           [] f = "intelligence" -> DetectIntelligenceMenu(tokens)
           [] f = "slashCommand" -> DetectSlashCommand(tokens)
  BY DEF FastDetect
<1>3. f \in {"speed", "allowance", "request", "conversation", "intelligence", "slashCommand"}
  BY DEF FastFeatures, FastCore
<1> HIDE DEF tokens
<1>4. FastDetect(f, source) \in
         {DetectSpeedSetting(tokens), DetectAllowance(tokens), DetectRequestAllowance(tokens),
          DetectConversationFallback(tokens), DetectIntelligenceMenu(tokens), DetectSlashCommand(tokens)}
  BY <1>2, <1>3
<1>5. AreSound(source, FastDetect(f, source))
  BY <1>1, <1>4, SpeedIsSound, AllowanceIsSound, RequestIsSound, ConversationIsSound,
     IntelligenceIsSound, SlashCommandIsSound
<1> QED
  BY <1>5 DEF AreSound, IsSoundSite, IsDetection, Sites
=============================================================================
