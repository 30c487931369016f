------------------------------- MODULE Grammar -------------------------------
(***************************************************************************)
(* The simulated grammar backend (sim/grammar.py): what text a constraint   *)
(* generates, which constraints it refuses, and, as a reference, what the   *)
(* constraint means.                                                        *)
(*                                                                         *)
(* A schema is a record holding only the keywords it uses.  "type" is a     *)
(* sequence of names, "properties" a sequence of <<name, schema>>, numeric  *)
(* bounds are in thousandths.  A value is a tuple that begins with its type. *)
(* A text is a sequence of characters; punctuation, a property name and a   *)
(* scalar count as one character each.  A draw over a range is represented  *)
(* by the two ends of the range.                                            *)
(***************************************************************************)
EXTENDS Tokenizer

CONSTANTS
    Words,      \* the texts that strings are made of
    Letters,    \* string.ascii_letters
    Digits      \* string.digits

MAX_DEPTH == 12
STAR_MAX == 3
Unit == 1000
EPSILON == 1

UNSUPPORTED_KEYWORDS ==
    {"multipleOf", "uniqueItems", "prefixItems", "contains", "minContains", "maxContains", "not",
     "if", "then", "else", "dependentRequired", "dependentSchemas", "patternProperties",
     "propertyNames", "minProperties", "maxProperties"}

Refused == <<"refused">>
String(text) == <<"string", text>>
Ends(lo, hi) == {lo, hi}
Has(s, k) == k \in DOMAIN s
Get(s, k, default) == IF Has(s, k) THEN s[k] ELSE default
\* int() of a bound: toward zero.
Truncated(x) == IF x < 0 THEN -((-x) \div Unit) ELSE x \div Unit
\* One choice from each set of a sequence of sets.
Picked(sets) == FoldLeft(LAMBDA acc, S : {Append(a, x) : a \in acc, x \in S}, {<<>>}, sets)
Repeated(x, n) == [i \in 1..n |-> x]

------------------------------------------------------------------------------
(* Regular expressions, as syntax trees.  "{}" has both bounds, "{,}" only  *)
(* the lower one.                                                           *)

Repeaters == {"?", "*", "+", "{}", "{,}"}
Escape(e) == CASE e = "d" -> Digits
               [] e = "w" -> Letters \cup Digits \cup {"_"}
               [] e = "s" -> {" "}
               [] e = "D" -> Letters
               [] e = "W" -> {" ", "-"}
               [] e = "S" -> Letters \cup Digits

CharDraws(r) == CASE r[1] = "char" -> {r[2]}
                  [] r[1] = "dot" -> {w[1] : w \in Words}
                  [] r[1] = "escape" -> Escape(r[2])
                  [] r[1] = "class" -> r[2]
                  [] r[1] = "not in" -> (Letters \cup Digits) \ r[2]

Counts(r) == CASE r[1] = "?" -> Ends(0, 1)
               [] r[1] = "*" -> Ends(0, STAR_MAX)
               [] r[1] = "+" -> Ends(1, STAR_MAX)
               [] r[1] = "{}" -> Ends(r[3], r[4])
               [] r[1] = "{,}" -> Ends(r[3], r[3] + STAR_MAX)

\* What makes the generator raise: a construct it does not support, a class
\* that admits nothing, an inverted range.
RECURSIVE Parses(_)
Parses(r) == CASE r[1] \in {"alt", "seq"} -> \A i \in DOMAIN r[2] : Parses(r[2][i])
               [] r[1] \in Repeaters -> (r[1] = "{}" => r[3] <= r[4]) /\ Parses(r[2])
               [] r[1] = "unsupported" -> FALSE
               [] OTHER -> CharDraws(r) # {}

RECURSIVE RegexDraws(_)
RegexDraws(r) ==
    LET Joined(rs) == {FlattenSeq(p) : p \in Picked([i \in DOMAIN rs |-> RegexDraws(rs[i])])} IN
    CASE r[1] = "alt" -> UNION {RegexDraws(r[2][i]) : i \in DOMAIN r[2]}
      [] r[1] = "seq" -> Joined(r[2])
      [] r[1] \in Repeaters -> UNION {Joined(Repeated(r[2], n)) : n \in Counts(r)}
      [] OTHER -> {<<c>> : c \in CharDraws(r)}

\* The language of a pattern, which re.fullmatch decides.
Accepts(r, c) == CASE r[1] = "char" -> c = r[2]
                   [] r[1] = "dot" -> TRUE
                   [] r[1] = "escape" -> IF r[2] \in {"D", "W", "S"}
                                         THEN c \notin Escape([D |-> "d", W |-> "w", S |-> "s"][r[2]])
                                         ELSE c \in Escape(r[2])
                   [] r[1] = "class" -> c \in r[2]
                   [] r[1] = "not in" -> c \notin r[2]
RECURSIVE Matches(_, _)
Matches(r, w) ==
    CASE r[1] = "alt" -> \E i \in DOMAIN r[2] : Matches(r[2][i], w)
      [] r[1] = "seq" -> IF r[2] = <<>> THEN w = <<>>
                         ELSE \E k \in 0..Len(w) : /\ Matches(Head(r[2]), SubSeq(w, 1, k))
                                                   /\ Matches(<<"seq", Tail(r[2])>>, SubSeq(w, k + 1, Len(w)))
      [] r[1] \in Repeaters ->
            LET least == CASE r[1] \in {"?", "*"} -> 0 [] r[1] = "+" -> 1 [] OTHER -> r[3]
                most == CASE r[1] = "?" -> 1 [] r[1] = "{}" -> r[4] [] OTHER -> least + Len(w)
            IN \E n \in least..most : Matches(<<"seq", Repeated(r[2], n)>>, w)
      [] OTHER -> Len(w) = 1 /\ Accepts(r, w[1])

RegexMatches(r) ==
    IF ~Parses(r) THEN {Refused}
    ELSE {IF Matches(r, w) THEN String(w) ELSE Refused : w \in RegexDraws(r)}

------------------------------------------------------------------------------
(* JSON schema: the generator.                                              *)

\* A union of types stands for its first that is not null.
NamedType(s) ==
    LET named == SelectSeq(s.type, LAMBDA t : t # "null") IN
    IF ~Has(s, "type") THEN "object"
    ELSE IF Len(s.type) = 1 THEN s.type[1]
    ELSE IF named = <<>> THEN "null" ELSE named[1]

\* The keyword that decides, in the order the code looks for them.
Deciding(s) ==
    LET found == SelectSeq(<<"ref", "const", "enum", "anyOf", "oneOf", "allOf">>, LAMBDA k : Has(s, k)) IN
    IF found # <<>> THEN found[1]
    ELSE IF DOMAIN s \cap UNSUPPORTED_KEYWORDS # {} THEN "unsupported" ELSE NamedType(s)

Resolves(s, root) == s.ref \in DOMAIN Get(root, "defs", <<>>)
Target(s, root) == root.defs[s.ref]

\* dict.update: a name already there keeps its place and takes the new value.
Updated(a, b) ==
    LET names(x) == {x[i][1] : i \in DOMAIN x} IN
    [i \in DOMAIN a |-> IF a[i][1] \in names(b) THEN SelectSeq(b, LAMBDA p : p[1] = a[i][1])[1] ELSE a[i]]
    \o SelectSeq(b, LAMBDA p : p[1] \notin names(a))

\* The inclusive range of a number: an exclusive bound lies one step outside
\* it, and span is its width when one side is open.
Bounds(s, whole, step, span) ==
    LET Read(x) == IF whole THEN Truncated(x) ELSE x
        lows == {Read(s[k]) + (IF k = "minimum" THEN 0 ELSE step) :
                    k \in {"minimum", "exclusiveMinimum"} \cap DOMAIN s}
        highs == {Read(s[k]) - (IF k = "maximum" THEN 0 ELSE step) :
                    k \in {"maximum", "exclusiveMaximum"} \cap DOMAIN s}
        low == IF lows # {} THEN Max(lows) ELSE IF highs = {} THEN 0 ELSE Least(0, Min(highs) - span)
    IN <<low, IF highs # {} THEN Min(highs) ELSE low + span>>
Numbers(tag, range) ==
    IF range[2] < range[1] THEN {Refused} ELSE {<<tag, n>> : n \in Ends(range[1], range[2])}

RECURSIVE Padded(_, _)
Padded(text, minimum) ==
    IF Len(text) >= minimum THEN {text} ELSE UNION {Padded(text \o <<" ">> \o w, minimum) : w \in Words}

KnownFormats == {"date-time", "date", "email", "uuid"}
Strings(s) ==
    LET minimum == Get(s, "minLength", 0)
        maximum == Get(s, "maxLength", Most(minimum, 24))
    IN IF Has(s, "pattern") THEN RegexMatches(s.pattern)
       ELSE IF Get(s, "format", "") \in KnownFormats THEN {String(<<"an example of", s.format>>)}
       ELSE IF maximum < minimum THEN {Refused}
       ELSE {String(SubSeq(t, 1, Least(maximum, Len(t)))) : t \in UNION {Padded(w, minimum) : w \in Words}}

\* Every value the generator can draw for a schema, and Refused if it can raise.
RECURSIVE Generated(_, _, _)
Generated(s, root, depth) ==
    LET key == Deciding(s)
        Inner(t) == Generated(t, root, depth + 1)
        AllOf(schemas) == Picked([i \in DOMAIN schemas |-> Inner(schemas[i])])
        Objects ==
            LET properties == Get(s, "properties", <<>>)
                names == [i \in DOMAIN properties |-> properties[i][1]]
            IN {IF Contains(vs, Refused) \/ ~(Get(s, "required", {}) \subseteq ToSet(names)) THEN Refused
                ELSE <<"object", Zip(names, vs)>> :
                   vs \in AllOf([i \in DOMAIN properties |-> properties[i][2]])}
        Arrays ==
            LET low == Get(s, "minItems", 1)
                high == Get(s, "maxItems", Most(low, 3))
                element == IF Has(s, "items") THEN Inner(s.items) ELSE {String(w) : w \in Words}
            IN IF high < low THEN {Refused}
               ELSE {IF Contains(vs, Refused) THEN Refused ELSE <<"array", vs>> :
                        vs \in UNION {Picked(Repeated(element, n)) : n \in Ends(low, high)}}
    IN IF depth > MAX_DEPTH THEN {Refused} ELSE
       CASE key = "ref" ->
               IF Resolves(s, root) THEN Inner(Target(s, root)) ELSE {Refused}
         [] key = "const" -> {s.const}
         [] key = "enum" -> IF s.enum = <<>> THEN {Refused} ELSE ToSet(s.enum)
         [] key \in {"anyOf", "oneOf"} ->
               IF s[key] = <<>> THEN {Refused} ELSE Inner(s[key][1])
         [] key = "allOf" ->
               {IF \E i \in DOMAIN vs : vs[i][1] # "object" THEN Refused
                ELSE <<"object", FoldLeft(LAMBDA acc, v : Updated(acc, v[2]), <<>>, vs)>> : vs \in AllOf(s.allOf)}
         [] key = "object" ->
               IF Get(s, "properties", <<>>) = <<>> /\ Get(s, "required", {}) = {}
               THEN {<<"object", <<<<"result", String(w)>>>>>> : w \in Words} ELSE Objects
         [] key = "array" -> Arrays
         [] key = "string" -> Strings(s)
         [] key = "integer" -> Numbers("integer", Bounds(s, TRUE, 1, 100))
         [] key = "number" -> Numbers("number", Bounds(s, FALSE, EPSILON, 100 * Unit))
         [] key = "boolean" -> {<<"boolean", b>> : b \in BOOLEAN}
         [] key = "null" -> {<<"null">>}
         [] OTHER -> {Refused}

------------------------------------------------------------------------------
(* The backend's check of its own values, and the meaning of a schema.      *)

Magnitude(v) == IF v[1] = "integer" THEN v[2] * Unit ELSE v[2]
Numeric(v) == v[1] \in {"integer", "number"}
InBounds(v, s) ==
    /\ Has(s, "minimum") => Magnitude(v) >= s.minimum
    /\ Has(s, "maximum") => Magnitude(v) <= s.maximum
    /\ Has(s, "exclusiveMinimum") => Magnitude(v) > s.exclusiveMinimum
    /\ Has(s, "exclusiveMaximum") => Magnitude(v) < s.exclusiveMaximum
Sized(n, s, least, most) == (Has(s, least) => n >= s[least]) /\ (Has(s, most) => n <= s[most])
Names(v) == {v[2][i][1] : i \in DOMAIN v[2]}
ValueOf(v, name) == SelectSeq(v[2], LAMBDA p : p[1] = name)[1][2]

\* The first branch of a combinator and the deciding keyword alone are
\* checked; a merged object is not checked at all.
RECURSIVE Validated(_, _, _)
Validated(v, s, root) ==
    LET key == Deciding(s)
        Properties == Get(s, "properties", <<>>)
    IN CASE key = "ref" -> Validated(v, Target(s, root), root)
         [] key = "const" -> v = s.const
         [] key = "enum" -> Contains(s.enum, v)
         [] key \in {"anyOf", "oneOf"} -> Validated(v, s[key][1], root)
         [] key = "object" ->
               /\ v[1] = "object" /\ Get(s, "required", {}) \subseteq Names(v)
               /\ \A i \in DOMAIN Properties : Properties[i][1] \in Names(v) =>
                      Validated(ValueOf(v, Properties[i][1]), Properties[i][2], root)
         [] key = "array" ->
               /\ v[1] = "array" /\ Sized(Len(v[2]), s, "minItems", "maxItems")
               /\ Has(s, "items") => \A i \in DOMAIN v[2] : Validated(v[2][i], s.items, root)
         [] key = "string" ->
               /\ v[1] = "string" /\ Sized(Len(v[2]), s, "minLength", "maxLength")
               /\ Has(s, "pattern") => Matches(s.pattern, v[2])
         [] key = "integer" -> v[1] = "integer" /\ InBounds(v, s)
         [] key = "number" -> Numeric(v) /\ InBounds(v, s)
         [] key \in {"boolean", "null"} -> v[1] = key
         [] OTHER -> TRUE

\* Every keyword counts, whatever stands beside it (JSON Schema, 2020-12).
IsOf(v, t) == v[1] = t \/ (t = "number" /\ Numeric(v)) \/ (t = "integer" /\ Numeric(v) /\ Magnitude(v) % Unit = 0)
RECURSIVE Conforms(_, _, _)
Conforms(v, s, root) ==
    LET Meets(t) == Conforms(v, t, root)
        Branches(k) == {i \in DOMAIN s[k] : Meets(s[k][i])}
        Declared == {s.properties[i][1] : i \in DOMAIN s.properties}
    IN /\ Has(s, "ref") => Resolves(s, root) /\ Meets(Target(s, root))
       /\ Has(s, "const") => v = s.const
       /\ Has(s, "enum") => Contains(s.enum, v)
       /\ Has(s, "anyOf") => Branches("anyOf") # {}
       /\ Has(s, "oneOf") => Cardinality(Branches("oneOf")) = 1
       /\ Has(s, "allOf") => Branches("allOf") = DOMAIN s.allOf
       /\ Has(s, "type") => \E i \in DOMAIN s.type : IsOf(v, s.type[i])
       /\ Numeric(v) => InBounds(v, s)
       /\ v[1] = "string" => /\ Sized(Len(v[2]), s, "minLength", "maxLength")
                             /\ Has(s, "pattern") => Matches(s.pattern, v[2])
                             /\ Get(s, "format", "") \in KnownFormats => v[2] = <<"an example of", s.format>>
       /\ v[1] = "array" => /\ Sized(Len(v[2]), s, "minItems", "maxItems")
                            /\ Has(s, "items") => \A i \in DOMAIN v[2] : Conforms(v[2][i], s.items, root)
       /\ v[1] = "object" =>
             /\ Get(s, "required", {}) \subseteq Names(v)
             /\ Has(s, "properties") => \A i \in DOMAIN s.properties :
                    s.properties[i][1] \in Names(v) =>
                        Conforms(ValueOf(v, s.properties[i][1]), s.properties[i][2], root)
             /\ Has(s, "additionalProperties") => Names(v) \subseteq (IF Has(s, "properties") THEN Declared ELSE {})

------------------------------------------------------------------------------
(* From a constraint to text.                                               *)

\* json.dumps: what is not ASCII is written as an escape.
Escaped(text) == [i \in DOMAIN text |-> IF text[i] \in Wide THEN ToString(text[i]) ELSE text[i]]
RECURSIVE Rendered(_)
Rendered(v) ==
    LET Listed(parts) == FoldLeft(LAMBDA acc, p : IF acc = <<>> THEN p ELSE acc \o <<", ">> \o p, <<>>, parts)
        Member(p) == <<p[1], ": ">> \o Rendered(p[2])
    IN CASE v[1] = "string" -> <<"quote">> \o Escaped(v[2]) \o <<"quote">>
         [] v[1] = "array" -> <<"[">> \o Listed([i \in DOMAIN v[2] |-> Rendered(v[2][i])]) \o <<"]">>
         [] v[1] = "object" -> <<"{">> \o Listed([i \in DOMAIN v[2] |-> Member(v[2][i])]) \o <<"}">>
         [] OTHER -> <<ToString(v)>>

Unconstrained == <<"none">>
AnyObject == [type |-> <<"object">>]

\* Every text a constraint may generate; Refused stands for an exception.
GenerateForConstraint(c) ==
    CASE c[1] = "json" -> {IF v = Refused THEN Refused
                           ELSE IF Validated(v, c[2], c[2]) THEN String(Rendered(v)) ELSE Refused :
                              v \in Generated(c[2], c[2], 0)}
      [] c[1] = "json_object" -> {String(Rendered(v)) : v \in Generated(AnyObject, AnyObject, 0)}
      [] c[1] = "choice" -> IF c[2] = <<>> THEN {Refused} ELSE {String(t) : t \in ToSet(c[2])}
      [] c[1] = "regex" -> RegexMatches(c[2])
      [] c[1] \in {"grammar", "structural_tag"} -> {Refused}
      [] c = Unconstrained -> {String(<<>>)}

\* What the constraint asks of a text.
Satisfies(text, c) ==
    CASE c[1] = "json" -> \E v \in Generated(c[2], c[2], 0) \ {Refused} :
                             Rendered(v) = text /\ Conforms(v, c[2], c[2])
      [] c[1] = "json_object" -> \E v \in Generated(AnyObject, AnyObject, 0) : Rendered(v) = text
      [] c[1] = "choice" -> Contains(c[2], text)
      [] c[1] = "regex" -> Matches(c[2], text)
      [] OTHER -> FALSE
==============================================================================
