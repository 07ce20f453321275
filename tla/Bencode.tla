------------------------------ MODULE Bencode ------------------------------
(***************************************************************************)
(* The bencode parser (src/bencode_parser/parser.rs) and the scanner that  *)
(* finds where the dictionary of a metadata message ends                   *)
(* (find_bencode_end of src/peer/metadata.rs), beside the grammar they     *)
(* should agree on.                                                        *)
(*                                                                         *)
(* Bytes are one-character strings.  A parser takes a source and the place *)
(* to begin at and returns a value and the place after it, or Error.  The  *)
(* alternatives of a value begin with different bytes, so at most one of   *)
(* them matches, and nom's Error and Failure come to the same.  What calls *)
(* itself is a function of the place, f, and each operator that takes f    *)
(* says what the parser makes of a place with what it makes of others.     *)
(***************************************************************************)
EXTENDS Integers, Sequences

CONSTANTS
    MaxInteger,     \* i64::MAX
    MaxLength       \* u64::MAX

VARIABLE source     \* the bytes to parse

Numerals == <<"0", "1", "2", "3", "4", "5", "6", "7", "8", "9">>

Digits == {Numerals[d] : d \in 1 .. 10}

Digit == [c \in Digits |-> CHOOSE d \in 0 .. 9 : Numerals[d + 1] = c]

IsNumeral(s) == s # <<>> /\ \A k \in 1 .. Len(s) : s[k] \in Digits

Number(s) ==
    LET n[k \in 0 .. Len(s)] == IF k = 0 THEN 0 ELSE 10 * n[k - 1] + Digit[s[k]]
    IN  n[Len(s)]

\* What stands at i, if i is not behind the end.
Holds(s, i, c) == i <= Len(s) /\ s[i] = c

HoldsDigit(s, i) == i <= Len(s) /\ s[i] \in Digits

\* The first place from i on that holds no digit.
AfterDigits(s, i) == CHOOSE j \in i .. Len(s) + 1 :
                        ~HoldsDigit(s, j) /\ \A k \in i .. j - 1 : HoldsDigit(s, k)

-----------------------------------------------------------------------------
(* The parser *)

Ok(v, at) == [ok |-> TRUE, value |-> v, at |-> at]

Error == [ok |-> FALSE]

\* Mutated: leading zeros are accepted.
CanonicalAlways(sign, digits) == TRUE

\* Neither -0 nor a leading zero; the code lets one pass after a plus.
Canonical(sign, digits) ==
    digits[1] = "0" => sign = "+" \/ (sign = "" /\ Len(digits) = 1)

InRange(sign, n) == n <= IF sign = "-" THEN MaxInteger + 1 ELSE MaxInteger

parse_integer(s, i) ==
    LET sign == IF Holds(s, i + 1, "+") \/ Holds(s, i + 1, "-") THEN s[i + 1] ELSE ""
        first == IF sign = "" THEN i + 1 ELSE i + 2
        after == AfterDigits(s, first)
        digits == SubSeq(s, first, after - 1)
        n == Number(digits)
    IN  IF first < after /\ Holds(s, after, "e") /\ Canonical(sign, digits) /\ InRange(sign, n)
        THEN Ok([kind |-> "integer", n |-> IF sign = "-" THEN -n ELSE n], after + 1)
        ELSE Error

parse_bytes(s, i) ==
    LET colon == AfterDigits(s, i)
        n == Number(SubSeq(s, i, colon - 1))
    IN  IF i < colon /\ Holds(s, colon, ":") /\ n <= MaxLength /\ colon + n <= Len(s)
        THEN Ok([kind |-> "bytes", bytes |-> SubSeq(s, colon + 1, colon + n)], colon + n + 1)
        ELSE Error

\* Mutated: the bytes of a dictionary are taken up to the end of the source.
RawToEnd(s, begin, at) == SubSeq(s, begin, Len(s))

\* The bytes of a dictionary, of which the info hash is computed; at is behind them.
Raw(s, begin, at) == SubSeq(s, begin, at - 1)

parse_list(f, s, i) ==
    LET r == f[<<"items", i + 1>>]
    IN  IF r.ok THEN Ok([kind |-> "list", items |-> r.value], r.at) ELSE Error

parse_dict(f, s, i) ==
    LET r == f[<<"pairs", i + 1>>]
    IN  IF r.ok THEN Ok([kind |-> "dict", entries |-> r.value, raw |-> Raw(s, i, r.at)], r.at)
        ELSE Error

parse_value(f, s, i) ==
    IF HoldsDigit(s, i) THEN parse_bytes(s, i)
    ELSE IF Holds(s, i, "i") THEN parse_integer(s, i)
    ELSE IF Holds(s, i, "l") THEN parse_list(f, s, i)
    ELSE IF Holds(s, i, "d") THEN parse_dict(f, s, i)
    ELSE Error

\* A value before what r has read.
Before(v, r) == IF r.ok THEN Ok(<<v>> \o r.value, r.at) ELSE Error

\* Of equal keys the last one counts.
Under(key, v, r) ==
    IF r.ok THEN Ok([k \in DOMAIN r.value \cup {key} |->
                        IF k \in DOMAIN r.value THEN r.value[k] ELSE v], r.at)
    ELSE Error

\* A list goes on at i.
Items(f, s, i) ==
    LET v == f[<<"value", i>>]
    IN  IF Holds(s, i, "e") THEN Ok(<<>>, i + 1)
        ELSE IF v.ok THEN Before(v.value, f[<<"items", v.at>>]) ELSE Error

\* A dictionary goes on at i.
Pairs(f, s, i) ==
    LET k == parse_bytes(s, i)
        v == f[<<"value", k.at>>]
    IN  IF Holds(s, i, "e") THEN Ok(<<>>, i + 1)
        ELSE IF ~k.ok THEN Error
        ELSE IF v.ok THEN Under(k.value.bytes, v.value, f[<<"pairs", v.at>>]) ELSE Error

\* The source goes on at i.
Values(f, s, i) ==
    LET v == f[<<"value", i>>]
    IN  IF v.ok THEN Before(v.value, f[<<"values", v.at>>])
        ELSE IF i = Len(s) + 1 THEN Ok(<<>>, i) ELSE Error

Parser(s) ==
    LET f[p \in {"value", "items", "pairs", "values"} \X (1 .. Len(s) + 1)] ==
            CASE p[1] = "value" -> parse_value(f, s, p[2])
              [] p[1] = "items" -> Items(f, s, p[2])
              [] p[1] = "pairs" -> Pairs(f, s, p[2])
              [] p[1] = "values" -> Values(f, s, p[2])
    IN  f

parse(s) == Parser(s)[<<"values", 1>>]

-----------------------------------------------------------------------------
(* The scanner *)

NoEnd == 0

\* The first place from i on that holds c, or else the end.
Find(s, i, c) == CHOOSE j \in i .. Len(s) + 1 :
                    (j <= Len(s) => s[j] = c) /\ \A k \in i .. j - 1 : s[k] # c

\* Mutated: every byte e ends something, also inside a string.
SkipNothing(colon, n) == colon + 1

\* The place after a string: its n bytes are not looked at, nor whether they are there.
Skip(colon, n) == colon + n + 1

\* The loop goes on at i, inside so many lists and dictionaries.
Loop(f, s, i, depth) == IF i <= Len(s) THEN f[<<i, depth>>] ELSE NoEnd

\* It does so, or returns, when something has ended before i.
Ended(f, s, i, depth) == IF depth = 0 THEN i - 1 ELSE Loop(f, s, i, depth)

ScanString(f, s, i, depth) ==
    LET colon == Find(s, i, ":")
        length == SubSeq(s, i, colon - 1)
    IN  IF colon <= Len(s) /\ IsNumeral(length) /\ Number(length) <= MaxLength
        THEN Ended(f, s, Skip(colon, Number(length)), depth) ELSE NoEnd

Scan(f, s, i, depth) ==
    IF Holds(s, i, "d") \/ Holds(s, i, "l") THEN Loop(f, s, i + 1, depth + 1)
    ELSE IF Holds(s, i, "i")
         THEN IF Find(s, i, "e") <= Len(s) THEN Ended(f, s, Find(s, i, "e") + 1, depth)
              ELSE NoEnd
    ELSE IF Holds(s, i, "e") THEN Ended(f, s, i + 1, depth - 1)
    ELSE IF HoldsDigit(s, i) THEN ScanString(f, s, i, depth)
    ELSE NoEnd

Scanner(s) ==
    LET f[p \in (1 .. Len(s)) \X Int] == Scan(f, s, p[1], p[2]) IN f

\* The length of the first value.
find_bencode_end(s) == Loop(Scanner(s), s, 1, 0)

-----------------------------------------------------------------------------
(* The grammar: what may stand from i up to before j *)

IsInteger(s, i, j) ==
    \E first \in {i + 1, i + 2} :
        LET sign == IF first = i + 1 THEN "" ELSE s[i + 1]
            digits == SubSeq(s, first, j - 2)
        IN  /\ s[i] = "i" /\ first < j - 1 /\ s[j - 1] = "e"
            /\ first = i + 2 => sign \in {"+", "-"}
            /\ IsNumeral(digits)
            /\ InRange(sign, Number(digits))
            /\ sign = "-" => digits[1] # "0"
            /\ sign = "" => digits[1] # "0" \/ Len(digits) = 1

IsBytes(s, i, j) ==
    \E k \in i + 1 .. j - 1 :
        LET length == SubSeq(s, i, k - 1)
        IN  s[k] = ":" /\ IsNumeral(length) /\ Number(length) = j - 1 - k

Enclosed(s, i, j, open) == i + 1 < j /\ s[i] = open /\ s[j - 1] = "e"

IsValue(is, s, i, j) ==
    \/ IsInteger(s, i, j) \/ IsBytes(s, i, j)
    \/ Enclosed(s, i, j, "l") /\ is[<<"values", i + 1, j - 1>>]
    \/ Enclosed(s, i, j, "d") /\ is[<<"pairs", i + 1, j - 1>>]

IsValues(is, i, j) ==
    \/ i = j
    \/ \E k \in i + 1 .. j : is[<<"value", i, k>>] /\ is[<<"values", k, j>>]

IsPairs(is, s, i, j) ==
    \/ i = j
    \/ \E k \in i + 1 .. j : \E m \in k + 1 .. j :
          IsBytes(s, i, k) /\ is[<<"value", k, m>>] /\ is[<<"pairs", m, j>>]

Grammar(s) ==
    LET is[x \in {"value", "values", "pairs"} \X (1 .. Len(s) + 1) \X (1 .. Len(s) + 1)] ==
            CASE x[1] = "value" -> IsValue(is, s, x[2], x[3])
              [] x[1] = "values" -> IsValues(is, x[2], x[3])
              [] x[1] = "pairs" -> IsPairs(is, s, x[2], x[3])
    IN  is

-----------------------------------------------------------------------------
(* Properties *)

\* The parser accepts the sequences of values of the grammar and nothing else: neither
\* the order of its alternatives nor a byte e inside a string misleads it
\* (src/bencode_parser/parser.rs:174-186).
ParsesGrammar == parse(source).ok <=> Grammar(source)[<<"values", 1, Len(source) + 1>>]

\* Wherever in a source the parser reads a dictionary, at any depth and whatever follows
\* it, the bytes it is hashed by are exactly its own: alone they parse to it and to nothing
\* else (parser.rs:122-124).  And where a source begins with a dictionary the scanner finds
\* its end, whatever data follows it (src/peer/metadata.rs:409, 426).
DictionariesExact ==
    /\ \A i \in 1 .. Len(source) :
          LET d == Parser(source)[<<"value", i>>]
          IN  d.ok /\ d.value.kind = "dict" =>
                 parse(d.value.raw) = Ok(<<d.value>>, Len(d.value.raw) + 1)
    /\ \A j \in 2 .. Len(source) + 1 :
          source[1] = "d" /\ Grammar(source)[<<"value", 1, j>>] =>
              find_bencode_end(source) = j - 1

=============================================================================
