------------------------------- MODULE Values -------------------------------
(***************************************************************************)
(* Typed values (types/, serializer/, the key half of index/index.c): from *)
(* a literal token to a value, to the bytes of a row or of an index key,   *)
(* back, and to the literal that a schema file keeps.                      *)
(*                                                                         *)
(* A value is [type, val]: an integer; a float as a number of units of     *)
(* 10^-Decimals (its digits, not its 24 bits); a sequence of characters; a *)
(* sequence of bytes, each written as its two hex digits.                  *)
(***************************************************************************)
EXTENDS Lexer

CONSTANTS
    IntBuf,      \* characters of an integer literal that are read (15)
    IntMax,      \* INT32_MAX
    FloatBuf,    \* characters of a float literal that are read (31)
    Decimals,    \* decimals of a float that are told apart
    Precision,   \* significant digits that "%.7g" prints (7)
    PlainZeros,  \* zeros that it prints in front of them, at most (4)
    MaxString,   \* MAX_VARCHAR_VALUE_SIZE
    MaxBinary,   \* MAX_BINARY_VALUE_SIZE
    ByteBase,    \* values of a byte of an integer (256)
    WordBytes    \* bytes of an integer (4)

ASSUME ValuesAssumption ==
    /\ {IntBuf, FloatBuf, MaxString, MaxBinary} \subseteq Nat \ {0}
    /\ {Decimals, Precision, PlainZeros} \subseteq Nat \ {0}
    /\ {ByteBase, WordBytes} \subseteq Nat \ {0}
    /\ IntMax \in 0..(10^(IntBuf - 1) - 1)
    /\ IntMax < ByteBase^WordBytes

Failed(why) == [type |-> "none", why |-> why]
Garbage == [type |-> "garbage"]   \* the bits of a value of another type

(***************************************************************************)
(* Conversion (converter.c).                                               *)
(***************************************************************************)
DigitValue ==
    [c \in Digit |-> CHOOSE n \in 0..9 : ToString(n) = c]

Decimal(digits) ==
    FoldLeft(LAMBDA n, c : 10 * n + DigitValue[c], 0, digits)

Upto(n, s) == SubSeq(s, 1, IF Len(s) < n THEN Len(s) ELSE n)

ConvertInt(lexeme) ==
    LET n == Decimal(Upto(IntBuf, lexeme))
    IN  IF n > IntMax THEN Failed("out of range")
        ELSE [type |-> "int", val |-> n]

Unit == 10^Decimals   \* how many units are 1.0

\* Without a dot, which may be behind the characters that are read, the
\* digits are a whole number.
Units(lexeme) ==
    LET dot == Min({p \in 1..(Len(lexeme) + 1) : p > Len(lexeme) \/ lexeme[p] = "."})
        decimals == SubSeq(lexeme, dot + 1, Len(lexeme)) \o [i \in 1..Decimals |-> "0"]
    IN  Unit * Decimal(SubSeq(lexeme, 1, dot - 1)) + Decimal(Upto(Decimals, decimals))

\* ERANGE is out of reach: FloatBuf characters hold no float that large, and
\* none that small.
ConvertFloat(lexeme) ==
    [type |-> "float", val |-> Units(Upto(FloatBuf, lexeme))]

ConvertString(lexeme) ==
    IF Len(lexeme) > MaxString THEN Failed("too long")
    ELSE [type |-> "string", val |-> lexeme]

BugDropOddDigit(lexeme) ==
    [type |-> "binary",
     val |-> [i \in 1..(Len(lexeme) \div 2) |->
                 <<lexeme[2 * i - 1], lexeme[2 * i]>>]]

\* an odd number of digits gets a 0 in front
ConvertHex(lexeme) ==
    LET even == IF Len(lexeme) % 2 = 1 THEN <<"0">> \o lexeme ELSE lexeme
    IN  IF Len(lexeme) > 2 * MaxBinary THEN Failed("too long")
        ELSE [type |-> "binary",
              val |-> [i \in 1..(Len(even) \div 2) |->
                          <<even[2 * i - 1], even[2 * i]>>]]

IsLiteral(token) == token.type \in {"NUMBER", "STRING", "HEX"}

ConvertValue(token) ==
    CASE token.type = "NUMBER" ->
            IF \E i \in DOMAIN token.lexeme : token.lexeme[i] = "."
            THEN ConvertFloat(token.lexeme) ELSE ConvertInt(token.lexeme)
      [] token.type = "STRING" -> ConvertString(token.lexeme)
      [] token.type = "HEX" -> ConvertHex(token.lexeme)

(***************************************************************************)
(* Column types (mapper.c).  A column type is [name, len].                 *)
(***************************************************************************)
ValueType ==
    [int |-> "int", float |-> "float", varchar |-> "string", char |-> "string",
     binary |-> "binary"]

TypeMatches(type, value) == ValueType[type.name] = value.type

\* resolved_type_validate
Validates(type, value) ==
    /\ TypeMatches(type, value)
    /\ type.name \in {"varchar", "char", "binary"} => Len(value.val) =< type.len

Pad(s, filler, n) == s \o [i \in 1..(n - Len(s)) |-> filler]
BlankCell(type) == type.name \in {"char", "binary"}
Filler(type) == IF type.name = "char" THEN " " ELSE <<"0", "0">>

\* A char or a binary longer than its column: the padding has a negative
\* length, and memset takes it for a huge one.
Overruns(type, value) ==
    /\ BlankCell(type)
    /\ TypeMatches(type, value)
    /\ Len(value.val) > type.len

\* 0 and 0.0 have the same bits.
SameBits(type, value) ==
    \/ TypeMatches(type, value)
    \/ /\ {ValueType[type.name], value.type} = {"int", "float"}
       /\ value.val = 0

\* The part of a row that holds the value.
Serialize(type, value) ==
    IF ~SameBits(type, value) THEN Garbage
    ELSE IF BlankCell(type)
    THEN [type |-> type.name, val |-> Pad(value.val, Filler(type), type.len)]
    ELSE [type |-> type.name, val |-> value.val]

CutEnd(s, filler) ==
    LET keep == {i \in DOMAIN s : s[i] # filler}
    IN  SubSeq(s, 1, IF keep = {} THEN 0 ELSE Max(keep))

\* deserialize_char cuts spaces at the end.
TrimEnd(s) == CutEnd(s, " ")

Deserialize(type, cell) ==
    IF cell = Garbage THEN Garbage
    ELSE [type |-> ValueType[type.name],
          val |-> IF type.name = "char" THEN TrimEnd(cell.val) ELSE cell.val]

(***************************************************************************)
(* Literals for the schema file (formatter.c, presentation.c).             *)
(***************************************************************************)
DecimalText(n) ==
    LET text[k \in Nat] ==
            IF k < 10 THEN <<ToString(k)>>
            ELSE text[k \div 10] \o <<ToString(k % 10)>>
    IN  text[n]

\* v to Precision significant digits
Rounded(v) ==
    LET digits == Len(DecimalText(v))
        last == IF digits > Precision THEN 10^(digits - Precision) ELSE 1
    IN  ((v + last \div 2) \div last) * last

\* No zeros at the end, and no dot before nothing.
Dotted(whole, decimals) ==
    IF CutEnd(decimals, "0") = <<>> THEN whole
    ELSE whole \o <<".">> \o CutEnd(decimals, "0")

\* "%.7g": an exponent of two digits when the number is too large for its
\* digits, or has too many zeros in front of them
FloatText(v) ==
    LET r == Rounded(v)
        digits == DecimalText(r)
        exponent == Len(digits) - 1 - Decimals
        TwoDigits(n) == Tail(DecimalText(100 + n))
    IN  IF v # 0 /\ exponent \notin -PlainZeros..(Precision - 1)
        THEN Dotted(<<Head(digits)>>, Tail(digits))
                \o <<"e">> \o (IF exponent < 0 THEN <<"-">> \o TwoDigits(-exponent)
                               ELSE <<"+">> \o TwoDigits(exponent))
        ELSE Dotted(DecimalText(r \div Unit), Tail(DecimalText(Unit + (r % Unit))))

\* The bits of a small integer are those of a tiny float: 1.401298e-45.
TinyText(n) == IF n = 0 THEN <<"0">> ELSE <<"1", "e", "-", "4", "5">>

BugNoQuotes(type, value) ==
    CASE type.name = "int" -> DecimalText(value.val)
      [] type.name = "float" /\ value.type = "float" -> FloatText(value.val)
      [] type.name = "float" /\ value.type = "int" -> TinyText(value.val)
      [] type.name \in {"varchar", "char"} -> value.val
      [] type.name = "binary" -> <<"0", "x">> \o FlattenSeq(value.val)

FormatLiteral(type, value) ==
    CASE type.name = "int" -> DecimalText(value.val)
      [] type.name = "float" /\ value.type = "float" -> FloatText(value.val)
      [] type.name = "float" /\ value.type = "int" -> TinyText(value.val)
      [] type.name \in {"varchar", "char"} ->
            <<Quote>> \o value.val \o <<Quote>>
      [] type.name = "binary" -> <<"0", "x">> \o FlattenSeq(value.val)

\* The default that schema_load_table makes of "... default <literal>,"; it
\* is converted and not validated.
ReadDefault(literal) ==
    LET tokens == Tokens(literal \o <<",">>)
    IN  IF Len(tokens) = 3 /\ IsLiteral(tokens[1]) /\ tokens[2].type = ","
        THEN ConvertValue(tokens[1]) ELSE Failed("schema does not parse")

(***************************************************************************)
(* Comparison of values (comparator.c) and of keys (prepare_index_key,     *)
(* key_compare.c).                                                         *)
(***************************************************************************)
Sign(x, y) == IF x < y THEN -1 ELSE IF x > y THEN 1 ELSE 0

Nul == "nul"

\* The characters in the order of their codes, the two hex digits of a byte
\* likewise.
Rank(c) ==
    SelectInSeq(<<Nul, " ", "!", Quote, "(", ")", "*", ",", ".">>
                  \o <<"0", "1", "2", "3", "4", "5", "6", "7", "8", "9">>
                  \o <<";", "<", "=", ">", "_">>
                  \o <<"a", "b", "c", "d", "e", "f", "x", "z">>,
                LAMBDA d : d = c)

ByteRank(b) == 100 * Rank(b[1]) + Rank(b[2])

Codes(s) == [i \in DOMAIN s |-> Rank(s[i])]
ByteCodes(s) == [i \in DOMAIN s |-> ByteRank(s[i])]

\* Two sequences of numbers of equal length, by their first difference.
SignOfSeqs(s, t) ==
    LET differ == {i \in DOMAIN s : s[i] # t[i]}
    IN  IF differ = {} THEN 0 ELSE Sign(s[Min(differ)], t[Min(differ)])

\* compare_value, of two values of one type
CompareValue(u, v) ==
    LET n == Max({Len(u.val), Len(v.val)})
    IN  CASE u.type \in {"int", "float"} -> Sign(u.val, v.val)
          [] u.type = "string" ->
                SignOfSeqs(Codes(Pad(u.val, Nul, n)), Codes(Pad(v.val, Nul, n)))
          [] u.type = "binary" /\ Len(u.val) = Len(v.val) ->
                SignOfSeqs(ByteCodes(u.val), ByteCodes(v.val))
          [] u.type = "binary" /\ Len(u.val) # Len(v.val) ->
                Sign(Len(u.val), Len(v.val))

\* little-endian
Bytes(n) == [i \in 1..WordBytes |-> (n \div ByteBase^(i - 1)) % ByteBase]

BugUnpaddedBinary(value, len) ==
    CASE value.type \in {"int", "float"} -> Upto(len, Bytes(value.val))
      [] value.type = "string" -> Pad(Upto(len, value.val), Nul, len)
      [] value.type = "binary" -> Upto(len, value.val)

\* The key part of len bytes that a value gives; the bits of a float stand
\* for themselves.
KeyPart(value, len) ==
    CASE value.type \in {"int", "float"} -> Upto(len, Bytes(value.val))
      [] value.type = "string" -> Pad(Upto(len, value.val), Nul, len)
      [] value.type = "binary" -> Pad(Upto(len, value.val), <<"0", "0">>, len)

\* compare_int_keys reads a whole word: behind a shorter part it reads the
\* next part, or whatever is behind the key.
Words(part) ==
    {FoldLeft(LAMBDA n, i : n + bytes[i] * ByteBase^(i - 1), 0,
              [i \in 1..WordBytes |-> i]) :
        bytes \in {part \o rest :
            rest \in [1..(WordBytes - Len(part)) -> 0..(ByteBase - 1)]}}

BugStopEarly(type, a, b) ==
    CASE type.name \in {"int", "float"} ->
            {Sign(x, y) : x \in Words(a), y \in Words(b)}
      [] type.name \in {"varchar", "char"} ->
            {SignOfSeqs(Codes(Front(a)), Codes(Front(b)))}
      [] type.name = "binary" -> {SignOfSeqs(ByteCodes(a), ByteCodes(b))}

\* What the compare of a column type may answer for two key parts.
CompareParts(type, a, b) ==
    CASE type.name \in {"int", "float"} ->
            {Sign(x, y) : x \in Words(a), y \in Words(b)}
      [] type.name \in {"varchar", "char"} -> {SignOfSeqs(Codes(a), Codes(b))}
      [] type.name = "binary" -> {SignOfSeqs(ByteCodes(a), ByteCodes(b))}
=============================================================================
