------------------------------- MODULE Lexer -------------------------------
(***************************************************************************)
(* The lexer (core/lexer.c) as a function of its input.  A text is a       *)
(* sequence of characters; the sets below are the classes the code tells   *)
(* apart, each with the members that are worth typing.                     *)
(***************************************************************************)
EXTENDS Integers, SequencesExt

Space == {" "}
Digit == {"0", "1", "2", "3", "4", "5", "6", "7", "8", "9"}
HexDigit == Digit \cup {"a", "b", "c", "d", "e", "f"}
HexMark == {"x"}
Letter == {"a", "b", "c", "d", "e", "f"} \cup HexMark \cup {"z"}
IdentChar == Letter \cup Digit \cup {"_"}
Quote == "\""

\* One past the longest run of characters of S that starts at p.
RunEnd(text, p, S) ==
    CHOOSE q \in p..(Len(text) + 1) :
        /\ \A r \in p..(q - 1) : text[r] \in S
        /\ q =< Len(text) => text[q] \notin S

At(text, p, S) == p =< Len(text) /\ text[p] \in S

\* A lexeme [from, to), and where the lexer goes on.
Token(type, text, from, to, next) ==
    [type |-> type, lexeme |-> SubSeq(text, from, to - 1), next |-> next]

\* lexer_read_number: the second dot ends it
NumberEnd(text, p) ==
    LET dot == RunEnd(text, p, Digit)
    IN  IF At(text, dot, {"."}) THEN RunEnd(text, dot + 1, Digit) ELSE dot

ReadHex(text, p) ==
    LET end == RunEnd(text, p + 2, HexDigit)
    IN  Token(IF end = p + 2 THEN "INVALID" ELSE "HEX", text, p + 2, end, end)

\* No escapes; without a closing quote the rest of the text is one token.
ReadString(text, p) ==
    LET end == RunEnd(text, p + 1, {text[q] : q \in DOMAIN text} \ {Quote})
    IN  IF end > Len(text) THEN Token("INVALID", text, p + 1, end, end)
        ELSE Token("STRING", text, p + 1, end, end + 1)

TwoCharSymbol ==
    (<<">", "=">> :> ">=") @@ (<<"<", "=">> :> "<=") @@ (<<"!", "=">> :> "!=")

OneCharSymbol == {"<", ">", "(", ")", ",", "*", ";", "="}

\* A symbol's type is its spelling.
ReadSymbol(text, p) ==
    LET two == SubSeq(text, p, IF p < Len(text) THEN p + 1 ELSE p)
    IN  IF two \in DOMAIN TwoCharSymbol
        THEN Token(TwoCharSymbol[two], text, p, p + 2, p + 2)
        ELSE Token(IF text[p] \in OneCharSymbol THEN text[p] ELSE "INVALID",
                   text, p, p + 1, p + 1)

\* lexer_next at position start
NextToken(text, start) ==
    LET p == RunEnd(text, start, Space)
        identEnd == RunEnd(text, p, IdentChar)
        numberEnd == NumberEnd(text, p)
    IN  CASE p > Len(text) -> Token("EOF", text, p, p, p)
          [] At(text, p, Letter) -> Token("IDENT", text, p, identEnd, identEnd)
          [] At(text, p, Digit) /\ At(text, p + 1, HexMark) -> ReadHex(text, p)
          [] At(text, p, Digit) /\ ~At(text, p + 1, HexMark) ->
                Token("NUMBER", text, p, numberEnd, numberEnd)
          [] At(text, p, {Quote}) -> ReadString(text, p)
          [] OTHER -> ReadSymbol(text, p)

\* Every token of the text, the last one EOF.
Tokens(text) ==
    LET from[p \in 1..(Len(text) + 1)] ==
            LET t == NextToken(text, p)
            IN  IF t.type = "EOF" THEN <<t>> ELSE <<t>> \o from[t.next]
    IN  from[1]
=============================================================================
