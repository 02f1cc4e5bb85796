------------------------------- MODULE Parser -------------------------------
(***************************************************************************)
(* The parser at work: the steps of Grammar, taken one at a time on an     *)
(* input that is chosen while it is read, with one token of look-ahead.    *)
(* The stack of the C functions is the sequence of steps still to be done. *)
(*                                                                         *)
(* The first error is kept and parsing goes on; what it still builds is    *)
(* thrown away, so tree and read are dropped here.                         *)
(***************************************************************************)
EXTENDS Grammar, Language, FiniteSets

CONSTANTS
    Inputs,      \* sequence of [start, opening, words, most]: what is parsed,
                 \* its first tokens, those that may follow, and how many
    MaxItems,    \* items of a list of the language
    MaxDefinitions,  \* columns of its CREATE TABLE, key parts of its indexes
    MaxLines,    \* columns and indexes of its schema files
    AfterError   \* how many tokens may still come after an error

VARIABLES
    input,       \* which of Inputs
    current,     \* parser->current
    left,        \* how many tokens may still come
    todo,        \* steps
    error,       \* parser->error
    tree,        \* the fields of the result, in the order they are set
    read         \* history: the tokens that were accepted
vars == <<input, current, left, todo, error, tree, read>>

Input == Inputs[input]

Following == Input.words \cup {"EOF", "INVALID"}

\* The token at position n
Tokens(n) == IF n =< Len(Input.opening) THEN {Input.opening[n]} ELSE Following

Upcoming ==
    IF left = 0 \/ current = "EOF" THEN {"EOF"}
    ELSE IF error THEN Following ELSE Tokens(Len(read) + 2)

Init ==
    /\ input \in DOMAIN Inputs
    /\ current \in Tokens(1)
    /\ left = Input.most
    /\ todo = IF Input.start = "query" THEN ParseQuery ELSE ParseSchema
    /\ error = (current = "INVALID")
    /\ tree = <<>>
    /\ read = <<>>

Step == Head(todo)
Doing(what) == todo # <<>> /\ Step.do = what
Is == current \in Step.of \/ TypeOf(current) \in Step.of

\* Every step: it takes the current token or not, fails or not, adds fields
\* to the result, and goes on with other steps.
Go(steps, takes, fails, fields) ==
    /\ todo' = steps
    /\ IF takes THEN current' \in Upcoming ELSE UNCHANGED current
    /\ error' = (error \/ fails \/ current' = "INVALID")
    /\ left' = LET rest == IF takes /\ left > 0 THEN left - 1 ELSE left
               IN  IF error' /\ rest > AfterError THEN AfterError ELSE rest
    /\ tree' = IF error' THEN <<>> ELSE tree \o fields
    /\ read' = IF error' THEN <<>>
               ELSE IF takes THEN Append(read, current) ELSE read
    /\ UNCHANGED input

Entry(role) == <<[role |-> role, token |-> current]>>

ExpectToken == Doing("expect") /\ Go(Tail(todo), Is, ~Is, <<>>)

SkipToken == Doing("skip") /\ Go(Tail(todo), Is, FALSE, <<>>)

AcceptFlag ==
    Doing("flag") /\ Go(Tail(todo), Is, FALSE, IF Is THEN Entry(current) ELSE <<>>)

ParseField == Doing("field") /\ Go(Tail(todo), Is, ~Is, Entry(Step.role))

Called == Function[Step.call]

CallFunction == Doing("call") /\ Go(Called \o Tail(todo), FALSE, FALSE, <<>>)

AcceptThen ==
    Doing("if") /\ Go((IF Is THEN Called ELSE <<>>) \o Tail(todo), Is, FALSE, <<>>)

AcceptElse ==
    Doing("unless")
        /\ Go((IF Is THEN <<>> ELSE Called) \o Tail(todo), Is, FALSE, <<>>)

AcceptAndReturn ==
    Doing("return") /\ Go(IF Is THEN Called ELSE Tail(todo), Is, FALSE, <<>>)

NextItem ==
    Doing("while") /\ Go(IF Is THEN Called \o todo ELSE Tail(todo), Is, FALSE, <<>>)

BugNoErrorCheck ==
    Doing("until") /\ Go(IF current = ")" THEN Tail(todo) ELSE Called \o todo,
                         FALSE, FALSE, <<>>)

NextDefinition ==
    Doing("until") /\ Go(IF current = ")" \/ error THEN Tail(todo)
                         ELSE Called \o todo, FALSE, FALSE, <<>>)

SetType ==
    Doing("type") /\ Go(Tail(todo), FALSE, FALSE, <<[role |-> "is", token |-> Step.type]>>)

SetError == Doing("fail") /\ Go(Tail(todo), FALSE, TRUE, <<>>)

Advance ==
    \/ ExpectToken \/ SkipToken \/ AcceptFlag \/ ParseField
    \/ CallFunction \/ AcceptThen \/ AcceptElse \/ AcceptAndReturn
    \/ NextItem \/ NextDefinition \/ SetType \/ SetError

\* The statement runs, or its error is printed; the next one may come.
Done == todo = <<>> /\ UNCHANGED vars

Next == Advance \/ Done

\* The parser goes on by itself.
Spec == Init /\ [][Next]_vars /\ WF_vars(Advance)
-----------------------------------------------------------------------------
(***************************************************************************)
(* The text back from the fields of the result, without the optional       *)
(* semicolon: what stands before a field, which may be the first of its    *)
(* role, and around them all.                                              *)
(***************************************************************************)
Before(role, first) ==
    CASE role \in {"define", "part"} -> IF first THEN <<"(">> ELSE <<",">>
      [] role = "column" -> IF first THEN <<>> ELSE <<",">>
      [] role = "where" -> IF first THEN <<"where">> ELSE <<"and">>
      [] role = "set" -> IF first THEN <<"set">> ELSE <<",">>
      [] role = "to" -> <<"=">>
      [] role = "len" -> <<"(">>
      [] role = "kind" -> IF first THEN <<",", ")", ",", "indexes", "(">>
                          ELSE <<")", ",">>
      [] role \in {"from", "into", "default", "using", "on", "table", "index"} -> <<role>>
      [] OTHER -> <<>>

Spelled(i) ==
    LET role == tree[i].role
        first == IF role = "part" THEN tree[i - 1].role \notin {"part", "len"}
                 ELSE \A j \in 1..(i - 1) : tree[j].role # role
    IN  Before(role, first) \o <<tree[i].token>>
          \o IF role = "len" THEN <<")">> ELSE <<>>

Has(role) == \E i \in DOMAIN tree : tree[i].role = role

Opening ==
    CASE tree[1].token = "create unique" -> <<"create", "unique">>
      [] tree[1].token = "show tables" -> <<"show", "tables">>
      [] tree[1].token = "show index" -> <<"show", "index">>
      [] tree[1].token = "show index types" -> <<"show", "index", "types">>
      [] tree[1].token = "select" /\ ~Has("column") -> <<"select", "*">>
      [] tree[1].token = "schema" -> <<"table", "(", "columns">>
      [] OTHER -> <<tree[1].token>>

Closing ==
    CASE tree[1].token = "schema" /\ Has("kind") -> <<")", ",", ")", ",", ")">>
      [] tree[1].token = "schema" /\ ~Has("kind") ->
            <<",", ")", ",", "indexes", "(", ")", ",", ")">>
      [] tree[1].token # "schema" ->
            IF Has("define") \/ Has("part") THEN <<")">> ELSE <<>>

Unparsed ==
    Opening \o FlattenSeq([i \in 1..(Len(tree) - 1) |-> Spelled(i + 1)]) \o Closing

WithoutEnd(tokens) ==
    SelectSeq(tokens, LAMBDA t : t \notin {";", "EOF"})
-----------------------------------------------------------------------------
(***************************************************************************)
(* Properties                                                              *)
(***************************************************************************)
Sentences == [query |-> Queries(MaxItems, MaxDefinitions), schema |-> SchemaTexts(MaxLines)]

Beginnings ==
    [s \in DOMAIN Sentences |->
        UNION {{SubSeq(t, 1, n) : n \in 0..Len(t)} : t \in Sentences[s]}]

\* What a token may be in a sentence
Signs(token) ==
    {token} \cup (IF token \in Operators THEN {"?"} ELSE {})
      \cup CASE TypeOf(token) = "IDENT" -> {"x"}
             [] TypeOf(token) = "NUMBER" -> {"1", "v"}
             [] TypeOf(token) \in {"STRING", "HEX"} -> {"v"}
             [] OTHER -> {}

\* The beginnings of sentences that the tokens are.
Readings(tokens) ==
    FoldLeft(LAMBDA some, token :
                {Append(r, sign) : r \in some, sign \in Signs(token)}
                    \cap Beginnings[Input.start],
             {<<>>}, tokens)

Viable(tokens) == Readings(tokens) # {}
Complete(tokens) == Readings(tokens) \cap Sentences[Input.start] # {}

\* Only statements of the language are accepted: as long as there is no error
\* what was read is the beginning of one, and at the end it is one.  (A
\* schema file may lack commas.)
OnlySentences ==
    Input.start = "query" /\ ~error =>
        /\ Viable(read)
        /\ todo = <<>> => Complete(read)

\* Every statement of the language, and every schema file that the program
\* writes, is accepted, whichever keywords serve as names in it; the first
\* error comes only at a token with which none goes on.
ErrorsAreReal ==
    [][~error /\ error' /\ current' # "INVALID" => ~Viable(Append(read, current))]_vars

\* The result has every name, value and operator of the statement, or of the
\* schema file, in its place: nothing is lost, doubled, moved to another list or
\* to another column.
NothingLost ==
    todo = <<>> /\ ~error /\ Complete(read) => Unparsed = WithoutEnd(read)

\* Parsing ends, also when the text stops in the middle of a list or goes on
\* after an error.
Ends == <>(todo = <<>>)
=============================================================================
