------------------------- MODULE TemplateExpression -------------------------
(***************************************************************************)
(* The tokens and the parser of the expressions in widget templates,       *)
(* ui-react/src/lib/templateExpression.ts, a recursive descent with one    *)
(* method per level of binding, against a definition of how expressions    *)
(* are written.                                                            *)
(*                                                                         *)
(* A text is a sequence of characters, without any space that could be     *)
(* left out.  A node is an operator with its operands, or a leaf: a name,  *)
(* a number, a string.  A loop is a function of how often it went around,  *)
(* and stays where it stopped.  Left out: the cache of nodes and their     *)
(* evaluation.                                                             *)
(***************************************************************************)
EXTENDS Naturals, Sequences, SequencesExt

CONSTANT MaxDepth       \* bound: operators in an expression

ASSUME DepthBound == MaxDepth \in Nat

VARIABLES tree, depth

expressionVars == <<tree, depth>>

Node(op, args) == [op |-> op, args |-> args]
Leaf(name) == Node(name, <<>>)
Unaries == {"!", "+", "-"}

Identifiers == {"a", "b"}
Literals == {".5", "text"}

\* The characters of a token; "text" is a string with a quotation mark in it.
Spelling(token) ==
    CASE token = "text" -> <<"'", "?", "\\", "'", "'">>
      [] token = ".5" -> <<".", "5">>
      [] token = "===" -> <<"=", "=", "=">> [] token = "!==" -> <<"!", "=", "=">>
      [] token = "&&" -> <<"&", "&">> [] token = "||" -> <<"|", "|">>
      [] token = "??" -> <<"?", "?">> [] token = "==" -> <<"=", "=">>
      [] token = "!=" -> <<"!", "=">> [] token = ">=" -> <<">", "=">>
      [] token = "<=" -> <<"<", "=">>
      [] OTHER -> <<token>>

-----------------------------------------------------------------------------
(***************************************************************************)
(* tokenize: what is read at i, and where it ends.                         *)
(***************************************************************************)
TokenRead(token, i) == [token |-> token, next |-> i]

\* The end of the longest run of these characters
RunEnds(s, i, characters) ==
    CHOOSE j \in i + 1..Len(s) + 1 :
        /\ j > Len(s) \/ s[j] \notin characters
        /\ \A k \in i + 1..j - 1 : s[k] \in characters

\* A string from behind its quotation mark at i
StringRead(s, i) ==
    LET read[k \in 0..Len(s)] ==
            IF k = 0 THEN [value |-> <<>>, next |-> i, open |-> TRUE]
            ELSE LET r == read[k - 1] IN
                 IF ~r.open \/ r.next > Len(s) THEN r
                 ELSE CASE s[r.next] = "'" -> [r EXCEPT !.next = @ + 1, !.open = FALSE]
                        [] s[r.next] = "\\" /\ r.next = Len(s) -> [r EXCEPT !.open = FALSE]
                        [] s[r.next] = "\\" /\ r.next < Len(s) ->
                              [r EXCEPT !.value = Append(@, s[r.next + 1]), !.next = @ + 2]
                        [] OTHER -> [r EXCEPT !.value = Append(@, s[r.next]), !.next = @ + 1]
    IN  read[Len(s)]

Digits == {"5"}
StartsNumber(s, i) == s[i] \in Digits \/ (s[i] = "." /\ i < Len(s) /\ s[i + 1] \in Digits)

Three == {"===", "!=="}
Two == {"&&", "||", "??", "==", "!=", ">=", "<="}
One == {"+", "-", "*", "/", "%", ">", "<", "!", "(", ")", ".", ",", "[", "]", "?", ":"}

\* The word is written at i.
WrittenAt(s, i, word) ==
    /\ i + Len(word) <= Len(s) + 1
    /\ \A k \in 1..Len(word) : s[i + k - 1] = word[k]

SpelledAt(s, i, tokens) == {t \in tokens : WrittenAt(s, i, Spelling(t))}

\* A character that begins no token throws: here, a token that nothing takes.
Unexpected(s) == TokenRead("unexpected", Len(s) + 1)

NextToken(s, i) ==
    LET Operator(tokens) ==
            LET token == CHOOSE t \in SpelledAt(s, i, tokens) : TRUE IN
            TokenRead(token, i + Len(Spelling(token)))
    IN  CASE s[i] = "'" ->
                LET string == StringRead(s, i + 1) IN
                TokenRead(IF string.value = <<"?", "'">> THEN "text" ELSE "another", string.next)
          [] StartsNumber(s, i) ->
                LET j == RunEnds(s, i, Digits \cup {"."}) IN
                TokenRead(IF SubSeq(s, i, j - 1) = Spelling(".5") THEN ".5" ELSE "another", j)
          [] s[i] \in Identifiers ->
                LET j == RunEnds(s, i, Identifiers \cup Digits) IN
                TokenRead(IF j = i + 1 THEN s[i] ELSE "another", j)
          [] OTHER ->
                CASE SpelledAt(s, i, Three) # {} -> Operator(Three)
                  [] SpelledAt(s, i, Three) = {} /\ SpelledAt(s, i, Two) # {} -> Operator(Two)
                  [] SpelledAt(s, i, Three \cup Two) = {} /\ SpelledAt(s, i, One) # {} ->
                        Operator(One)
                  [] OTHER -> Unexpected(s)

Tokenize(s) ==
    LET read[k \in 0..Len(s)] ==
            IF k = 0 THEN [tokens |-> <<>>, next |-> 1]
            ELSE LET before == read[k - 1]
                     r == NextToken(s, before.next)
                 IN  IF before.next > Len(s) THEN before
                     ELSE [tokens |-> Append(before.tokens, r.token), next |-> r.next]
    IN  Append(read[Len(s)].tokens, "eof")

-----------------------------------------------------------------------------
(***************************************************************************)
(* The parser.  s are its tokens, i its index.                             *)
(***************************************************************************)
\* Mutant of Levels: two methods that loop over the operators of both
Levels_Together ==
    <<{"??"}, {"||"}, {"&&"}, {"==", "!=", "===", "!=="}, {">", ">=", "<", "<="},
      {"+", "-", "*", "/", "%"}, {}>>

\* parseNullish, parseLogicalOr, parseLogicalAnd, parseEquality,
\* parseComparison, parseAdditive, parseMultiplicative
Levels ==
    <<{"??"}, {"||"}, {"&&"}, {"==", "!=", "===", "!=="}, {">", ">=", "<", "<="},
      {"+", "-"}, {"*", "/", "%"}>>

\* What a method returns, with the index after it; or it threw.
Parsed(node, i) == [node |-> node, next |-> i]
Thrown == Parsed(Leaf("error"), 0)
Threw(r) == r.next = 0

\* check: one of these comes after what was parsed.
Follows(s, r, tokens) == ~Threw(r) /\ s[r.next] \in tokens

\* expect
Expect(s, token, r) ==
    IF Follows(s, r, {token}) THEN Parsed(r.node, r.next + 1) ELSE Thrown

\* The node that is made of what was parsed last and before
Made(node, r) == IF Threw(r) THEN Thrown ELSE Parsed(node, r.next)

\* A method is a number: 0 parseTernary, then the levels, 8 parseUnary,
\* 9 parseMember.  call[m][i] is what calling method m at index i returns.
Ternary == 0
Unary == 8
Member == 9
Methods == 0..9

ParseTernary(s, i, call) ==
    LET condition == call[1][i]
        consequent == Expect(s, ":", call[Ternary][condition.next + 1])
        alternate == call[Ternary][consequent.next]
    IN  IF ~Follows(s, condition, {"?"}) THEN condition
        ELSE IF Threw(consequent) THEN Thrown
        ELSE Made(Node("?", <<condition.node, consequent.node, alternate.node>>), alternate)

\* The loop of a level goes around once more.
MoreBinary(s, m, left, call) ==
    LET right == call[m + 1][left.next + 1] IN
    IF Follows(s, left, Levels[m])
    THEN Made(Node(s[left.next], <<left.node, right.node>>), right) ELSE left

ParsePrimary(s, i, call) ==
    CASE s[i] \in Identifiers \cup Literals -> Parsed(Leaf(s[i]), i + 1)
      [] s[i] = "(" -> Expect(s, ")", call[Ternary][i + 1])
      [] OTHER -> Thrown

ParseUnary(s, i, call) ==
    LET argument == call[Unary][i + 1] IN
    IF s[i] \in Unaries THEN Made(Node(s[i], <<argument.node>>), argument) ELSE call[Member][i]

\* One more argument, which begins at r.next
Argument(r, call) ==
    LET argument == call[Ternary][r.next] IN
    Made(Node("()", Append(r.node.args, argument.node)), argument)

\* The arguments from at on, up to the parenthesis
ParseArgs(s, callee, at, call) ==
    LET none == Parsed(Node("()", <<callee>>), at)
        after[k \in 0..Len(s)] ==
            IF k = 0 THEN Argument(none, call)
            ELSE LET before == after[k - 1] IN
                 IF Follows(s, before, {","}) THEN Argument(Expect(s, ",", before), call)
                 ELSE before
        all == CHOOSE k \in 0..Len(s) : ~Follows(s, after[k], {","})
    IN  Expect(s, ")", IF s[at] = ")" THEN none ELSE after[all])

\* The loop of parseMember goes around once more.
MoreMember(s, object, call) ==
    LET at == object.next + 1
        property == Expect(s, "]", call[Ternary][at])
    IN  CASE Follows(s, object, {"."}) ->
                IF s[at] \in Identifiers
                THEN Parsed(Node(".", <<object.node, Leaf(s[at])>>), at + 1) ELSE Thrown
          [] Follows(s, object, {"["}) ->
                Made(Node("[]", <<object.node, property.node>>), property)
          [] Follows(s, object, {"("}) -> ParseArgs(s, object.node, at, call)
          [] OTHER -> object

\* A method that loops: what it begins with, what it has after it went around
\* k times, and when it stops
Rounds(s, m, first, call) ==
    LET after[k \in 0..Len(s)] ==
            IF k = 0 THEN first
            ELSE LET before == after[k - 1] IN
                 IF m = Member THEN MoreMember(s, before, call)
                 ELSE MoreBinary(s, m, before, call)
    IN  after

Looping(s, m, i, call) ==
    LET first == IF m = Member THEN ParsePrimary(s, i, call) ELSE call[m + 1][i]
        after == Rounds(s, m, first, call)
        loops == IF m = Member THEN {".", "[", "("} ELSE Levels[m]
    IN  after[CHOOSE k \in 0..Len(s) : ~Follows(s, after[k], loops)]

Method(s, m, i, call) ==
    CASE m = Ternary -> ParseTernary(s, i, call)
      [] m = Unary -> ParseUnary(s, i, call)
      [] OTHER -> Looping(s, m, i, call)

\* What the methods return with at most n calls inside one another; there are
\* never more than one of each method at every index.
MethodsWith(s, call) == [m \in Methods |-> [i \in 1..Len(s) |-> Method(s, m, i, call)]]
Parsing(s) ==
    LET calls[n \in 0..10 * Len(s)] == MethodsWith(s, IF n = 0 THEN {} ELSE calls[n - 1])
    IN  calls[10 * Len(s)]

\* parseExpression: nothing may follow.
ParseExpression(s) == Expect(s, "eof", Parsing(s)[Ternary][1])

-----------------------------------------------------------------------------
(***************************************************************************)
(* How an expression is written: parentheses only where an operand binds   *)
(* less than its place demands.                                            *)
(***************************************************************************)
Binds(op) ==
    CASE op = "?" -> 0
      [] op = "??" -> 1 [] op = "||" -> 2 [] op = "&&" -> 3
      [] op \in {"==", "!=", "===", "!=="} -> 4 [] op \in {">", ">=", "<", "<="} -> 5
      [] op \in {"+", "-"} -> 6 [] op \in {"*", "/", "%"} -> 7
      [] OTHER -> 9

Strength(t) == IF Len(t.args) = 1 /\ t.op \in Unaries THEN Unary ELSE Binds(t.op)

\* The tokens of an expression, given those of its operands
TokensOf(t, inside) ==
    LET Arg(k, demanded) ==
            IF Strength(t.args[k]) < demanded
            THEN <<"(">> \o inside[t.args[k]] \o <<")">> ELSE inside[t.args[k]]
        own == Strength(t)
    IN  CASE t.args = <<>> -> <<t.op>>
          [] own = Unary -> <<t.op>> \o Arg(1, Unary)
          [] t.op = "?" ->
                Arg(1, 1) \o <<"?">> \o Arg(2, Ternary) \o <<":">> \o Arg(3, Ternary)
          [] t.op = "." -> Arg(1, Member) \o <<".">> \o Arg(2, Member)
          [] t.op = "[]" -> Arg(1, Member) \o <<"[">> \o Arg(2, Ternary) \o <<"]">>
          [] t.op = "()" ->
                Arg(1, Member) \o <<"(">>
                    \o (CASE Len(t.args) = 1 -> <<>>
                          [] Len(t.args) = 2 -> Arg(2, Ternary)
                          [] OTHER -> Arg(2, Ternary) \o <<",">> \o Arg(3, Ternary))
                    \o <<")">>
          [] OTHER -> Arg(1, own) \o <<t.op>> \o Arg(2, own + 1)

\* Trees with at most n operators inside one another
Ops == Identifiers \cup Literals \cup Three \cup Two \cup One \cup {"[]", "()"}
Branching(inside) == [op : Ops, args : Seq(inside)]
Trees[n \in 0..MaxDepth] == Branching(IF n = 0 THEN {} ELSE Trees[n - 1])

WritingOf(n, inside) == [t \in Trees[n] |-> TokensOf(t, inside)]
Writing[n \in 0..MaxDepth] == WritingOf(n, IF n = 0 THEN {} ELSE Writing[n - 1])

Written(t) ==
    FoldLeft(LAMBDA text, token : text \o Spelling(token), <<>>, Writing[MaxDepth][t])

\* getCachedAst
Ast(text) == ParseExpression(Tokenize(text))

-----------------------------------------------------------------------------
\* An expression grows: it becomes an operand of another operator, one of every
\* level.
Grown(t) ==
    LET b == Leaf("b")
        half == Leaf(".5")
        text == Leaf("text")
        Operators == {"??", "||", "&&", "!==", "<=", "-", "*"}
    IN  {Node(op, <<t>>) : op \in Unaries \cup {"()"}}
        \cup {Node(op, <<t, half>>) : op \in Operators}
        \cup {Node(op, <<b, t>>) : op \in Operators \cup {"[]", "()"}}
        \cup {Node(".", <<t, b>>), Node("[]", <<t, text>>), Node("()", <<t, half>>)}
        \cup {Node(op, args) : op \in {"?", "()"},
                               args \in {<<t, half, text>>, <<b, t, half>>, <<b, text, t>>}}

ExpressionInit == tree = Leaf("a") /\ depth = 0

Grow ==
    /\ depth < MaxDepth
    /\ depth' = depth + 1
    /\ tree' \in Grown(tree)

ExpressionSpec == ExpressionInit /\ [][Grow]_expressionVars

-----------------------------------------------------------------------------
\* Every expression is read as it was written: its characters, with no spaces,
\* fall into the tokens that were meant, and each operator binds and groups as
\* its place in the grammar says, next to every other one.
ParsesAsWritten == Ast(Written(tree)).node = tree

=============================================================================
