-------------------------- MODULE Templates_proofs --------------------------
(***************************************************************************)
(* Proof that template expressions are parsed as they are written, for     *)
(* every depth.  In five parts: what the methods of the parser return when *)
(* called on an expression that other tokens surround (a Piece); what      *)
(* tokenize reads at a token, and when nothing behind it changes that      *)
(* (AnyToken); that the characters of a chain of safe neighbours are read  *)
(* as this chain (Tokenized); that every operator makes a piece and a safe *)
(* chain of those of its operands (UnarySays to TernarySays); and that     *)
(* the printer writes just that (GrownSound).                              *)
(***************************************************************************)
EXTENDS TemplateExpression, SequenceTheorems, TLAPS

(***************************************************************************)
(* What recurs                                                             *)
(***************************************************************************)
TreeStep(p, n, before) == Branching(before)
Growing == INSTANCE Recursion WITH Step <- TreeStep
WriteStep(p, n, before) == WritingOf(n, before)
Writes == INSTANCE Recursion WITH Step <- WriteStep
CallStep(s, n, before) == MethodsWith(s, before)
Calling == INSTANCE Recursion WITH Step <- CallStep
RoundStep(p, k, before) ==
    IF p.m = Member THEN MoreMember(p.s, before, p.call) ELSE MoreBinary(p.s, p.m, before, p.call)
Looped == INSTANCE Recursion WITH Step <- RoundStep
ArgumentStep(p, k, before) ==
    IF Follows(p.s, before, {","}) THEN Argument(Expect(p.s, ",", before), p.call) ELSE before
Listing == INSTANCE Recursion WITH Step <- ArgumentStep

\* What a recursive function of depth finds below
Inside(f, n) == IF n = 0 THEN {} ELSE f[n - 1]

\* The trees of n are made of those of n - 1.
LEMMA TreesSteps == \A n \in 0..MaxDepth : Trees[n] = Branching(Inside(Trees, n))
<1>1. Trees = Growing!Recursive(0, MaxDepth)
    BY Zenon DEF Trees, Growing!Recursive, Growing!Recurs, TreeStep
<1>2. QED
    BY <1>1, DepthBound, Growing!RecursionSteps, ZenonT(60) DEF Inside, TreeStep

\* So are their tokens.
LEMMA WritingSteps == \A n \in 0..MaxDepth : Writing[n] = WritingOf(n, Inside(Writing, n))
<1>1. Writing = Writes!Recursive(0, MaxDepth)
    BY Zenon DEF Writing, Writes!Recursive, Writes!Recurs, WriteStep
<1>2. QED
    BY <1>1, DepthBound, Writes!RecursionSteps, ZenonT(60) DEF Inside, WriteStep

\* The tokens, and the texts the parser gets: tokenize adds the end.
TokenNames == Identifiers \cup Literals \cup Three \cup Two \cup One
Streams == Seq(TokenNames \cup {"eof"})

\* Streams have a length.
LEMMA StreamsLong == \A s \in Streams : Len(s) \in Nat
BY StreamsLong

\* What the methods return, for every number of calls inside one another
Fuel(s) == 10 * Len(s)
CallsOf(s) == Calling!Recursive(s, Fuel(s))

\* What the methods return with n calls inside one another is made of what they
\* return with n - 1.
LEMMA CallsSteps ==
    ASSUME NEW s \in Streams
    PROVE  /\ Fuel(s) \in Nat
           /\ \A n \in 0..Fuel(s) : CallsOf(s)[n] = MethodsWith(s, Inside(CallsOf(s), n))
           /\ Parsing(s) = CallsOf(s)[Fuel(s)]
<1>1. Fuel(s) \in Nat
    BY StreamsLong DEF Fuel
<1>2. \A n \in 0..Fuel(s) : CallsOf(s)[n] = MethodsWith(s, Inside(CallsOf(s), n))
    BY <1>1, Calling!RecursionSteps, ZenonT(60) DEF CallsOf, Inside, CallStep
<1>3. Parsing(s) = CallsOf(s)[Fuel(s)]
    BY Zenon DEF Parsing, CallsOf, Fuel, Calling!Recursive, Calling!Recurs, CallStep
<1>4. QED
    BY <1>1, <1>2, <1>3

\* A loop begins with its first and goes on from what it had.
LEMMA RoundsSteps ==
    ASSUME NEW s \in Streams, NEW m, NEW first, NEW call
    PROVE  /\ Rounds(s, m, first, call)[0] = first
           /\ \A k \in Nat : k + 1 <= Len(s) =>
                Rounds(s, m, first, call)[k + 1] =
                  IF m = Member THEN MoreMember(s, Rounds(s, m, first, call)[k], call)
                  ELSE MoreBinary(s, m, Rounds(s, m, first, call)[k], call)
<1>1. PICK p : p = [s |-> s, m |-> m, call |-> call]
    OBVIOUS
<1>2. p.s = s /\ p.m = m /\ p.call = call
    BY <1>1
<1>3. PICK n : n = Len(s)
    OBVIOUS
<1>4. n \in Nat
    BY <1>3, StreamsLong
<1>5. Rounds(s, m, first, call) = Looped!Iterated(p, first, n)
    BY <1>2, <1>3, Zenon DEF Rounds, Looped!Iterated, Looped!Iterates, RoundStep
<1>6. PICK g : g = Looped!Iterated(p, first, n)
    OBVIOUS
<1>7. g[0] = first /\ \A k \in Nat : k + 1 <= n => g[k + 1] = RoundStep(p, k + 1, g[k])
    <2>1. /\ Looped!Iterated(p, first, n)[0] = first
          /\ \A k \in Nat : k + 1 <= n =>
                Looped!Iterated(p, first, n)[k + 1]
                  = RoundStep(p, k + 1, Looped!Iterated(p, first, n)[k])
        BY <1>4, Looped!IterationSteps
    <2>2. QED
        BY <1>6, <2>1
<1>8. \A k \in Nat : k + 1 <= n =>
        g[k + 1] = IF m = Member THEN MoreMember(s, g[k], call) ELSE MoreBinary(s, m, g[k], call)
    BY <1>2, <1>7, Zenon DEF RoundStep
<1>9. QED
    BY <1>3, <1>5, <1>6, <1>7, <1>8, Zenon

\* The arguments of a call, likewise
ArgsBegin(callee, at) == Parsed(Node("()", <<callee>>), at)
ArgRounds(s, callee, at, call) ==
    LET after[k \in 0..Len(s)] ==
            IF k = 0 THEN Argument(ArgsBegin(callee, at), call)
            ELSE LET before == after[k - 1] IN
                 IF Follows(s, before, {","}) THEN Argument(Expect(s, ",", before), call)
                 ELSE before
    IN  after

\* One more argument, and where it begins
Comma(s, r) == Follows(s, r, {","})
AfterComma(s, r) == Expect(s, ",", r)

\* A list of arguments is read one argument after the other.
LEMMA ArgRoundsSteps ==
    ASSUME NEW s \in Streams, NEW callee, NEW at, NEW call
    PROVE  /\ ArgRounds(s, callee, at, call)[0] = Argument(ArgsBegin(callee, at), call)
           /\ \A k \in Nat : k + 1 <= Len(s) =>
                ArgRounds(s, callee, at, call)[k + 1] =
                  IF Comma(s, ArgRounds(s, callee, at, call)[k])
                  THEN Argument(AfterComma(s, ArgRounds(s, callee, at, call)[k]), call)
                  ELSE ArgRounds(s, callee, at, call)[k]
<1>1. PICK p : p = [s |-> s, call |-> call]
    OBVIOUS
<1>2. p.s = s /\ p.call = call
    BY <1>1
<1>3. PICK n, first : n = Len(s) /\ first = Argument(ArgsBegin(callee, at), call)
    OBVIOUS
<1>4. n \in Nat
    BY <1>3, StreamsLong
<1>5. ArgRounds(s, callee, at, call) = Listing!Iterated(p, first, n)
    BY <1>2, <1>3, Zenon DEF ArgRounds, Listing!Iterated, Listing!Iterates, ArgumentStep
<1>6. PICK g : g = Listing!Iterated(p, first, n)
    OBVIOUS
<1>7. g[0] = first /\ \A k \in Nat : k + 1 <= n => g[k + 1] = ArgumentStep(p, k + 1, g[k])
    <2>1. /\ Listing!Iterated(p, first, n)[0] = first
          /\ \A k \in Nat : k + 1 <= n =>
                Listing!Iterated(p, first, n)[k + 1]
                  = ArgumentStep(p, k + 1, Listing!Iterated(p, first, n)[k])
        BY <1>4, Listing!IterationSteps
    <2>2. QED
        BY <1>6, <2>1
<1>8. \A k \in Nat : k + 1 <= n =>
        g[k + 1] = IF Comma(s, g[k]) THEN Argument(AfterComma(s, g[k]), call) ELSE g[k]
    BY <1>2, <1>7, Zenon DEF ArgumentStep, Comma, AfterComma
<1>9. QED
    BY <1>3, <1>5, <1>6, <1>7, <1>8, Zenon

\* ParseArgs in these words
LEMMA ArgsParsed ==
    ASSUME NEW s, NEW callee, NEW at, NEW call
    PROVE  ParseArgs(s, callee, at, call) =
             Expect(s, ")",
                IF s[at] = ")" THEN ArgsBegin(callee, at)
                ELSE ArgRounds(s, callee, at, call)
                        [CHOOSE k \in 0..Len(s) :
                            ~Comma(s, ArgRounds(s, callee, at, call)[k])])
BY Zenon DEF ParseArgs, ArgRounds, ArgsBegin, Comma

-----------------------------------------------------------------------------
(***************************************************************************)
(* What the methods return at a place where an expression is written       *)
(***************************************************************************)
Loops == (1..7) \cup {9}

\* What goes on at a method, and at it or a later one
Continues(m) ==
    CASE m = 0 -> {"?"} [] m = 8 -> {} [] m = 9 -> {".", "[", "("} [] OTHER -> Levels[m]
Extends(m) == UNION {Continues(k) : k \in m..9}

\* What a looping method begins with, and has after it went around
First(s, m, i, call) == IF m = Member THEN ParsePrimary(s, i, call) ELSE call[m + 1][i]
Turns(s, m, i, n) == Rounds(s, m, First(s, m, i, CallsOf(s)[n - 1]), CallsOf(s)[n - 1])

\* Enough calls for what is written between i and j
Enough(s, m, i, j) == {n \in 0..Fuel(s) : n >= 10 * (j - i) + 10 - m}

Gets(s, m, i, t, j) == \A n \in Enough(s, m, i, j) : CallsOf(s)[n][m][i] = Parsed(t, j)
Goes(s, m, i, t, j) ==
    \A n \in Enough(s, m, i, j) : \E k \in 0..(j - i) : Turns(s, m, i, n)[k] = Parsed(t, j)

\* A part of a text that something follows
Between(s, i, j) == i \in Nat \ {0} /\ j \in Nat /\ i < j /\ j <= Len(s)

\* The tokens after which each method goes on
LEMMA LevelsAre ==
    /\ Continues(0) = {"?"} /\ Continues(8) = {} /\ Continues(9) = {".", "[", "("}
    /\ Continues(1) = {"??"} /\ Continues(2) = {"||"} /\ Continues(3) = {"&&"}
    /\ Continues(4) = {"==", "!=", "===", "!=="} /\ Continues(5) = {">", ">=", "<", "<="}
    /\ Continues(6) = {"+", "-"} /\ Continues(7) = {"*", "/", "%"}
    /\ \A m \in 1..7 : Continues(m) = Levels[m]
BY DEF Continues, Levels

\* With enough calls inside one another there is one less, and that is enough for
\* the next method at the same index.
LEMMA EnoughIs ==
    ASSUME NEW s \in Streams, NEW i, NEW j, Between(s, i, j), NEW m \in Methods,
           NEW n \in Enough(s, m, i, j)
    PROVE  /\ n \in 1..Fuel(s) /\ n - 1 \in 0..Fuel(s)
           /\ i \in 1..Len(s) /\ j \in 1..Len(s) /\ Len(s) \in Nat /\ j - i \in 1..Len(s)
           /\ m + 1 \in Methods => n - 1 \in Enough(s, m + 1, i, j)
<1>1. Len(s) \in Nat /\ Fuel(s) = 10 * Len(s) /\ Fuel(s) \in Nat
    BY StreamsLong DEF Fuel
<1>2. i \in 1..Len(s) /\ j \in 1..Len(s) /\ j - i \in 1..Len(s)
    BY <1>1 DEF Between
<1>3. n \in Nat /\ n <= Fuel(s) /\ n >= 10 * (j - i) + 10 - m /\ m \in 0..9
    BY <1>1 DEF Enough, Methods
<1>4. n \in 1..Fuel(s) /\ n - 1 \in 0..Fuel(s)
    BY <1>1, <1>2, <1>3
<1>5. m + 1 \in Methods => n - 1 \in Enough(s, m + 1, i, j)
    BY <1>1, <1>2, <1>3, <1>4 DEF Enough, Methods
<1>6. QED
    BY <1>1, <1>2, <1>4, <1>5

\* A method is called at b, with enough calls for what is written up to j.
Called(s, b, j, m, n) ==
    s \in Streams /\ b \in Nat \ {0} /\ Between(s, b, j) /\ m \in Methods /\ n \in Enough(s, m, b, j)

\* What a method returns is made of what the methods return with one call less.
LEMMA CallIs ==
    ASSUME NEW s, NEW b, NEW j, NEW m, NEW n, Called(s, b, j, m, n)
    PROVE  CallsOf(s)[n][m][b] = Method(s, m, b, CallsOf(s)[n - 1])
<1>1. s \in Streams /\ Between(s, b, j) /\ m \in Methods /\ n \in Enough(s, m, b, j)
    BY DEF Called
<1>2. n \in 1..Fuel(s) /\ b \in 1..Len(s) /\ Fuel(s) \in Nat
    BY <1>1, EnoughIs, CallsSteps
<1>3. n \in 0..Fuel(s) /\ n # 0
    BY <1>2
<1>4. CallsOf(s)[n] = MethodsWith(s, CallsOf(s)[n - 1])
    BY <1>1, <1>3, CallsSteps DEF Inside
<1>5. QED
    BY <1>1, <1>2, <1>4 DEF MethodsWith

\* A loop that is not followed by what it takes has stopped.
LEMMA Stopped ==
    ASSUME NEW s, NEW m \in Loops, NEW r, NEW call, ~Follows(s, r, Continues(m))
    PROVE  IF m = Member THEN MoreMember(s, r, call) = r ELSE MoreBinary(s, m, r, call) = r
<1>1. CASE m = Member
    BY <1>1, LevelsAre DEF Member, Follows, MoreMember
<1>2. CASE m # Member
    <2>1. Continues(m) = Levels[m]
        BY <1>2, LevelsAre DEF Loops, Member
    <2>2. QED
        BY <1>2, <2>1 DEF MoreBinary
<1>3. QED
    BY <1>1, <1>2

\* A loop that has stopped stays as it is.
LEMMA RoundsStay ==
    ASSUME NEW s \in Streams, NEW m \in Loops, NEW first, NEW call,
           NEW a \in 0..Len(s), NEW b \in 0..Len(s), a <= b,
           ~Follows(s, Rounds(s, m, first, call)[a], Continues(m))
    PROVE  Rounds(s, m, first, call)[b] = Rounds(s, m, first, call)[a]
<1>1. PICK f : f = Rounds(s, m, first, call)
    OBVIOUS
<1>2. Len(s) \in Nat
    BY StreamsLong
<1> DEFINE S == {q \in Nat : a + q <= b => f[a + q] = f[a]}
<1>3. 0 \in S
    BY <1>2
<1>4. ASSUME NEW q \in Nat, q + 1 <= b - a, q \in S
      PROVE  q + 1 \in S
    <2>1. f[a + q] = f[a] /\ a + q \in Nat /\ (a + q) + 1 <= Len(s) /\ a + (q + 1) = (a + q) + 1
        BY <1>2, <1>4
    <2>2. f[(a + q) + 1] = IF m = Member THEN MoreMember(s, f[a + q], call)
                         ELSE MoreBinary(s, m, f[a + q], call)
        BY <1>1, <2>1, RoundsSteps
    <2>3. IF m = Member THEN MoreMember(s, f[a], call) = f[a]
          ELSE MoreBinary(s, m, f[a], call) = f[a]
        BY <1>1, Stopped
    <2>4. f[(a + q) + 1] = f[a]
        BY <2>1, <2>2, <2>3
    <2>5. QED
        BY <2>1, <2>4
<1>5. b - a \in S
    <2>1. b - a \in Nat
        BY <1>2
    <2> HIDE DEF S
    <2>2. QED
        BY <1>3, <1>4, <2>1, Looped!InductionTo
<1>6. QED
    BY <1>1, <1>2, <1>5

\* A looping method returns what it has when it stops.
LEMMA LoopingIs ==
    ASSUME NEW s \in Streams, NEW i, NEW j, Between(s, i, j), NEW m \in Loops,
           NEW n \in Enough(s, m, i, j), NEW k \in 0..(j - i), NEW r,
           Turns(s, m, i, n)[k] = r, ~Follows(s, r, Continues(m))
    PROVE  CallsOf(s)[n][m][i] = r
<1>1. m \in Methods /\ m # Ternary /\ m # Unary
    BY DEF Loops, Methods, Ternary, Unary
<1>2. CallsOf(s)[n][m][i] = Method(s, m, i, CallsOf(s)[n - 1]) /\ k \in 0..Len(s)
    <2>4. Called(s, i, j, m, n)
        BY <1>1 DEF Called, Between
    <2>1. j - i \in 1..Len(s) /\ Len(s) \in Nat
        BY <1>1, EnoughIs
    <2>2. k \in 0..Len(s)
        BY <2>1
    <2>3. QED
        BY <2>2, <2>4, CallIs
<1>3. PICK call : call = CallsOf(s)[n - 1]
    OBVIOUS
<1>4. PICK f : f = Rounds(s, m, First(s, m, i, call), call)
    OBVIOUS
<1>5. f = Turns(s, m, i, n)
    BY <1>3, <1>4 DEF Turns
<1>6. (IF m = Member THEN {".", "[", "("} ELSE Levels[m]) = Continues(m)
    BY <1>1, LevelsAre DEF Loops, Member
<1>7. Method(s, m, i, call) = Looping(s, m, i, call)
    BY <1>1 DEF Method
<1>8. Looping(s, m, i, call) = f[CHOOSE q \in 0..Len(s) : ~Follows(s, f[q], Continues(m))]
    BY <1>4, <1>6, Zenon DEF Looping, First
<1>9. PICK c : c = CHOOSE q \in 0..Len(s) : ~Follows(s, f[q], Continues(m))
    OBVIOUS
<1>10. f[k] = r /\ ~Follows(s, f[k], Continues(m))
    BY <1>5
<1>11. c \in 0..Len(s) /\ ~Follows(s, f[c], Continues(m))
    BY <1>2, <1>9, <1>10, Zenon
<1>12. f[c] = f[k]
    <2>1. Len(s) \in Nat
        BY StreamsLong
    <2>2. CASE c <= k
        BY <1>2, <1>4, <1>11, <2>2, RoundsStay
    <2>3. CASE k <= c
        BY <1>2, <1>4, <1>10, <1>11, <2>3, RoundsStay
    <2>4. QED
        BY <1>2, <1>11, <2>1, <2>2, <2>3
<1>13. QED
    BY <1>2, <1>3, <1>7, <1>8, <1>9, <1>10, <1>12

\* What was parsed, and what comes after it
LEMMA ParsedIs ==
    ASSUME NEW t, NEW j \in Nat, j # 0
    PROVE  /\ Parsed(t, j).node = t /\ Parsed(t, j).next = j /\ ~Threw(Parsed(t, j))
           /\ \A s, T : Follows(s, Parsed(t, j), T) <=> s[j] \in T
BY DEF Parsed, Threw, Follows

\* A method whose loop comes to a token it does not take returns what it has.
LEMMA StopsThere ==
    ASSUME NEW s \in Streams, NEW i, NEW j, Between(s, i, j), NEW m \in Loops, NEW t,
           Goes(s, m, i, t, j), s[j] \notin Continues(m)
    PROVE  Gets(s, m, i, t, j)
<1> SUFFICES ASSUME NEW n \in Enough(s, m, i, j)
             PROVE  CallsOf(s)[n][m][i] = Parsed(t, j)
    BY DEF Gets
<1>1. PICK k \in 0..(j - i) : Turns(s, m, i, n)[k] = Parsed(t, j)
    BY DEF Goes
<1>2. ~Follows(s, Parsed(t, j), Continues(m))
    BY ParsedIs DEF Between
<1>3. QED
    BY <1>1, <1>2, LoopingIs

\* A method that has nothing to do returns what the next one does.
LEMMA BinaryDown ==
    ASSUME NEW s \in Streams, NEW i, NEW j, Between(s, i, j), NEW m \in 1..7, NEW t,
           Gets(s, m + 1, i, t, j)
    PROVE  Goes(s, m, i, t, j)
<1> SUFFICES ASSUME NEW n \in Enough(s, m, i, j)
             PROVE  Turns(s, m, i, n)[0] = Parsed(t, j) /\ 0 \in 0..(j - i)
    BY DEF Goes
<1>1. m \in Methods /\ m + 1 \in Methods /\ m # Member
    BY DEF Methods, Member
<1>2. n - 1 \in Enough(s, m + 1, i, j) /\ j - i \in 1..Len(s)
    BY <1>1, EnoughIs
<1>3. Turns(s, m, i, n)[0] = First(s, m, i, CallsOf(s)[n - 1])
    BY RoundsSteps DEF Turns
<1>4. First(s, m, i, CallsOf(s)[n - 1]) = CallsOf(s)[n - 1][m + 1][i]
    BY <1>1 DEF First
<1>5. QED
    BY <1>2, <1>3, <1>4 DEF Gets

\* parseUnary returns what parseMember does where no prefix operator begins.
LEMMA UnaryDown ==
    ASSUME NEW s \in Streams, NEW i, NEW j, Between(s, i, j), NEW t,
           Gets(s, 9, i, t, j), s[i] \notin Unaries
    PROVE  Gets(s, 8, i, t, j)
<1> SUFFICES ASSUME NEW n \in Enough(s, 8, i, j)
             PROVE  CallsOf(s)[n][8][i] = Parsed(t, j)
    BY DEF Gets
<1>1. 8 \in Methods /\ 8 + 1 \in Methods /\ 8 + 1 = 9
    BY DEF Methods
<1>2. CallsOf(s)[n][8][i] = Method(s, 8, i, CallsOf(s)[n - 1]) /\ n - 1 \in Enough(s, 9, i, j)
    <2>1. Called(s, i, j, 8, n)
        BY <1>1 DEF Called, Between
    <2>2. QED
        BY <1>1, <2>1, EnoughIs, CallIs
<1>3. Method(s, 8, i, CallsOf(s)[n - 1]) = ParseUnary(s, i, CallsOf(s)[n - 1])
    BY DEF Method, Ternary, Unary
<1>4. ParseUnary(s, i, CallsOf(s)[n - 1]) = CallsOf(s)[n - 1][9][i]
    BY DEF ParseUnary, Member
<1>5. QED
    BY <1>2, <1>3, <1>4 DEF Gets

\* parseTernary returns what parseNullish does where no question mark follows.
LEMMA TernaryDown ==
    ASSUME NEW s \in Streams, NEW i, NEW j, Between(s, i, j), NEW t,
           Gets(s, 1, i, t, j), s[j] # "?"
    PROVE  Gets(s, 0, i, t, j)
<1> SUFFICES ASSUME NEW n \in Enough(s, 0, i, j)
             PROVE  CallsOf(s)[n][0][i] = Parsed(t, j)
    BY DEF Gets
<1>1. 0 \in Methods /\ 0 + 1 \in Methods /\ 0 + 1 = 1
    BY DEF Methods
<1>2. CallsOf(s)[n][0][i] = Method(s, 0, i, CallsOf(s)[n - 1]) /\ n - 1 \in Enough(s, 1, i, j)
    <2>1. Called(s, i, j, 0, n)
        BY <1>1 DEF Called, Between
    <2>2. QED
        BY <1>1, <2>1, EnoughIs, CallIs
<1>3. Method(s, 0, i, CallsOf(s)[n - 1]) = ParseTernary(s, i, CallsOf(s)[n - 1])
    BY DEF Method, Ternary, Unary
<1>4. CallsOf(s)[n - 1][1][i] = Parsed(t, j)
    BY <1>2 DEF Gets
<1>5. ~Follows(s, CallsOf(s)[n - 1][1][i], {"?"})
    BY <1>4, ParsedIs, SMTT(30) DEF Between
<1>6. ParseTernary(s, i, CallsOf(s)[n - 1]) = CallsOf(s)[n - 1][1][i]
    BY <1>5 DEF ParseTernary
<1>7. QED
    BY <1>2, <1>3, <1>4, <1>6

-----------------------------------------------------------------------------
(***************************************************************************)
(* An expression that is written is returned by the methods down to the    *)
(* one that it belongs to, its core.                                       *)
(***************************************************************************)
Stops(m, s, j) == s[j] \notin Extends(m)

\* What e knows of an expression: it has got it, when no operator of its own or
\* above follows; a looping method has also got it with operators of its own
\* behind, and goes on.
Core(e, s, i, t, j) ==
    /\ e \in Loops /\ Stops(e + 1, s, j) => Goes(s, e, i, t, j)
    /\ e \notin Loops /\ Stops(e, s, j) => Gets(s, e, i, t, j)

\* What any method up to e knows of it
Known(m, s, i, t, j) ==
    /\ m \in Loops /\ Stops(m + 1, s, j) => Goes(s, m, i, t, j)
    /\ Stops(m, s, j) => Gets(s, m, i, t, j)

\* What extends an expression at a level: its own operators, and those above it
LEMMA ExtendsIs ==
    ASSUME NEW m \in Methods
    PROVE  Extends(m) = Continues(m) \cup Extends(m + 1)
<1>1. m..9 = {m} \cup ((m + 1)..9)
    BY DEF Methods
<1>2. QED
    BY <1>1 DEF Extends

\* What its own method knows of an expression
LEMMA CoreIsKnown ==
    ASSUME NEW e \in Methods, NEW s \in Streams, NEW i, NEW j, Between(s, i, j), NEW t,
           Core(e, s, i, t, j)
    PROVE  Known(e, s, i, t, j)
<1>1. Stops(e, s, j) => Stops(e + 1, s, j) /\ s[j] \notin Continues(e)
    BY ExtendsIs DEF Stops
<1>2. CASE e \in Loops
    BY <1>1, <1>2, StopsThere DEF Core, Known
<1>3. CASE e \notin Loops
    BY <1>3 DEF Core, Known
<1>4. QED
    BY <1>2, <1>3

\* What a method knows the method before it knows.
LEMMA KnownBefore ==
    ASSUME NEW m \in Methods, m # 9, NEW s \in Streams, NEW i, NEW j, Between(s, i, j), NEW t,
           Known(m + 1, s, i, t, j), m = 8 => s[i] \notin Unaries
    PROVE  Known(m, s, i, t, j)
<1>1. Stops(m, s, j) => Stops(m + 1, s, j) /\ s[j] \notin Continues(m)
    BY ExtendsIs DEF Stops
<1>2. CASE m \in 1..7
    <2>1. Stops(m + 1, s, j) => Goes(s, m, i, t, j)
        BY <1>2, BinaryDown DEF Known
    <2>2. Stops(m, s, j) => Gets(s, m, i, t, j)
        BY <1>1, <1>2, <2>1, StopsThere DEF Loops
    <2>3. QED
        BY <2>1, <2>2 DEF Known
<1>3. CASE m = 8
    BY <1>1, <1>3, UnaryDown DEF Known, Loops
<1>4. CASE m = 0
    BY <1>1, <1>4, TernaryDown, LevelsAre DEF Known, Loops
<1>5. QED
    BY <1>2, <1>3, <1>4 DEF Methods

\* So every method up to its own knows it.
LEMMA KnownAll ==
    ASSUME NEW e \in Methods, NEW s \in Streams, NEW i, NEW j, Between(s, i, j), NEW t,
           Core(e, s, i, t, j), e = 9 => s[i] \notin Unaries
    PROVE  \A m \in 0..e : Known(m, s, i, t, j)
<1> DEFINE S == {q \in Nat : q <= e => Known(e - q, s, i, t, j)}
<1>1. 0 \in S
    BY CoreIsKnown DEF Methods
<1>2. ASSUME NEW q \in Nat, q \in S
      PROVE  q + 1 \in S
    <2> SUFFICES ASSUME q + 1 <= e
                 PROVE  Known(e - (q + 1), s, i, t, j)
        OBVIOUS
    <2>1. PICK m : m = e - (q + 1)
        OBVIOUS
    <2>2. m \in Methods /\ m # 9 /\ m + 1 = e - q /\ (m = 8 => e = 9) /\ q <= e
        BY <2>1 DEF Methods
    <2>3. Known(m + 1, s, i, t, j)
        BY <1>2, <2>2
    <2>4. Known(m, s, i, t, j)
        BY <2>2, <2>3, KnownBefore
    <2>5. QED
        BY <2>1, <2>4
<1>3. Nat \subseteq S
    <2> HIDE DEF S
    <2> QED
        BY <1>1, <1>2, Looped!SetInduction
<1>4. ASSUME NEW m \in 0..e
      PROVE  Known(m, s, i, t, j)
    <2>1. e - m \in Nat /\ e - m <= e /\ e - (e - m) = m
        BY DEF Methods
    <2>2. QED
        BY <1>3, <2>1
<1>5. QED
    BY <1>4

-----------------------------------------------------------------------------
(***************************************************************************)
(* Texts in parts                                                          *)
(***************************************************************************)
InParts(s, i, u, v, w) ==
    /\ WrittenAt(s, i, u) /\ WrittenAt(s, i + Len(u), v)
    /\ w \in Seq(TokenNames) /\ Len(w) = Len(u) + Len(v) /\ Len(u) \in Nat /\ Len(v) \in Nat
    /\ i + Len(w) = (i + Len(u)) + Len(v)

\* What is written in two parts
LEMMA PartsAt ==
    ASSUME NEW s \in Streams, NEW i \in Nat \ {0},
           NEW u \in Seq(TokenNames), NEW v \in Seq(TokenNames), NEW w, w = u \o v,
           WrittenAt(s, i, w)
    PROVE  InParts(s, i, u, v, w)
<1>2. /\ w \in Seq(TokenNames) /\ Len(w) = Len(u) + Len(v) /\ Len(u) \in Nat /\ Len(v) \in Nat
      /\ \A k \in 1..Len(w) : w[k] = IF k <= Len(u) THEN u[k] ELSE v[k - Len(u)]
    BY ConcatProperties, LenProperties
<1>1. Len(s) \in Nat
    BY StreamsLong
<1>3. i + Len(w) <= Len(s) + 1 /\ \A k \in 1..Len(w) : s[i + k - 1] = w[k]
    BY DEF WrittenAt
<1>4. WrittenAt(s, i, u)
    <2>1. \A k \in 1..Len(u) : k \in 1..Len(w) /\ w[k] = u[k]
        BY <1>2
    <2>2. QED
        BY <1>2, <1>3, <2>1 DEF WrittenAt
<1>5. WrittenAt(s, i + Len(u), v)
    <2>1. ASSUME NEW k \in 1..Len(v)
          PROVE  s[(i + Len(u)) + k - 1] = v[k]
        <3>1. PICK q : q = Len(u) + k
            OBVIOUS
        <3>2. q \in 1..Len(w) /\ ~(q <= Len(u)) /\ q - Len(u) = k
              /\ i + q - 1 = (i + Len(u)) + k - 1
            BY <1>2, <3>1
        <3>3. QED
            BY <1>2, <1>3, <3>2
    <2>2. QED
        BY <1>1, <1>2, <1>3, <2>1 DEF WrittenAt
<1>6. QED
    BY <1>2, <1>4, <1>5 DEF InParts

\* A text of one token
LEMMA TokenAt ==
    ASSUME NEW S, NEW s \in Seq(S), NEW i \in Nat \ {0}, NEW x, WrittenAt(s, i, <<x>>)
    PROVE  s[i] = x /\ Len(<<x>>) = 1 /\ i \in 1..Len(s)
<1>1. Len(<<x>>) = 1 /\ <<x>>[1] = x /\ Len(s) \in Nat
    BY LenProperties
<1>2. s[i + 1 - 1] = <<x>>[1] /\ i + 1 <= Len(s) + 1
    BY <1>1 DEF WrittenAt
<1>3. QED
    BY <1>1, <1>2

\* The first token of a text is where the text is.
LEMMA FirstAt ==
    ASSUME NEW S, NEW s \in Seq(S), NEW i \in Nat \ {0}, NEW T, NEW w \in Seq(T), w # <<>>,
           WrittenAt(s, i, w)
    PROVE  s[i] = w[1] /\ Len(w) \in Nat /\ Len(w) >= 1
<1>1. Len(w) \in Nat /\ Len(w) >= 1
    BY EmptySeq, LenProperties
<1>2. 1 \in 1..Len(w) /\ i + 1 - 1 = i
    BY <1>1
<1>3. QED
    BY <1>1, <1>2 DEF WrittenAt

-----------------------------------------------------------------------------
(***************************************************************************)
(* What is parsed of a piece of text, with its core at e                   *)
(***************************************************************************)
Starters == Identifiers \cup Literals \cup {"("} \cup Unaries

\* Wherever w is written, method e gets t of it, unless what follows extends it.
ReadsAs(e, t, w) ==
    \A s \in Streams : \A i \in Nat \ {0} :
        WrittenAt(s, i, w) /\ i + Len(w) <= Len(s) => Core(e, s, i, t, i + Len(w))

\* The tokens w are an expression t that method e parses.
Piece(e, t, w) ==
    /\ e \in Methods
    /\ w \in Seq(TokenNames) /\ w # <<>>
    /\ w[1] \in Starters
    /\ e = 9 => w[1] \notin Unaries
    /\ ReadsAs(e, t, w)

\* Every method up to its own parses an expression wherever it is written.
LEMMA PieceKnown ==
    ASSUME NEW e, NEW t, NEW w, Piece(e, t, w),
           NEW s \in Streams, NEW i \in Nat \ {0}, WrittenAt(s, i, w), i + Len(w) <= Len(s)
    PROVE  /\ Between(s, i, i + Len(w)) /\ s[i] = w[1]
           /\ \A m \in 0..e : Known(m, s, i, t, i + Len(w))
<1>1. s[i] = w[1] /\ Len(w) \in Nat /\ Len(w) >= 1
    BY FirstAt DEF Streams, Piece
<1>2. Between(s, i, i + Len(w))
    BY <1>1 DEF Between
<1>3. Core(e, s, i, t, i + Len(w))
    BY DEF Piece, ReadsAs
<1>4. QED
    BY <1>1, <1>2, <1>3, KnownAll DEF Piece

\* A call for less text has enough.
LEMMA Fewer ==
    ASSUME NEW s \in Streams, NEW i, NEW j, Between(s, i, j), NEW m \in Methods,
           NEW n \in Enough(s, m, i, j)
    PROVE  /\ \A p, q : \A l \in Methods : Between(s, p, q) /\ i < p /\ q <= j =>
                 n - 1 \in Enough(s, l, p, q)
           /\ \A q : Between(s, i, q) /\ q <= j => n \in Enough(s, m, i, q)
<1>1. Len(s) \in Nat /\ Fuel(s) = 10 * Len(s) /\ n \in 1..Fuel(s)
    BY EnoughIs DEF Fuel
<1>2. n >= 10 * (j - i) + 10 - m
    BY DEF Enough
<1>3. ASSUME NEW p, NEW q, NEW l \in Methods, Between(s, p, q), i < p, q <= j
      PROVE  n - 1 \in Enough(s, l, p, q)
    BY <1>1, <1>2, <1>3 DEF Enough, Between, Methods
<1>4. ASSUME NEW q, Between(s, i, q), q <= j
      PROVE  n \in Enough(s, m, i, q)
    BY <1>1, <1>2, <1>4 DEF Enough, Between, Methods
<1>5. QED
    BY <1>3, <1>4

\* What is got once more by the loop
LEMMA GoesOn ==
    ASSUME NEW s \in Streams, NEW i, NEW j, Between(s, i, j), NEW m \in Loops,
           NEW a, NEW q, Between(s, i, q), q < j, Goes(s, m, i, a, q),
           NEW n \in Enough(s, m, i, j), NEW r,
           (IF m = Member THEN MoreMember(s, Parsed(a, q), CallsOf(s)[n - 1])
            ELSE MoreBinary(s, m, Parsed(a, q), CallsOf(s)[n - 1])) = r
    PROVE  \E k \in 0..(j - i) : Turns(s, m, i, n)[k] = r
<1>1. m \in Methods
    BY DEF Loops, Methods
<1>2. n \in Enough(s, m, i, q)
    <2>1. q <= j
        BY DEF Between
    <2>2. QED
        BY <1>1, <2>1, Fewer
<1>3. PICK k \in 0..(q - i) : Turns(s, m, i, n)[k] = Parsed(a, q)
    BY <1>2 DEF Goes
<1>4. k \in Nat /\ k + 1 <= Len(s) /\ k + 1 \in 0..(j - i)
    <2>1. Len(s) \in Nat
        BY StreamsLong
    <2>2. QED
        BY <2>1 DEF Between
<1>5. Turns(s, m, i, n)[k + 1] = r
    BY <1>3, <1>4, RoundsSteps DEF Turns
<1>6. QED
    BY <1>4, <1>5

-----------------------------------------------------------------------------
(***************************************************************************)
(* What is written of every kind of expression is read as that expression. *)
(***************************************************************************)
Infixed(s, i, u, x, v, j, q, p) ==
    /\ q \in Nat \ {0} /\ p \in Nat \ {0} /\ q = i + Len(u) /\ p = q + 1 /\ p + Len(v) = j
    /\ WrittenAt(s, i, u) /\ s[q] = x /\ q \in 1..Len(s) /\ WrittenAt(s, p, v)
    /\ Len(u) \in Nat /\ Len(v) \in Nat /\ j \in Nat

\* A token between two texts
LEMMA InfixAt ==
    ASSUME NEW s \in Streams, NEW i \in Nat \ {0}, NEW u \in Seq(TokenNames), NEW x \in TokenNames,
           NEW v \in Seq(TokenNames), NEW w, w = u \o <<x>> \o v, WrittenAt(s, i, w),
           NEW j, j = i + Len(w)
    PROVE  \E q, p : Infixed(s, i, u, x, v, j, q, p)
<1>1. <<x>> \in Seq(TokenNames) /\ s \in Seq(TokenNames \cup {"eof"})
    BY DEF Streams
<1>2. u \o <<x>> \in Seq(TokenNames)
    BY <1>1, ConcatProperties
<1>3. PICK a : a = u \o <<x>>
    OBVIOUS
<1>4. /\ WrittenAt(s, i, a) /\ WrittenAt(s, i + Len(a), v)
      /\ j = (i + Len(a)) + Len(v) /\ Len(v) \in Nat
    <2>1. a \in Seq(TokenNames) /\ w = a \o v
        BY <1>2, <1>3, Zenon
    <2>2. InParts(s, i, a, v, w)
        BY <2>1, PartsAt, Zenon
    <2>3. QED
        BY <2>2 DEF InParts
<1>5. /\ WrittenAt(s, i, u) /\ WrittenAt(s, i + Len(u), <<x>>)
      /\ i + Len(a) = (i + Len(u)) + Len(<<x>>) /\ Len(u) \in Nat
    <2>1. InParts(s, i, u, <<x>>, a)
        BY <1>1, <1>3, <1>4, PartsAt, Zenon
    <2>2. QED
        BY <2>1 DEF InParts
<1>6. PICK q, p : q = i + Len(u) /\ p = q + 1
    OBVIOUS
<1>7. s[q] = x /\ Len(<<x>>) = 1 /\ q \in 1..Len(s)
    <2>1. q \in Nat \ {0}
        BY <1>5, <1>6
    <2>2. QED
        BY <1>1, <1>5, <1>6, <2>1, TokenAt
<1>8. q \in Nat \ {0} /\ p \in Nat \ {0} /\ p = i + Len(a) /\ j \in Nat
    BY <1>4, <1>5, <1>6, <1>7
<1>9. Infixed(s, i, u, x, v, j, q, p)
    BY <1>4, <1>5, <1>6, <1>7, <1>8 DEF Infixed
<1>10. QED
    BY <1>9

\* A token x before v
Prefixed(s, i, x, v, j, p) ==
    /\ p = i + 1 /\ p \in Nat \ {0} /\ p + Len(v) = j /\ j \in Nat
    /\ s[i] = x /\ i \in 1..Len(s) /\ WrittenAt(s, p, v) /\ Len(v) \in Nat

\* A token before a text
LEMMA PrefixAt ==
    ASSUME NEW s \in Streams, NEW i \in Nat \ {0}, NEW x \in TokenNames,
           NEW v \in Seq(TokenNames), NEW w, w = <<x>> \o v, WrittenAt(s, i, w),
           NEW j, j = i + Len(w)
    PROVE  \E p : Prefixed(s, i, x, v, j, p)
<1>1. <<x>> \in Seq(TokenNames) /\ s \in Seq(TokenNames \cup {"eof"})
    BY DEF Streams
<1>2. /\ WrittenAt(s, i, <<x>>) /\ WrittenAt(s, i + Len(<<x>>), v)
      /\ j = (i + Len(<<x>>)) + Len(v) /\ Len(v) \in Nat
    <2>1. InParts(s, i, <<x>>, v, w)
        BY <1>1, PartsAt, Zenon
    <2>2. QED
        BY <2>1 DEF InParts
<1>3. s[i] = x /\ Len(<<x>>) = 1 /\ i \in 1..Len(s)
    BY <1>1, <1>2, TokenAt
<1>4. PICK p : p = i + 1
    OBVIOUS
<1>5. Prefixed(s, i, x, v, j, p)
    BY <1>2, <1>3, <1>4 DEF Prefixed
<1>6. QED
    BY <1>5

\* v between two tokens
Enclosed(s, i, x, v, y, j, p, q) ==
    /\ p = i + 1 /\ q = p + Len(v) /\ q + 1 = j /\ j \in Nat
    /\ p \in Nat \ {0} /\ q \in Nat \ {0} /\ i \in 1..Len(s) /\ q \in 1..Len(s) /\ i < q
    /\ s[i] = x /\ WrittenAt(s, p, v) /\ s[q] = y /\ Len(v) \in Nat

\* A text between two tokens
LEMMA EnclosedAt ==
    ASSUME NEW s \in Streams, NEW i \in Nat \ {0}, NEW x \in TokenNames, NEW y \in TokenNames,
           NEW v \in Seq(TokenNames), NEW w, w = <<x>> \o v \o <<y>>, WrittenAt(s, i, w),
           NEW j, j = i + Len(w)
    PROVE  \E p, q : Enclosed(s, i, x, v, y, j, p, q)
<1>1. <<x>> \in Seq(TokenNames) /\ <<y>> \in Seq(TokenNames) /\ s \in Seq(TokenNames \cup {"eof"})
    BY DEF Streams
<1>2. <<x>> \o v \in Seq(TokenNames)
    BY <1>1, ConcatProperties
<1>3. PICK a : a = <<x>> \o v
    OBVIOUS
<1>4. /\ WrittenAt(s, i, a) /\ WrittenAt(s, i + Len(a), <<y>>)
      /\ j = (i + Len(a)) + Len(<<y>>)
    <2>1. a \in Seq(TokenNames) /\ w = a \o <<y>>
        BY <1>2, <1>3, Zenon
    <2>2. InParts(s, i, a, <<y>>, w)
        BY <1>1, <2>1, PartsAt, Zenon
    <2>3. QED
        BY <2>2 DEF InParts
<1>5. PICK q : q = i + Len(a)
    OBVIOUS
<1>6. PICK p : Prefixed(s, i, x, v, q, p)
    BY <1>3, <1>4, <1>5, PrefixAt, Zenon
<1>7. q \in Nat \ {0} /\ i < q
    BY <1>6 DEF Prefixed
<1>8. s[q] = y /\ Len(<<y>>) = 1 /\ q \in 1..Len(s)
    BY <1>1, <1>4, <1>5, <1>7, TokenAt
<1>9. Enclosed(s, i, x, v, y, j, p, q)
    BY <1>4, <1>5, <1>6, <1>7, <1>8 DEF Enclosed, Prefixed
<1>10. QED
    BY <1>9

\* A name, a number or a string is parsed by parsePrimary.
LEMMA LeafReads ==
    ASSUME NEW x \in Identifiers \cup Literals
    PROVE  ReadsAs(9, Leaf(x), <<x>>)
<1> SUFFICES ASSUME NEW s \in Streams, NEW i \in Nat \ {0}, WrittenAt(s, i, <<x>>),
                    i + Len(<<x>>) <= Len(s), NEW n \in Enough(s, 9, i, i + Len(<<x>>))
             PROVE  /\ 0 \in 0..(i + Len(<<x>>) - i)
                    /\ Turns(s, 9, i, n)[0] = Parsed(Leaf(x), i + Len(<<x>>))
    BY DEF ReadsAs, Core, Goes, Loops
<1>1. s[i] = x /\ Len(<<x>>) = 1
    BY TokenAt DEF Streams
<1>2. Turns(s, 9, i, n)[0] = First(s, 9, i, CallsOf(s)[n - 1])
    BY RoundsSteps DEF Turns
<1>3. First(s, 9, i, CallsOf(s)[n - 1]) = ParsePrimary(s, i, CallsOf(s)[n - 1])
    BY DEF First, Member
<1>4. ParsePrimary(s, i, CallsOf(s)[n - 1]) = Parsed(Leaf(s[i]), i + 1)
    BY <1>1 DEF ParsePrimary, Identifiers, Literals
<1>5. QED
    BY <1>1, <1>2, <1>3, <1>4

\* expect takes the token that is there.
LEMMA ExpectIs ==
    ASSUME NEW s, NEW x, NEW t, NEW j \in Nat \ {0}, s[j] = x
    PROVE  Expect(s, x, Parsed(t, j)) = Parsed(t, j + 1)
BY ParsedIs DEF Expect

\* The tokens that close what is inside others
Closers == {")", "]", ":", ",", "eof"}

\* No closing token extends an expression.
LEMMA ClosersEnd == \A x \in Closers : \A m \in Nat : x \notin Extends(m)
<1>1. ASSUME NEW m \in 0..9, NEW x \in Closers
      PROVE  x \notin Continues(m)
    <2>1. m \in {0, 1, 2, 3, 4, 5, 6, 7, 8, 9}
        OBVIOUS
    <2>2. x \notin {"?", ".", "[", "(", "??", "||", "&&", "==", "!=", "===", "!==", ">", ">=", "<", "<=",
                    "+", "-", "*", "/", "%"}
        BY DEF Closers
    <2>3. Continues(m) \subseteq {"?", ".", "[", "(", "??", "||", "&&", "==", "!=", "===", "!==",
                                  ">", ">=", "<", "<=", "+", "-", "*", "/", "%"}
        BY <2>1, LevelsAre
    <2>4. QED
        BY <2>2, <2>3
<1>2. QED
    BY <1>1 DEF Extends

\* A piece is written from p up to q.
Bears(s, p, q, e, t, w) ==
    /\ s \in Streams /\ p \in Nat \ {0} /\ Piece(e, t, w)
    /\ WrittenAt(s, p, w) /\ q = p + Len(w)

\* A call inside another one parses the expression it comes to.
LEMMA PieceGets ==
    ASSUME NEW s, NEW p, NEW q, NEW e, NEW t, NEW w, Bears(s, p, q, e, t, w),
           NEW b, NEW j, NEW m, NEW n, Called(s, b, j, m, n), b < p, q <= j,
           NEW l \in 0..e, Stops(l, s, q)
    PROVE  CallsOf(s)[n - 1][l][p] = Parsed(t, q) /\ q \in Nat \ {0}
<1>1. Len(w) \in Nat /\ Len(s) \in Nat
    BY LenProperties DEF Piece, Streams, Bears, Called
<1>2. q \in Nat \ {0} /\ q <= Len(s)
    BY <1>1 DEF Between, Bears, Called
<1>3. Between(s, p, q) /\ Known(l, s, p, t, q)
    BY <1>2, PieceKnown DEF Bears
<1>4. Gets(s, l, p, t, q)
    BY <1>3 DEF Known
<1>5. n - 1 \in Enough(s, l, p, q)
    <2>1. l \in Methods
        BY DEF Piece, Methods, Bears
    <2>2. QED
        BY <1>3, <2>1, Fewer DEF Called
<1>6. QED
    BY <1>2, <1>4, <1>5 DEF Gets

\* What is before a closing token
AtCloser(s, q) == s[q] \in Closers

\* A closing token closes.
LEMMA ClosedBy == \A s, q : \A x \in Closers : s[q] = x => AtCloser(s, q)
BY DEF AtCloser

\* Up to a closing token, parseTernary parses any expression.
LEMMA EnclosedGets ==
    ASSUME NEW s, NEW p, NEW q, NEW e, NEW t, NEW w, Bears(s, p, q, e, t, w),
           NEW b, NEW j, NEW m, NEW n, Called(s, b, j, m, n), b < p, q <= j, AtCloser(s, q)
    PROVE  CallsOf(s)[n - 1][Ternary][p] = Parsed(t, q) /\ q \in Nat \ {0}
<1>1. 0 \in 0..e
    BY DEF Piece, Methods, Bears
<1>2. Stops(0, s, q)
    BY ClosersEnd DEF Stops, AtCloser
<1>3. CallsOf(s)[n - 1][0][p] = Parsed(t, q) /\ q \in Nat \ {0}
    BY <1>1, <1>2, PieceGets
<1>4. Ternary = 0
    BY DEF Ternary
<1>5. QED
    BY <1>3, <1>4, Zenon

\* Methods by their numbers
LEMMA MethodsAre == {0, 1, 8, 9} \subseteq Methods /\ 1..7 \subseteq Methods /\ 2..8 \subseteq Methods
BY DEF Methods

\* Punctuation is tokens.
LEMMA PunctuationNamed ==
    {"?", ":", ".", ",", "(", ")", "[", "]"} \cup Unaries \subseteq TokenNames
BY DEF TokenNames, One, Unaries

\* In parentheses every expression is parsed by parsePrimary.
LEMMA ParenthesesRead ==
    ASSUME NEW e, NEW t, NEW v, Piece(e, t, v)
    PROVE  Piece(9, t, <<"(">> \o v \o <<")">>)
<1>1. PICK w : w = <<"(">> \o v \o <<")">>
    OBVIOUS
<1>2. v \in Seq(TokenNames) /\ "(" \in TokenNames /\ ")" \in TokenNames
    BY PunctuationNamed DEF Piece
<1>3. w \in Seq(TokenNames) /\ w # <<>> /\ w[1] = "("
    BY <1>1, <1>2
<1>4. ReadsAs(9, t, w)
    <2> SUFFICES ASSUME NEW s \in Streams, NEW i \in Nat \ {0}, WrittenAt(s, i, w),
                        NEW j, j = i + Len(w), j <= Len(s), NEW n \in Enough(s, 9, i, j)
                 PROVE  0 \in 0..(j - i) /\ Turns(s, 9, i, n)[0] = Parsed(t, j)
        BY DEF ReadsAs, Core, Goes, Loops
    <2>1. PICK p, q : Enclosed(s, i, "(", v, ")", j, p, q)
        BY <1>1, <1>2, EnclosedAt, Zenon
    <2>2. Between(s, i, j) /\ q <= j /\ i < p /\ 0 \in 0..(j - i)
        BY <2>1 DEF Between, Enclosed
    <2>3. Turns(s, 9, i, n)[0] = First(s, 9, i, CallsOf(s)[n - 1])
        BY RoundsSteps DEF Turns
    <2>4. First(s, 9, i, CallsOf(s)[n - 1]) = ParsePrimary(s, i, CallsOf(s)[n - 1])
        BY DEF First, Member
    <2>5. ParsePrimary(s, i, CallsOf(s)[n - 1]) = Expect(s, ")", CallsOf(s)[n - 1][Ternary][i + 1])
        BY <2>1 DEF ParsePrimary, Identifiers, Literals, Enclosed
    <2>6. Expect(s, ")", CallsOf(s)[n - 1][Ternary][p]) = Parsed(t, q + 1)
        <3>1. Bears(s, p, q, e, t, v) /\ s[q] = ")"
            BY <2>1 DEF Enclosed, Bears
        <3>2. Called(s, i, j, 9, n)
            BY <2>2, MethodsAre DEF Called
        <3>3. AtCloser(s, q)
            BY <3>1, ClosedBy DEF Closers
        <3>4. CallsOf(s)[n - 1][Ternary][p] = Parsed(t, q) /\ q \in Nat \ {0}
            BY <2>2, <3>1, <3>2, <3>3, EnclosedGets
        <3>5. Expect(s, ")", Parsed(t, q)) = Parsed(t, q + 1)
            <4>1. s[q] = ")" /\ q \in Nat \ {0}
                BY <3>1, <3>4
            <4>2. Parsed(t, q).node = t /\ Parsed(t, q).next = q /\ ~Threw(Parsed(t, q))
                BY <4>1, ParsedIs
            <4>3. Follows(s, Parsed(t, q), {")"})
                BY <4>1, <4>2 DEF Follows
            <4>4. QED
                BY <4>2, <4>3 DEF Expect
        <3>6. QED
            BY <3>4, <3>5
    <2>7. QED
        BY <2>1, <2>2, <2>3, <2>4, <2>5, <2>6 DEF Enclosed
<1>5. QED
    BY <1>1, <1>3, <1>4 DEF Piece, Methods, Starters, Unaries

\* A node is made of what was parsed.
LEMMA MadeIs ==
    ASSUME NEW t, NEW node, NEW j \in Nat, j # 0
    PROVE  Made(node, Parsed(t, j)) = Parsed(node, j)
BY ParsedIs DEF Made

\* A prefix operator before an operand
LEMMA UnaryReads ==
    ASSUME NEW op \in Unaries, NEW e \in {8, 9}, NEW x, NEW v, Piece(e, x, v)
    PROVE  Piece(8, Node(op, <<x>>), <<op>> \o v)
<1>1. PICK w : w = <<op>> \o v
    OBVIOUS
<1>2. op \in TokenNames /\ v \in Seq(TokenNames)
    BY PunctuationNamed, Zenon DEF Piece
<1>3. w \in Seq(TokenNames) /\ w # <<>> /\ w[1] = op
    BY <1>1, <1>2
<1>4. ReadsAs(8, Node(op, <<x>>), w)
    <2> SUFFICES ASSUME NEW s \in Streams, NEW i \in Nat \ {0}, WrittenAt(s, i, w),
                        NEW j, j = i + Len(w), j <= Len(s), Stops(8, s, j),
                        NEW n \in Enough(s, 8, i, j)
                 PROVE  CallsOf(s)[n][8][i] = Parsed(Node(op, <<x>>), j)
        BY DEF ReadsAs, Core, Gets, Loops
    <2>1. PICK p : Prefixed(s, i, op, v, j, p)
        BY <1>1, <1>2, PrefixAt, Zenon
    <2>2. Between(s, i, j) /\ i < p /\ j <= j
        BY <2>1 DEF Between, Prefixed
    <2>9. Called(s, i, j, 8, n)
        BY <2>2, MethodsAre DEF Called
    <2>3. CallsOf(s)[n - 1][8][p] = Parsed(x, j) /\ j \in Nat \ {0}
        <3>1. 8 \in 0..e
            OBVIOUS
        <3>2. Bears(s, p, j, e, x, v)
            BY <2>1 DEF Prefixed, Bears
        <3>3. QED
            BY <2>2, <2>9, <3>1, <3>2, PieceGets
    <2>4. CallsOf(s)[n][8][i] = Method(s, 8, i, CallsOf(s)[n - 1])
        BY <2>9, CallIs
    <2>5. Method(s, 8, i, CallsOf(s)[n - 1]) = ParseUnary(s, i, CallsOf(s)[n - 1])
        BY DEF Method, Ternary, Unary
    <2>6. ParseUnary(s, i, CallsOf(s)[n - 1])
            = Made(Node(op, <<CallsOf(s)[n - 1][8][p].node>>), CallsOf(s)[n - 1][8][p])
        BY <2>1 DEF ParseUnary, Unary, Prefixed
    <2>7. Parsed(x, j).node = x /\ Made(Node(op, <<x>>), Parsed(x, j)) = Parsed(Node(op, <<x>>), j)
        BY <2>3, ParsedIs, MadeIs
    <2>8. QED
        BY <2>3, <2>4, <2>5, <2>6, <2>7
<1>5. QED
    BY <1>1, <1>3, <1>4, MethodsAre DEF Piece, Starters

\* What is written before an operator is what its loop, or the condition, has.
LEMMA LeadingGoes ==
    ASSUME NEW s, NEW i, NEW q, NEW e, NEW t, NEW w, Bears(s, i, q, e, t, w),
           q <= Len(s), NEW m \in 0..e
    PROVE  /\ Between(s, i, q)
           /\ m \in Loops /\ Stops(m + 1, s, q) => Goes(s, m, i, t, q)
           /\ Stops(m, s, q) => Gets(s, m, i, t, q)
<1>1. Between(s, i, q) /\ Known(m, s, i, t, q)
    BY PieceKnown DEF Bears
<1>2. QED
    BY <1>1 DEF Known

\* An operator of a level ends its left operand.
LEMMA OperatorsEnd ==
    ASSUME NEW m \in 1..7, NEW op \in Levels[m]
    PROVE  op \in TokenNames /\ op \notin Extends(m + 1)
<1>1. op \in Continues(m)
    BY LevelsAre, Zenon
<1>2. \A k \in 0..9 : m < k => op \notin Continues(k)
    <2> SUFFICES ASSUME NEW k \in 0..9, m < k
                 PROVE  op \notin Continues(k)
        OBVIOUS
    <2>1. m \in {1, 2, 3, 4, 5, 6, 7}
        OBVIOUS
    <2>2. k \in {2, 3, 4, 5, 6, 7, 8, 9}
        OBVIOUS
    <2>3. QED
        BY <1>1, <2>1, <2>2, LevelsAre
<1>3. op \notin Extends(m + 1)
    BY <1>2 DEF Extends
<1>4. op \in TokenNames
    <2>1. m \in {1, 2, 3, 4, 5, 6, 7}
        OBVIOUS
    <2>2. Continues(m) \subseteq {"??", "||", "&&", "==", "!=", "===", "!==", ">", ">=", "<", "<=",
                                  "+", "-", "*", "/", "%"}
        BY <2>1, LevelsAre
    <2>3. {"??", "||", "&&", "==", "!=", "===", "!==", ">", ">=", "<", "<=", "+", "-", "*", "/", "%"}
              \subseteq TokenNames
        BY DEF TokenNames, Three, Two, One
    <2>4. QED
        BY <1>1, <2>2, <2>3, Zenon
<1>5. QED
    BY <1>3, <1>4

\* The first token of a text in two parts is that of its first part.
LEMMA FirstOf ==
    ASSUME NEW T, NEW u \in Seq(T), u # <<>>, NEW v \in Seq(T), NEW w, w = u \o v
    PROVE  w \in Seq(T) /\ w # <<>> /\ w[1] = u[1]
<1>1. Len(u) \in Nat /\ Len(u) >= 1
    BY EmptySeq, LenProperties
<1>2. Len(w) = Len(u) + Len(v) /\ w \in Seq(T) /\ Len(v) \in Nat
    BY ConcatProperties, LenProperties
<1>3. 1 \in 1..(Len(u) + Len(v)) /\ 1 <= Len(u)
    BY <1>1, <1>2
<1>4. w[1] = u[1]
    BY <1>3, ConcatProperties
<1>5. Len(w) # 0
    BY <1>1, <1>2
<1>6. QED
    BY <1>2, <1>4, <1>5, EmptySeq

\* So it is of a text with a token in the middle.
LEMMA InfixFirst ==
    ASSUME NEW u \in Seq(TokenNames), u # <<>>, NEW x \in TokenNames, NEW v \in Seq(TokenNames),
           NEW w, w = u \o <<x>> \o v
    PROVE  w \in Seq(TokenNames) /\ w # <<>> /\ w[1] = u[1]
<1>1. PICK z : z = u \o <<x>>
    OBVIOUS
<1>2. z \in Seq(TokenNames) /\ z # <<>> /\ z[1] = u[1]
    BY <1>1, FirstOf
<1>3. w = z \o v
    BY <1>1, Zenon
<1>4. QED
    BY <1>2, <1>3, FirstOf

\* What is written before the end of a member expression
LEMMA ObjectGoes ==
    ASSUME NEW s \in Streams, NEW i \in Nat \ {0}, NEW a, NEW u, Piece(9, a, u),
           WrittenAt(s, i, u), NEW q, q = i + Len(u), q <= Len(s)
    PROVE  Between(s, i, q) /\ Goes(s, 9, i, a, q)
<1>1. Bears(s, i, q, 9, a, u) /\ 9 \in 0..9 /\ 9 \in Loops
    BY DEF Bears, Loops
<1>2. Stops(9 + 1, s, q)
    <2>1. (9 + 1)..9 = {}
        OBVIOUS
    <2>2. QED
        BY <2>1 DEF Stops, Extends
<1>3. QED
    BY <1>1, <1>2, LeadingGoes

\* The loop of parseMember goes on behind an object.
LEMMA ObjectGoesOn ==
    ASSUME NEW s \in Streams, NEW i, NEW j, Between(s, i, j), NEW a, NEW q, Between(s, i, q),
           q < j, Goes(s, 9, i, a, q), NEW n \in Enough(s, 9, i, j), NEW r,
           MoreMember(s, Parsed(a, q), CallsOf(s)[n - 1]) = r
    PROVE  \E k \in 0..(j - i) : Turns(s, 9, i, n)[k] = r
BY GoesOn DEF Loops, Member

\* The loop of a level goes on behind a left operand.
LEMMA OperandGoesOn ==
    ASSUME NEW s \in Streams, NEW i, NEW j, Between(s, i, j), NEW m \in 1..7, NEW a, NEW q,
           Between(s, i, q), q < j, Goes(s, m, i, a, q), NEW n \in Enough(s, m, i, j), NEW r,
           MoreBinary(s, m, Parsed(a, q), CallsOf(s)[n - 1]) = r
    PROVE  \E k \in 0..(j - i) : Turns(s, m, i, n)[k] = r
<1>1. m \in Loops /\ m # Member
    BY DEF Loops, Member
<1>2. QED
    BY <1>1, GoesOn

\* A left operand of the level or above, an operator of the level and a right
\* operand from above the level: it groups to the left.
LEMMA BinaryReads ==
    ASSUME NEW m \in 1..7, NEW op \in Levels[m], NEW e, NEW a, NEW u, Piece(e, a, u), m <= e,
           NEW f, NEW b, NEW v, Piece(f, b, v), m + 1 <= f
    PROVE  Piece(m, Node(op, <<a, b>>), u \o <<op>> \o v)
<1>1. PICK w : w = u \o <<op>> \o v
    OBVIOUS
<1>2. /\ op \in TokenNames /\ op \notin Extends(m + 1) /\ <<op>> \in Seq(TokenNames)
      /\ u \in Seq(TokenNames) /\ v \in Seq(TokenNames) /\ u # <<>>
      /\ m \in Methods /\ m \in Loops /\ m # Member /\ m # 9
    BY OperatorsEnd DEF Piece, Methods, Loops, Member
<1>3. w \in Seq(TokenNames) /\ w # <<>> /\ w[1] = u[1]
    BY <1>1, <1>2, InfixFirst
<1>4. ReadsAs(m, Node(op, <<a, b>>), w)
    <2> SUFFICES ASSUME NEW s \in Streams, NEW i \in Nat \ {0}, WrittenAt(s, i, w),
                        NEW j, j = i + Len(w), j <= Len(s), Stops(m + 1, s, j),
                        NEW n \in Enough(s, m, i, j)
                 PROVE  \E k \in 0..(j - i) : Turns(s, m, i, n)[k] = Parsed(Node(op, <<a, b>>), j)
        BY <1>2 DEF ReadsAs, Core, Goes
    <2>1. PICK q, p : Infixed(s, i, u, op, v, j, q, p)
        BY <1>1, <1>2, InfixAt, Zenon
    <2>2. Between(s, i, j) /\ i < p /\ j <= j /\ q < j /\ q <= Len(s) /\ j \in Nat \ {0} /\ i < q
        <3>1. Len(u) >= 1
            BY <1>2, EmptySeq, LenProperties
        <3>2. QED
            BY <2>1, <3>1 DEF Between, Infixed
    <2>3. Between(s, i, q) /\ Goes(s, m, i, a, q)
        <3>1. m \in 0..e
            BY DEF Piece, Methods
        <3>2. Stops(m + 1, s, q) /\ Bears(s, i, q, e, a, u)
            BY <1>2, <2>1 DEF Stops, Infixed, Bears
        <3>3. QED
            BY <1>2, <2>2, <3>1, <3>2, LeadingGoes
    <2>4. CallsOf(s)[n - 1][m + 1][p] = Parsed(b, j)
        <3>1. m + 1 \in 0..f
            BY SMTT(30) DEF Piece, Methods
        <3>2. Bears(s, p, j, f, b, v)
            BY <2>1 DEF Infixed, Bears
        <3>3. Called(s, i, j, m, n)
            BY <1>2, <2>2 DEF Called
        <3>4. QED
            BY <2>2, <3>1, <3>2, <3>3, PieceGets
    <2>5. Follows(s, Parsed(a, q), Levels[m]) /\ Parsed(a, q).node = a /\ Parsed(a, q).next = q
        BY <2>1, ParsedIs DEF Infixed
    <2>6. Parsed(b, j).node = b /\ Made(Node(op, <<a, b>>), Parsed(b, j)) = Parsed(Node(op, <<a, b>>), j)
        BY <2>2, ParsedIs, MadeIs
    <2>7. MoreBinary(s, m, Parsed(a, q), CallsOf(s)[n - 1])
            = Made(Node(s[q], <<a, CallsOf(s)[n - 1][m + 1][q + 1].node>>), CallsOf(s)[n - 1][m + 1][q + 1])
        BY <2>5 DEF MoreBinary
    <2>8. MoreBinary(s, m, Parsed(a, q), CallsOf(s)[n - 1]) = Parsed(Node(op, <<a, b>>), j)
        <3>1. s[q] = op /\ q + 1 = p
            BY <2>1 DEF Infixed
        <3>2. QED
            BY <2>4, <2>6, <2>7, <3>1
    <2>9. QED
        BY <2>2, <2>3, <2>8, OperandGoesOn, SMTT(30)
<1>5. QED
    BY <1>1, <1>2, <1>3, <1>4 DEF Piece

\* What comes after what was parsed
LEMMA OnlyFollows ==
    ASSUME NEW s, NEW a, NEW q \in Nat \ {0}
    PROVE  \A x : Follows(s, Parsed(a, q), {x}) <=> s[q] = x
BY ParsedIs

\* parseMember at a dot
LEMMA MoreProperty ==
    ASSUME NEW s, NEW a, NEW q \in Nat \ {0}, NEW call, s[q] = ".", s[q + 1] \in Identifiers
    PROVE  MoreMember(s, Parsed(a, q), call) = Parsed(Node(".", <<a, Leaf(s[q + 1])>>), q + 1 + 1)
<1>1. "." # "[" /\ "." # "("
    OBVIOUS
<1>2. Parsed(a, q).node = a /\ Parsed(a, q).next = q
    BY ParsedIs
<1>3. QED
    BY <1>1, <1>2, OnlyFollows, ZenonT(60) DEF MoreMember

\* What is in the brackets of an index
Bracketed(s, at, call) == Expect(s, "]", call[Ternary][at])

\* parseMember at a bracket
LEMMA MoreIndex ==
    ASSUME NEW s, NEW a, NEW q \in Nat \ {0}, NEW call, s[q] = "["
    PROVE  MoreMember(s, Parsed(a, q), call)
             = Made(Node("[]", <<a, Bracketed(s, q + 1, call).node>>), Bracketed(s, q + 1, call))
<1>1. "[" # "." /\ "[" # "("
    OBVIOUS
<1>2. Parsed(a, q).node = a /\ Parsed(a, q).next = q
    BY ParsedIs
<1>3. QED
    BY <1>1, <1>2, OnlyFollows, ZenonT(60) DEF MoreMember, Bracketed

\* parseMember at a parenthesis
LEMMA MoreCall ==
    ASSUME NEW s, NEW a, NEW q \in Nat \ {0}, NEW call, s[q] = "("
    PROVE  MoreMember(s, Parsed(a, q), call) = ParseArgs(s, a, q + 1, call)
<1>1. "(" # "." /\ "(" # "["
    OBVIOUS
<1>2. Parsed(a, q).node = a /\ Parsed(a, q).next = q
    BY ParsedIs
<1>3. QED
    BY <1>1, <1>2, OnlyFollows, ZenonT(60) DEF MoreMember

\* A property: a name behind a dot
LEMMA PropertyReads ==
    ASSUME NEW a, NEW u, Piece(9, a, u), NEW x \in Identifiers
    PROVE  Piece(9, Node(".", <<a, Leaf(x)>>), u \o <<".">> \o <<x>>)
<1>1. PICK w : w = u \o <<".">> \o <<x>>
    OBVIOUS
<1>6. "." \in TokenNames /\ x \in TokenNames
    BY PunctuationNamed, Zenon DEF TokenNames
<1>2. /\ "." \in TokenNames
      /\ u \in Seq(TokenNames) /\ <<x>> \in Seq(TokenNames) /\ u # <<>>
    BY <1>6 DEF Piece
<1>3. w \in Seq(TokenNames) /\ w # <<>> /\ w[1] = u[1]
    BY <1>1, <1>2, InfixFirst
<1>4. ReadsAs(9, Node(".", <<a, Leaf(x)>>), w)
    <2> SUFFICES ASSUME NEW s \in Streams, NEW i \in Nat \ {0}, WrittenAt(s, i, w),
                        NEW j, j = i + Len(w), j <= Len(s), NEW n \in Enough(s, 9, i, j)
                 PROVE  \E k \in 0..(j - i) :
                           Turns(s, 9, i, n)[k] = Parsed(Node(".", <<a, Leaf(x)>>), j)
        BY DEF ReadsAs, Core, Goes, Loops
    <2>1. PICK q, p : Infixed(s, i, u, ".", <<x>>, j, q, p)
        BY <1>1, <1>2, InfixAt, Zenon
    <2>2. Between(s, i, j) /\ q < j /\ q <= Len(s) /\ j \in Nat \ {0}
        BY <1>2, <2>1, EmptySeq, LenProperties DEF Between, Infixed
    <2>3. Between(s, i, q) /\ Goes(s, 9, i, a, q)
        BY <1>2, <2>1, <2>2, ObjectGoes DEF Infixed
    <2>4. s[q] = "." /\ q + 1 = p /\ s[p] = x /\ p + 1 = j
        <3>1. s[p] = x /\ Len(<<x>>) = 1
            BY <2>1, TokenAt DEF Infixed, Streams
        <3>2. QED
            BY <2>1, <3>1 DEF Infixed
    <2>5. MoreMember(s, Parsed(a, q), CallsOf(s)[n - 1]) = Parsed(Node(".", <<a, Leaf(x)>>), j)
        <3>1. q \in Nat \ {0} /\ s[q + 1] \in Identifiers
            BY <2>3, <2>4 DEF Between
        <3>2. MoreMember(s, Parsed(a, q), CallsOf(s)[n - 1])
                = Parsed(Node(".", <<a, Leaf(s[q + 1])>>), q + 1 + 1)
            BY <2>4, <3>1, MoreProperty
        <3>3. QED
            BY <2>4, <3>2
    <2>6. QED
        BY <2>2, <2>3, <2>5, ObjectGoesOn
<1>5. QED
    BY <1>1, <1>3, <1>4 DEF Piece, Methods

\* What is behind an operator and before a closing token
Embraced(s, i, u, x, v, y, j, q, p, r) ==
    /\ Infixed(s, i, u, x, v, r, q, p) /\ r \in Nat \ {0}
    /\ r \in 1..Len(s) /\ s[r] = y /\ r + 1 = j /\ j \in Nat \ {0} /\ q < r

\* Where its parts are
LEMMA EmbracedAt ==
    ASSUME NEW s \in Streams, NEW i \in Nat \ {0}, NEW u \in Seq(TokenNames), NEW x \in TokenNames,
           NEW v \in Seq(TokenNames), NEW y \in TokenNames,
           NEW w, w = u \o <<x>> \o v \o <<y>>, WrittenAt(s, i, w),
           NEW j, j = i + Len(w)
    PROVE  \E q, p, r : Embraced(s, i, u, x, v, y, j, q, p, r)
<1>1. <<x>> \in Seq(TokenNames) /\ <<y>> \in Seq(TokenNames) /\ s \in Seq(TokenNames \cup {"eof"})
    BY DEF Streams
<1>2. PICK a : a = u \o <<x>> \o v
    OBVIOUS
<1>3. a \in Seq(TokenNames) /\ w = a \o <<y>>
    <2>1. u \o <<x>> \in Seq(TokenNames)
        BY <1>1, ConcatProperties
    <2>2. u \o <<x>> \o v \in Seq(TokenNames)
        BY <2>1, ConcatProperties
    <2>3. QED
        BY <1>2, <2>2, Zenon
<1>4. PICK r : r = i + Len(a)
    OBVIOUS
<1>5. /\ WrittenAt(s, i, a) /\ WrittenAt(s, r, <<y>>) /\ j = r + Len(<<y>>)
    <2>1. InParts(s, i, a, <<y>>, w)
        BY <1>1, <1>3, PartsAt, Zenon
    <2>2. QED
        BY <1>4, <2>1 DEF InParts
<1>6. PICK q, p : Infixed(s, i, u, x, v, r, q, p)
    BY <1>2, <1>4, <1>5, InfixAt, Zenon
<1>7. r \in Nat \ {0} /\ q < r
    BY <1>6 DEF Infixed
<1>8. s[r] = y /\ Len(<<y>>) = 1 /\ r \in 1..Len(s)
    BY <1>1, <1>5, <1>7, TokenAt
<1>9. Embraced(s, i, u, x, v, y, j, q, p, r)
    BY <1>5, <1>6, <1>7, <1>8 DEF Embraced
<1>10. QED
    BY <1>9

\* And its first token
LEMMA EmbracedFirst ==
    ASSUME NEW u \in Seq(TokenNames), u # <<>>, NEW x \in TokenNames, NEW v \in Seq(TokenNames),
           NEW y \in TokenNames, NEW w, w = u \o <<x>> \o v \o <<y>>
    PROVE  w \in Seq(TokenNames) /\ w # <<>> /\ w[1] = u[1]
<1>1. PICK z : z = u \o <<x>> \o v
    OBVIOUS
<1>2. z \in Seq(TokenNames) /\ z # <<>> /\ z[1] = u[1] /\ <<y>> \in Seq(TokenNames)
    BY <1>1, InfixFirst
<1>3. w = z \o <<y>>
    BY <1>1, Zenon
<1>4. QED
    BY <1>2, <1>3, FirstOf

\* An index: an expression in brackets
LEMMA IndexReads ==
    ASSUME NEW a, NEW u, Piece(9, a, u), NEW f, NEW b, NEW v, Piece(f, b, v)
    PROVE  Piece(9, Node("[]", <<a, b>>), u \o <<"[">> \o v \o <<"]">>)
<1>1. PICK w : w = u \o <<"[">> \o v \o <<"]">>
    OBVIOUS
<1>2. "[" \in TokenNames /\ "]" \in TokenNames
    BY PunctuationNamed, Zenon
<1>3. u \in Seq(TokenNames) /\ v \in Seq(TokenNames) /\ u # <<>> /\ Len(u) \in Nat /\ Len(u) >= 1
    BY EmptySeq, LenProperties DEF Piece
<1>4. w \in Seq(TokenNames) /\ w # <<>> /\ w[1] = u[1]
    BY <1>1, <1>2, <1>3, EmbracedFirst
<1>5. ReadsAs(9, Node("[]", <<a, b>>), w)
    <2> SUFFICES ASSUME NEW s \in Streams, NEW i \in Nat \ {0}, WrittenAt(s, i, w),
                        NEW j, j = i + Len(w), j <= Len(s), NEW n \in Enough(s, 9, i, j)
                 PROVE  \E k \in 0..(j - i) :
                           Turns(s, 9, i, n)[k] = Parsed(Node("[]", <<a, b>>), j)
        BY DEF ReadsAs, Core, Goes, Loops
    <2>1. PICK q, p, r : Embraced(s, i, u, "[", v, "]", j, q, p, r)
        BY <1>1, <1>2, <1>3, EmbracedAt, Zenon
    <2>2. Between(s, i, j) /\ q < j /\ q <= Len(s) /\ j \in Nat \ {0} /\ i < p /\ r <= j
        BY <1>3, <2>1, SMTT(30) DEF Between, Infixed, Embraced
    <2>3. Between(s, i, q) /\ Goes(s, 9, i, a, q)
        BY <1>3, <2>1, <2>2, ObjectGoes DEF Infixed, Embraced
    <2>4. s[q] = "[" /\ q + 1 = p /\ s[r] = "]" /\ r + 1 = j
        BY <2>1 DEF Infixed, Embraced
    <2>5. Expect(s, "]", CallsOf(s)[n - 1][Ternary][p]) = Parsed(b, j)
        <3>1. Bears(s, p, r, f, b, v)
            BY <2>1 DEF Infixed, Embraced, Bears
        <3>2. Called(s, i, j, 9, n)
            BY <2>2, MethodsAre DEF Called
        <3>3. AtCloser(s, r)
            BY <2>4, ClosedBy DEF Closers
        <3>4. CallsOf(s)[n - 1][Ternary][p] = Parsed(b, r) /\ r \in Nat \ {0}
            BY <2>2, <3>1, <3>2, <3>3, EnclosedGets
        <3>5. QED
            BY <2>4, <3>4, ExpectIs
    <2>6. MoreMember(s, Parsed(a, q), CallsOf(s)[n - 1]) = Parsed(Node("[]", <<a, b>>), j)
        <3>1. q \in Nat \ {0}
            BY <2>3 DEF Between
        <3>2. MoreMember(s, Parsed(a, q), CallsOf(s)[n - 1])
                = Made(Node("[]", <<a, Parsed(b, j).node>>), Parsed(b, j))
            <4>1. Bracketed(s, q + 1, CallsOf(s)[n - 1]) = Parsed(b, j)
                BY <2>4, <2>5 DEF Bracketed
            <4>2. s[q] = "["
                BY <2>4
            <4>3. MoreMember(s, Parsed(a, q), CallsOf(s)[n - 1])
                    = Made(Node("[]", <<a, Bracketed(s, q + 1, CallsOf(s)[n - 1]).node>>),
                           Bracketed(s, q + 1, CallsOf(s)[n - 1]))
                BY <3>1, <4>2, MoreIndex
            <4>4. QED
                BY <4>1, <4>3, Zenon
        <3>3. Parsed(b, j).node = b
            BY <2>2, ParsedIs
        <3>4. QED
            BY <2>2, <3>2, <3>3, MadeIs
    <2>7. QED
        BY <2>2, <2>3, <2>6, ObjectGoesOn
<1>6. QED
    BY <1>1, <1>4, <1>5 DEF Piece, Methods

-----------------------------------------------------------------------------
(***************************************************************************)
(* A call, with none, one or two arguments                                 *)
(***************************************************************************)
ArgsAt(s, i, p, j, n, v) ==
    /\ Called(s, i, j, 9, n) /\ p \in Nat \ {0} /\ i < p /\ WrittenAt(s, p, v)
    /\ p + Len(v) + 1 = j /\ s[p + Len(v)] = ")"

\* Tokens that ParseArgs reads as the arguments of t
ArgsRead(a, v, t) ==
    /\ v \in Seq(TokenNames)
    /\ \A s, i, p, j, n :
          ArgsAt(s, i, p, j, n, v) => ParseArgs(s, a, p, CallsOf(s)[n - 1]) = Parsed(t, j)

\* A call is parsed when its arguments are.
LEMMA CallReads ==
    ASSUME NEW a, NEW u, Piece(9, a, u), NEW v, NEW t, ArgsRead(a, v, t)
    PROVE  Piece(9, t, u \o <<"(">> \o v \o <<")">>)
<1>1. PICK w : w = u \o <<"(">> \o v \o <<")">>
    OBVIOUS
<1>2. "(" \in TokenNames /\ ")" \in TokenNames
    BY PunctuationNamed, Zenon
<1>3. /\ u \in Seq(TokenNames) /\ u # <<>> /\ Len(u) \in Nat /\ Len(u) >= 1
      /\ v \in Seq(TokenNames)
    BY EmptySeq, LenProperties DEF Piece, ArgsRead
<1>4. w \in Seq(TokenNames) /\ w # <<>> /\ w[1] = u[1]
    BY <1>1, <1>2, <1>3, EmbracedFirst
<1>5. ReadsAs(9, t, w)
    <2> SUFFICES ASSUME NEW s \in Streams, NEW i \in Nat \ {0}, WrittenAt(s, i, w),
                        NEW j, j = i + Len(w), j <= Len(s), NEW n \in Enough(s, 9, i, j)
                 PROVE  \E k \in 0..(j - i) : Turns(s, 9, i, n)[k] = Parsed(t, j)
        BY DEF ReadsAs, Core, Goes, Loops
    <2>1. PICK q, p, r : Embraced(s, i, u, "(", v, ")", j, q, p, r)
        BY <1>1, <1>2, <1>3, EmbracedAt, Zenon
    <2>2. Between(s, i, j) /\ q < j /\ q <= Len(s) /\ j \in Nat \ {0} /\ i < p
        BY <1>3, <2>1 DEF Between, Infixed, Embraced
    <2>3. Between(s, i, q) /\ Goes(s, 9, i, a, q)
        BY <1>3, <2>1, <2>2, ObjectGoes DEF Infixed, Embraced
    <2>4. s[q] = "(" /\ q + 1 = p /\ p \in Nat \ {0} /\ WrittenAt(s, p, v)
          /\ p + Len(v) + 1 = j /\ s[p + Len(v)] = ")"
        BY <2>1 DEF Infixed, Embraced
    <2>5. Called(s, i, j, 9, n)
        BY <2>2, MethodsAre DEF Called
    <2>6. ParseArgs(s, a, p, CallsOf(s)[n - 1]) = Parsed(t, j)
        <3>1. ArgsAt(s, i, p, j, n, v)
            BY <2>2, <2>4, <2>5, Zenon DEF ArgsAt
        <3>2. \A o : ArgsAt(s, i, o, j, n, v) => ParseArgs(s, a, o, CallsOf(s)[n - 1]) = Parsed(t, j)
            BY DEF ArgsRead
        <3>3. QED
            BY <3>1, <3>2, Zenon
    <2>7. MoreMember(s, Parsed(a, q), CallsOf(s)[n - 1]) = Parsed(t, j)
        <3>1. q \in Nat \ {0}
            BY <2>3 DEF Between
        <3>2. MoreMember(s, Parsed(a, q), CallsOf(s)[n - 1]) = ParseArgs(s, a, q + 1, CallsOf(s)[n - 1])
            BY <2>4, <3>1, MoreCall
        <3>3. QED
            BY <2>4, <2>6, <3>2
    <2>8. QED
        BY <2>2, <2>3, <2>7, ObjectGoesOn
<1>6. QED
    BY <1>1, <1>4, <1>5 DEF Piece, Methods

\* No argument
LEMMA NoArgument == \A a : ArgsRead(a, <<>>, Node("()", <<a>>))
<1>1. <<>> \in Seq(TokenNames) /\ Len(<<>>) = 0
    OBVIOUS
<1>2. ASSUME NEW a, NEW s, NEW i, NEW p, NEW j, NEW n, ArgsAt(s, i, p, j, n, <<>>)
      PROVE  ParseArgs(s, a, p, CallsOf(s)[n - 1]) = Parsed(Node("()", <<a>>), j)
    <2>1. p + 1 = j /\ s[p] = ")" /\ p \in Nat \ {0}
        BY <1>1, <1>2 DEF ArgsAt
    <2>2. ParseArgs(s, a, p, CallsOf(s)[n - 1]) = Expect(s, ")", Parsed(Node("()", <<a>>), p))
        BY <2>1, ArgsParsed, Zenon DEF ArgsBegin
    <2>3. Expect(s, ")", Parsed(Node("()", <<a>>), p)) = Parsed(Node("()", <<a>>), p + 1)
        BY <2>1, ExpectIs
    <2>4. QED
        BY <2>1, <2>2, <2>3
<1>3. QED
    BY <1>1, <1>2, Zenon DEF ArgsRead

\* An argument is added to those before.
LEMMA ArgumentIs ==
    ASSUME NEW args, NEW p, NEW call, NEW b, NEW r \in Nat \ {0}, call[Ternary][p] = Parsed(b, r)
    PROVE  Argument(Parsed(Node("()", args), p), call) = Parsed(Node("()", Append(args, b)), r)
<1>1. PICK o : o = Parsed(Node("()", args), p)
    OBVIOUS
<1>2. o.next = p /\ o.node.args = args
    BY <1>1 DEF Parsed, Node
<1>3. Argument(o, call) = Made(Node("()", Append(args, Parsed(b, r).node)), Parsed(b, r))
    BY <1>2, Zenon DEF Argument
<1>4. Parsed(b, r).node = b
    BY ParsedIs
<1>5. QED
    BY <1>1, <1>3, <1>4, MadeIs

\* What an appended sequence is
LEMMA AppendIs ==
    ASSUME NEW S, NEW s \in Seq(S), NEW x \in S, NEW t \in Seq(S), Len(t) = Len(s) + 1,
           t[Len(s) + 1] = x, \A i \in 1..Len(s) : t[i] = s[i]
    PROVE  Append(s, x) = t
<1>1. /\ Append(s, x) \in Seq(S) /\ Len(Append(s, x)) = Len(s) + 1 /\ Len(s) \in Nat
      /\ Append(s, x)[Len(s) + 1] = x /\ \A i \in 1..Len(s) : Append(s, x)[i] = s[i]
    BY AppendProperties, LenProperties
<1>2. \A i \in 1..(Len(s) + 1) : i \in 1..Len(s) \/ i = Len(s) + 1
    BY <1>1
<1>3. \A i \in 1..Len(t) : Append(s, x)[i] = t[i]
    BY <1>1, <1>2
<1>4. QED
    BY <1>1, <1>3, SeqEqual

\* Operands that are appended one after the other
LEMMA Appended == \A x, y, z : Append(<<x>>, y) = <<x, y>> /\ Append(<<x, y>>, z) = <<x, y, z>>
<1> SUFFICES ASSUME NEW x, NEW y, NEW z
             PROVE  Append(<<x>>, y) = <<x, y>> /\ Append(<<x, y>>, z) = <<x, y, z>>
    OBVIOUS
<1>1. PICK S : S = {x, y, z}
    OBVIOUS
<1>2. x \in S /\ y \in S /\ z \in S
    BY <1>1
<1>3. /\ <<x>> \in Seq(S) /\ Len(<<x>>) = 1 /\ <<x>>[1] = x
      /\ <<x, y>> \in Seq(S) /\ Len(<<x, y>>) = 2 /\ <<x, y>>[1] = x /\ <<x, y>>[2] = y
    BY <1>2
<1>4. /\ <<x, y, z>> \in Seq(S) /\ Len(<<x, y, z>>) = 3
      /\ <<x, y, z>>[1] = x /\ <<x, y, z>>[2] = y /\ <<x, y, z>>[3] = z
    BY <1>2
<1>5. Append(<<x>>, y) = <<x, y>>
    <2>1. \A i \in 1..1 : <<x, y>>[i] = <<x>>[i]
        BY <1>3
    <2>2. Len(<<x, y>>) = Len(<<x>>) + 1 /\ <<x, y>>[Len(<<x>>) + 1] = y
        BY <1>3
    <2>3. \A i \in 1..Len(<<x>>) : <<x, y>>[i] = <<x>>[i]
        BY <1>3, <2>1
    <2>4. QED
        BY <1>2, <1>3, <2>2, <2>3, AppendIs, Zenon
<1>6. Append(<<x, y>>, z) = <<x, y, z>>
    <2>1. \A i \in 1..2 : <<x, y, z>>[i] = <<x, y>>[i]
        BY <1>3, <1>4
    <2>2. Len(<<x, y, z>>) = Len(<<x, y>>) + 1 /\ <<x, y, z>>[Len(<<x, y>>) + 1] = z
        BY <1>3, <1>4
    <2>3. \A i \in 1..Len(<<x, y>>) : <<x, y, z>>[i] = <<x, y>>[i]
        BY <1>3, <2>1
    <2>4. QED
        BY <1>2, <1>3, <1>4, <2>2, <2>3, AppendIs, Zenon
<1>7. QED
    BY <1>5, <1>6

\* A list of arguments that no comma follows is at its end.
LEMMA ArgsStay ==
    ASSUME NEW s \in Streams, NEW callee, NEW at, NEW call, NEW g,
           g = ArgRounds(s, callee, at, call), NEW a \in 0..Len(s), NEW b \in 0..Len(s), a <= b,
           ~Comma(s, g[a])
    PROVE  g[b] = g[a]
<1>2. Len(s) \in Nat
    BY StreamsLong
<1> DEFINE S == {q \in Nat : a + q <= b => g[a + q] = g[a]}
<1>3. 0 \in S
    BY <1>2
<1>4. ASSUME NEW q \in Nat, q + 1 <= b - a, q \in S
      PROVE  q + 1 \in S
    <2>1. g[a + q] = g[a] /\ a + q \in Nat /\ (a + q) + 1 <= Len(s) /\ a + (q + 1) = (a + q) + 1
        BY <1>2, <1>4
    <2>2. g[(a + q) + 1] = IF Comma(s, g[a + q])
                           THEN Argument(AfterComma(s, g[a + q]), call) ELSE g[a + q]
        BY <2>1, ArgRoundsSteps
    <2>3. g[(a + q) + 1] = g[a]
        BY <2>1, <2>2
    <2>4. QED
        BY <2>1, <2>3
<1>5. b - a \in S
    <2>1. b - a \in Nat
        BY <1>2
    <2> HIDE DEF S
    <2>2. QED
        BY <1>3, <1>4, <2>1, Looped!InductionTo
<1>6. QED
    BY <1>2, <1>5

\* The arguments are those before the first one that no comma follows.
LEMMA ArgsAll ==
    ASSUME NEW s \in Streams, NEW callee, NEW at, NEW call, s[at] # ")",
           NEW k \in 0..Len(s), NEW r, ArgRounds(s, callee, at, call)[k] = r,
           ~Comma(s, r)
    PROVE  ParseArgs(s, callee, at, call) = Expect(s, ")", r)
<1>1. PICK g : g = ArgRounds(s, callee, at, call)
    OBVIOUS
<1>2. PICK c : c = CHOOSE q \in 0..Len(s) : ~Comma(s, g[q])
    OBVIOUS
<1>3. g[k] = r
    BY <1>1
<1>4. c \in 0..Len(s) /\ ~Comma(s, g[c])
    BY <1>2, <1>3, Zenon
<1>5. g[c] = g[k]
    <2>1. Len(s) \in Nat
        BY StreamsLong
    <2>2. CASE c <= k
        BY <1>1, <1>4, <2>2, ArgsStay
    <2>3. CASE k <= c
        BY <1>1, <1>3, <1>4, <2>3, ArgsStay
    <2>4. QED
        BY <1>4, <2>1, <2>2, <2>3
<1>6. ParseArgs(s, callee, at, call) = Expect(s, ")", g[c])
    BY <1>1, <1>2, ArgsParsed, Zenon
<1>7. QED
    BY <1>3, <1>5, <1>6

\* The first argument, up to a comma or a parenthesis
LEMMA FirstArgument ==
    ASSUME NEW a, NEW f, NEW b, NEW v, NEW s, NEW p, NEW q, Bears(s, p, q, f, b, v),
           NEW i, NEW j, NEW n, Called(s, i, j, 9, n), i < p, q <= j, AtCloser(s, q)
    PROVE  /\ ArgRounds(s, a, p, CallsOf(s)[n - 1])[0] = Parsed(Node("()", <<a, b>>), q)
           /\ s[p] # ")" /\ q \in Nat \ {0}
<1>1. CallsOf(s)[n - 1][Ternary][p] = Parsed(b, q) /\ q \in Nat \ {0}
    BY EnclosedGets
<1>2. ArgRounds(s, a, p, CallsOf(s)[n - 1])[0] = Argument(ArgsBegin(a, p), CallsOf(s)[n - 1])
    BY ArgRoundsSteps DEF Bears
<1>3. Argument(ArgsBegin(a, p), CallsOf(s)[n - 1]) = Parsed(Node("()", Append(<<a>>, b)), q)
    BY <1>1, ArgumentIs DEF ArgsBegin
<1>4. Append(<<a>>, b) = <<a, b>>
    BY Appended
<1>5. s[p] \in Starters
    BY FirstAt DEF Bears, Piece, Streams
<1>6. ")" \notin Starters
    BY DEF Starters, Identifiers, Literals, Unaries
<1>7. QED
    BY <1>1, <1>2, <1>3, <1>4, <1>5, <1>6

\* One argument
LEMMA OneArgument ==
    ASSUME NEW a, NEW f, NEW b, NEW v, Piece(f, b, v)
    PROVE  ArgsRead(a, v, Node("()", <<a, b>>))
<1>1. ASSUME NEW s, NEW i, NEW p, NEW j, NEW n, ArgsAt(s, i, p, j, n, v)
      PROVE  ParseArgs(s, a, p, CallsOf(s)[n - 1]) = Parsed(Node("()", <<a, b>>), j)
    <2>1. PICK q : q = p + Len(v)
        OBVIOUS
    <2>2. /\ Called(s, i, j, 9, n) /\ s \in Streams /\ p \in Nat \ {0} /\ i < p /\ WrittenAt(s, p, v)
          /\ q + 1 = j /\ s[q] = ")" /\ j \in Nat
        BY <1>1, <2>1 DEF ArgsAt, Called, Between
    <2>3. Bears(s, p, q, f, b, v)
        BY <2>1, <2>2 DEF Bears
    <2>4. q \in Nat /\ q <= j
        BY <2>1, <2>2, LenProperties DEF Piece
    <2>5. AtCloser(s, q)
        BY <2>2, ClosedBy DEF Closers
    <2>6. /\ ArgRounds(s, a, p, CallsOf(s)[n - 1])[0] = Parsed(Node("()", <<a, b>>), q)
          /\ s[p] # ")" /\ q \in Nat \ {0}
        BY <2>2, <2>3, <2>4, <2>5, FirstArgument
    <2>7. ~Comma(s, Parsed(Node("()", <<a, b>>), q))
        <3>1. ~(s[q] = ",")
            BY <2>2
        <3>2. QED
            BY <2>6, <3>1, OnlyFollows, Zenon DEF Comma
    <2>8. 0 \in 0..Len(s)
        BY <2>2, StreamsLong
    <2>9. ParseArgs(s, a, p, CallsOf(s)[n - 1]) = Expect(s, ")", Parsed(Node("()", <<a, b>>), q))
        BY <2>2, <2>6, <2>7, <2>8, ArgsAll
    <2>10. QED
        BY <2>2, <2>6, <2>9, ExpectIs
<1>2. QED
    BY <1>1 DEF ArgsRead, Piece

\* Two arguments with a comma in between
LEMMA TwoArguments ==
    ASSUME NEW a, NEW f, NEW b, NEW v, Piece(f, b, v), NEW h, NEW c, NEW z, Piece(h, c, z)
    PROVE  ArgsRead(a, v \o <<",">> \o z, Node("()", <<a, b, c>>))
<1>1. PICK w : w = v \o <<",">> \o z
    OBVIOUS
<1>2. v \in Seq(TokenNames) /\ v # <<>> /\ z \in Seq(TokenNames) /\ "," \in TokenNames
    BY PunctuationNamed, Zenon DEF Piece
<1>3. w \in Seq(TokenNames)
    BY <1>1, <1>2, InfixFirst
<1>4. ASSUME NEW s, NEW i, NEW p, NEW j, NEW n, ArgsAt(s, i, p, j, n, w)
      PROVE  ParseArgs(s, a, p, CallsOf(s)[n - 1]) = Parsed(Node("()", <<a, b, c>>), j)
    <2>1. PICK r : r = p + Len(w)
        OBVIOUS
    <2>2. /\ Called(s, i, j, 9, n) /\ s \in Streams /\ p \in Nat \ {0} /\ i < p /\ WrittenAt(s, p, w)
          /\ r + 1 = j /\ s[r] = ")" /\ j \in Nat /\ i \in Nat \ {0} /\ j <= Len(s)
        BY <1>4, <2>1 DEF ArgsAt, Called, Between
    <2>3. PICK q, o : Infixed(s, p, v, ",", z, r, q, o)
        BY <1>1, <1>2, <2>1, <2>2, InfixAt, Zenon
    <2>4. Bears(s, p, q, f, b, v) /\ Bears(s, o, r, h, c, z) /\ s[q] = "," /\ o = q + 1
        BY <2>2, <2>3 DEF Bears, Infixed
    <2>5. q <= j /\ r <= j /\ i < o /\ r \in Nat /\ 1 <= Len(s) /\ Len(s) \in Nat
        <3>1. Len(s) \in Nat
            BY <2>2, StreamsLong
        <3>2. /\ r + 1 = j /\ j \in Nat /\ i \in Nat /\ j <= Len(s) /\ i < p /\ p \in Nat
              /\ q = p + Len(v) /\ Len(v) \in Nat /\ o = q + 1 /\ o + Len(z) = r /\ Len(z) \in Nat
            BY <2>2, <2>3 DEF Infixed
        <3>3. QED
            BY <3>1, <3>2
    <2>6. AtCloser(s, q) /\ AtCloser(s, r)
        BY <2>2, <2>4, ClosedBy DEF Closers
    <2>7. /\ ArgRounds(s, a, p, CallsOf(s)[n - 1])[0] = Parsed(Node("()", <<a, b>>), q)
          /\ s[p] # ")" /\ q \in Nat \ {0}
        <3>1. Bears(s, p, q, f, b, v) /\ Called(s, i, j, 9, n) /\ i < p /\ q <= j
            BY <2>2, <2>4, <2>5
        <3>2. QED
            BY <2>6, <3>1, FirstArgument
    <2>8. CallsOf(s)[n - 1][Ternary][o] = Parsed(c, r) /\ r \in Nat \ {0}
        <3>1. Bears(s, o, r, h, c, z) /\ Called(s, i, j, 9, n) /\ i < o /\ r <= j
            BY <2>2, <2>4, <2>5
        <3>2. QED
            BY <2>6, <3>1, EnclosedGets
    <2>9. ArgRounds(s, a, p, CallsOf(s)[n - 1])[1] = Parsed(Node("()", <<a, b, c>>), r)
        <3>1. PICK g : g = ArgRounds(s, a, p, CallsOf(s)[n - 1])
            OBVIOUS
        <3>2. g[0 + 1] = IF Comma(s, g[0])
                         THEN Argument(AfterComma(s, g[0]), CallsOf(s)[n - 1]) ELSE g[0]
            <4>1. 0 \in Nat /\ 0 + 1 <= Len(s)
                BY <2>5
            <4>2. s \in Streams
                BY <2>2
            <4>3. QED
                BY <3>1, <4>1, <4>2, ArgRoundsSteps
        <3>3. Comma(s, g[0])
            <4>1. q \in Nat \ {0} /\ g[0] = Parsed(Node("()", <<a, b>>), q) /\ s[q] = ","
                BY <2>4, <2>7, <3>1
            <4>2. Follows(s, Parsed(Node("()", <<a, b>>), q), {","})
                BY <4>1, OnlyFollows, Zenon
            <4>3. QED
                BY <4>1, <4>2, Zenon DEF Comma
        <3>4. AfterComma(s, g[0]) = Parsed(Node("()", <<a, b>>), o)
            <4>1. Expect(s, ",", Parsed(Node("()", <<a, b>>), q)) = Parsed(Node("()", <<a, b>>), q + 1)
                BY <2>4, <2>7, ExpectIs, ZenonT(60)
            <4>2. QED
                BY <2>4, <2>7, <3>1, <4>1 DEF AfterComma
        <3>5. Append(<<a, b>>, c) = <<a, b, c>> /\ 0 + 1 = 1
            BY Appended
        <3>6. Argument(Parsed(Node("()", <<a, b>>), o), CallsOf(s)[n - 1])
                = Parsed(Node("()", Append(<<a, b>>, c)), r)
            BY <2>8, ArgumentIs
        <3>7. QED
            BY <3>1, <3>2, <3>3, <3>4, <3>5, <3>6
    <2>10. ~Comma(s, Parsed(Node("()", <<a, b, c>>), r))
        <3>1. ~(s[r] = ",")
            BY <2>2
        <3>2. QED
            BY <2>8, <3>1, OnlyFollows, Zenon DEF Comma
    <2>11. 1 \in 0..Len(s)
        BY <2>5
    <2>12. ParseArgs(s, a, p, CallsOf(s)[n - 1]) = Expect(s, ")", Parsed(Node("()", <<a, b, c>>), r))
        BY <2>2, <2>7, <2>9, <2>10, <2>11, ArgsAll
    <2>13. QED
        BY <2>2, <2>8, <2>12, ExpectIs
<1>5. ArgsRead(a, w, Node("()", <<a, b, c>>))
    BY <1>3, <1>4, Zenon DEF ArgsRead
<1>6. QED
    BY <1>1, <1>5

-----------------------------------------------------------------------------
(***************************************************************************)
(* The conditional expression                                              *)
(***************************************************************************)
LEMMA TernaryIs ==
    ASSUME NEW s, NEW i, NEW call, NEW a, NEW b, NEW c, NEW q \in Nat \ {0}, NEW r \in Nat \ {0},
           NEW j \in Nat \ {0}, s[q] = "?", s[r] = ":",
           call[1][i] = Parsed(a, q), call[Ternary][q + 1] = Parsed(b, r),
           call[Ternary][r + 1] = Parsed(c, j)
    PROVE  ParseTernary(s, i, call) = Parsed(Node("?", <<a, b, c>>), j)
<1>1. /\ Parsed(a, q).node = a /\ Parsed(a, q).next = q /\ Parsed(b, r).node = b
      /\ Parsed(b, r + 1).node = b /\ Parsed(b, r + 1).next = r + 1 /\ ~Threw(Parsed(b, r + 1))
      /\ Parsed(c, j).node = c
    BY ParsedIs
<1>2. Follows(s, Parsed(a, q), {"?"})
    BY OnlyFollows
<1>3. Expect(s, ":", Parsed(b, r)) = Parsed(b, r + 1)
    BY ExpectIs
<1>4. Made(Node("?", <<a, b, c>>), Parsed(c, j)) = Parsed(Node("?", <<a, b, c>>), j)
    BY MadeIs
<1>5. QED
    BY <1>1, <1>2, <1>3, <1>4, Zenon DEF ParseTernary

\* A condition from above parseTernary, and two branches that are anything: it
\* groups to the right.
LEMMA TernaryReads ==
    ASSUME NEW e, NEW a, NEW u, Piece(e, a, u), 1 <= e,
           NEW f, NEW b, NEW v, Piece(f, b, v), NEW h, NEW c, NEW z, Piece(h, c, z)
    PROVE  Piece(0, Node("?", <<a, b, c>>), u \o <<"?">> \o v \o <<":">> \o z)
<1>1. PICK w, d : d = u \o <<"?">> \o v /\ w = u \o <<"?">> \o v \o <<":">> \o z
    OBVIOUS
<1>2. w = d \o <<":">> \o z
    BY <1>1, Zenon
<1>3. "?" \in TokenNames /\ ":" \in TokenNames
    BY PunctuationNamed, Zenon
<1>4. /\ u \in Seq(TokenNames) /\ v \in Seq(TokenNames) /\ z \in Seq(TokenNames) /\ u # <<>>
      /\ Len(u) \in Nat /\ Len(u) >= 1 /\ Len(z) \in Nat /\ Len(z) >= 1
    BY EmptySeq, LenProperties DEF Piece
<1>5. d \in Seq(TokenNames) /\ d # <<>> /\ d[1] = u[1]
    BY <1>1, <1>3, <1>4, InfixFirst
<1>6. w \in Seq(TokenNames) /\ w # <<>> /\ w[1] = u[1]
    BY <1>2, <1>3, <1>4, <1>5, InfixFirst
<1>7. ReadsAs(0, Node("?", <<a, b, c>>), w)
    <2> SUFFICES ASSUME NEW s \in Streams, NEW i \in Nat \ {0}, WrittenAt(s, i, w),
                        NEW j, j = i + Len(w), j <= Len(s), Stops(0, s, j),
                        NEW n \in Enough(s, 0, i, j)
                 PROVE  CallsOf(s)[n][0][i] = Parsed(Node("?", <<a, b, c>>), j)
        BY DEF ReadsAs, Core, Gets, Loops
    <2>1. PICK r, o : Infixed(s, i, d, ":", z, j, r, o)
        BY <1>2, <1>3, <1>4, <1>5, InfixAt, Zenon
    <2>2. PICK q, p : Infixed(s, i, u, "?", v, r, q, p)
        <3>1. WrittenAt(s, i, d) /\ r = i + Len(d)
            BY <2>1 DEF Infixed
        <3>2. QED
            BY <1>1, <1>3, <1>4, <3>1, InfixAt, Zenon
    <2>3. /\ Between(s, i, j) /\ i < p /\ r <= j /\ i < o /\ j <= j /\ q <= j /\ q <= Len(s)
          /\ j \in Nat \ {0} /\ q \in Nat \ {0} /\ r \in Nat \ {0} /\ q + 1 = p /\ r + 1 = o
        <3>1. /\ r \in Nat \ {0} /\ o \in Nat \ {0} /\ o = r + 1 /\ o + Len(z) = j /\ r \in 1..Len(s)
              /\ q \in Nat \ {0} /\ p \in Nat \ {0} /\ q = i + Len(u) /\ p = q + 1 /\ p + Len(v) = r
              /\ Len(v) \in Nat /\ j \in Nat
            BY <2>1, <2>2 DEF Infixed
        <3>2. Len(s) \in Nat
            BY StreamsLong
        <3>3. QED
            BY <1>4, <3>1, <3>2, SMTT(30) DEF Between
    <2>4. s[q] = "?" /\ s[r] = ":"
        BY <2>1, <2>2 DEF Infixed
    <2>5. Called(s, i, j, 0, n)
        BY <2>3, MethodsAre DEF Called
    <2>6. CallsOf(s)[n - 1][1][i] = Parsed(a, q)
        <3>1. Bears(s, i, q, e, a, u) /\ 1 \in 0..e
            BY <2>2 DEF Infixed, Bears, Piece, Methods
        <3>2. Stops(1, s, q)
            <4>1. \A k \in 1..9 : "?" \notin Continues(k)
                <5>1. \A k \in {1, 2, 3} : "?" \notin Continues(k)
                    BY LevelsAre
                <5>2. \A k \in {4, 5, 6} : "?" \notin Continues(k)
                    BY LevelsAre, SMTT(30)
                <5>3. \A k \in {7, 8, 9} : "?" \notin Continues(k)
                    BY LevelsAre
                <5>4. \A k \in 1..9 : k \in {1, 2, 3} \cup {4, 5, 6} \cup {7, 8, 9}
                    OBVIOUS
                <5>5. QED
                    BY <5>1, <5>2, <5>3, <5>4
            <4>2. QED
                BY <2>4, <4>1 DEF Stops, Extends
        <3>3. Between(s, i, q) /\ Gets(s, 1, i, a, q)
            BY <2>3, <3>1, <3>2, LeadingGoes
        <3>4. n - 1 \in Enough(s, 1, i, q)
            <4>1. n \in Enough(s, 0, i, q)
                BY <2>3, <3>3, MethodsAre, Fewer
            <4>2. 0 + 1 \in Methods /\ 0 + 1 = 1
                BY DEF Methods
            <4>3. QED
                BY <3>3, <4>1, <4>2, MethodsAre, EnoughIs
        <3>5. QED
            BY <3>3, <3>4 DEF Gets
    <2>7. CallsOf(s)[n - 1][Ternary][p] = Parsed(b, r)
        <3>1. Bears(s, p, r, f, b, v)
            BY <2>2 DEF Infixed, Bears
        <3>2. AtCloser(s, r)
            BY <2>4, ClosedBy DEF Closers
        <3>3. QED
            BY <2>3, <2>5, <3>1, <3>2, EnclosedGets
    <2>8. CallsOf(s)[n - 1][Ternary][o] = Parsed(c, j)
        <3>1. Bears(s, o, j, h, c, z) /\ 0 \in 0..h
            BY <2>1 DEF Infixed, Bears, Piece, Methods
        <3>2. CallsOf(s)[n - 1][0][o] = Parsed(c, j)
            BY <2>3, <2>5, <3>1, PieceGets
        <3>3. QED
            BY <3>2 DEF Ternary
    <2>9. ParseTernary(s, i, CallsOf(s)[n - 1]) = Parsed(Node("?", <<a, b, c>>), j)
        <3>1. CallsOf(s)[n - 1][Ternary][q + 1] = Parsed(b, r)
            BY <2>3, <2>7
        <3>2. CallsOf(s)[n - 1][Ternary][r + 1] = Parsed(c, j)
            BY <2>3, <2>8
        <3>3. QED
            BY <2>3, <2>4, <2>6, <3>1, <3>2, TernaryIs
    <2>10. Method(s, 0, i, CallsOf(s)[n - 1]) = ParseTernary(s, i, CallsOf(s)[n - 1])
        BY DEF Method, Ternary, Unary
    <2>11. QED
        BY <2>5, <2>9, <2>10, CallIs
<1>8. QED
    BY <1>1, <1>4, <1>6, <1>7, MethodsAre, SMTT(30) DEF Piece

\* One step of StringRead
StringStep(s, k, r) ==
    IF ~r.open \/ r.next > Len(s) THEN r
    ELSE CASE s[r.next] = "'" -> [r EXCEPT !.next = @ + 1, !.open = FALSE]
           [] s[r.next] = "\\" /\ r.next = Len(s) -> [r EXCEPT !.open = FALSE]
           [] s[r.next] = "\\" /\ r.next < Len(s) ->
                 [r EXCEPT !.value = Append(@, s[r.next + 1]), !.next = @ + 2]
           [] OTHER -> [r EXCEPT !.value = Append(@, s[r.next]), !.next = @ + 1]
Reading == INSTANCE Recursion WITH Step <- StringStep

(***************************************************************************)
(* Characters                                                              *)
(***************************************************************************)
\* Characters that would make something else of a token if they came after it
Blocks(u) ==
    CASE u \in Identifiers -> {"a", "b", "5"}
      [] u = ".5" -> {"5", "."}
      [] u \in {"==", "!=", ">", "<", "!"} -> {"="}
      [] u = "?" -> {"?"}
      [] u = "." -> {"5"}
      [] OTHER -> {}

\* Where a text of one character is written,
LEMMA WrittenOne ==
    ASSUME NEW s, Len(s) \in Nat, NEW i \in Nat, NEW x
    PROVE  WrittenAt(s, i, <<x>>) <=> i <= Len(s) /\ s[i] = x
<1>1. Len(<<x>>) = 1 /\ <<x>>[1] = x
    OBVIOUS
<1>2. (\A k \in 1..1 : s[i + k - 1] = <<x>>[k]) <=> s[i + 1 - 1] = <<x>>[1]
    OBVIOUS
<1>3. i + 1 - 1 = i /\ (i + 1 <= Len(s) + 1 <=> i <= Len(s))
    OBVIOUS
<1>4. QED
    BY <1>1, <1>2, <1>3, Zenon DEF WrittenAt

\* one of two,
LEMMA WrittenTwo ==
    ASSUME NEW s, Len(s) \in Nat, NEW i \in Nat, NEW x, NEW y
    PROVE  WrittenAt(s, i, <<x, y>>) <=> i + 1 <= Len(s) /\ s[i] = x /\ s[i + 1] = y
<1>1. Len(<<x, y>>) = 2 /\ <<x, y>>[1] = x /\ <<x, y>>[2] = y
    OBVIOUS
<1>2. 1..2 = {1, 2}
    OBVIOUS
<1>3. i + 1 - 1 = i /\ i + 2 - 1 = i + 1 /\ (i + 2 <= Len(s) + 1 <=> i + 1 <= Len(s))
    OBVIOUS
<1>4. (\A k \in 1..2 : s[i + k - 1] = <<x, y>>[k]) <=> s[i] = x /\ s[i + 1] = y
    BY <1>1, <1>2, <1>3
<1>5. QED
    BY <1>1, <1>3, <1>4, Zenon DEF WrittenAt

\* one of three,
LEMMA WrittenThree ==
    ASSUME NEW s, Len(s) \in Nat, NEW i \in Nat, NEW x, NEW y, NEW z
    PROVE  WrittenAt(s, i, <<x, y, z>>) <=>
              i + 2 <= Len(s) /\ s[i] = x /\ s[i + 1] = y /\ s[i + 2] = z
<1>1. Len(<<x, y, z>>) = 3 /\ <<x, y, z>>[1] = x /\ <<x, y, z>>[2] = y /\ <<x, y, z>>[3] = z
    OBVIOUS
<1>2. 1..3 = {1, 2, 3}
    OBVIOUS
<1>3. i + 1 - 1 = i /\ i + 2 - 1 = i + 1 /\ i + 3 - 1 = i + 2 /\ (i + 3 <= Len(s) + 1 <=> i + 2 <= Len(s))
    OBVIOUS
<1>4. (\A k \in 1..3 : s[i + k - 1] = <<x, y, z>>[k]) <=> s[i] = x /\ s[i + 1] = y /\ s[i + 2] = z
    BY <1>1, <1>2, <1>3
<1>5. QED
    BY <1>1, <1>3, <1>4, Zenon DEF WrittenAt

\* The characters of every token
LEMMA SpellingIs ==
    /\ Spelling("text") = <<"'", "?", "\\", "'", "'">> /\ Spelling(".5") = <<".", "5">>
    /\ Spelling("===") = <<"=", "=", "=">> /\ Spelling("!==") = <<"!", "=", "=">>
    /\ Spelling("&&") = <<"&", "&">> /\ Spelling("||") = <<"|", "|">>
    /\ Spelling("??") = <<"?", "?">> /\ Spelling("==") = <<"=", "=">>
    /\ Spelling("!=") = <<"!", "=">> /\ Spelling(">=") = <<">", "=">>
    /\ Spelling("<=") = <<"<", "=">>
    /\ \A u \in One \cup Identifiers : Spelling(u) = <<u>>
<1>1. /\ Spelling("text") = <<"'", "?", "\\", "'", "'">> /\ Spelling(".5") = <<".", "5">>
      /\ Spelling("===") = <<"=", "=", "=">> /\ Spelling("!==") = <<"!", "=", "=">>
      /\ Spelling("&&") = <<"&", "&">> /\ Spelling("||") = <<"|", "|">>
      /\ Spelling("??") = <<"?", "?">> /\ Spelling("==") = <<"=", "=">>
      /\ Spelling("!=") = <<"!", "=">> /\ Spelling(">=") = <<">", "=">>
      /\ Spelling("<=") = <<"<", "=">>
    BY DEF Spelling
<1>2. ASSUME NEW u \in One \cup Identifiers
      PROVE  Spelling(u) = <<u>>
    <2>1. u \notin {"text", ".5", "===", "!==", "&&", "||", "??", "==", "!=", ">=", "<="}
        BY DEF One, Identifiers
    <2>2. QED
        BY <2>1 DEF Spelling
<1>3. QED
    BY <1>1, <1>2

\* Where every token is written
LEMMA SpelledIs ==
    ASSUME NEW s, Len(s) \in Nat, NEW i \in Nat
    PROVE  /\ WrittenAt(s, i, Spelling("===")) <=> i + 2 <= Len(s) /\ s[i] = "=" /\ s[i + 1] = "=" /\ s[i + 2] = "="
           /\ WrittenAt(s, i, Spelling("!==")) <=> i + 2 <= Len(s) /\ s[i] = "!" /\ s[i + 1] = "=" /\ s[i + 2] = "="
           /\ WrittenAt(s, i, Spelling("&&")) <=> i + 1 <= Len(s) /\ s[i] = "&" /\ s[i + 1] = "&"
           /\ WrittenAt(s, i, Spelling("||")) <=> i + 1 <= Len(s) /\ s[i] = "|" /\ s[i + 1] = "|"
           /\ WrittenAt(s, i, Spelling("??")) <=> i + 1 <= Len(s) /\ s[i] = "?" /\ s[i + 1] = "?"
           /\ WrittenAt(s, i, Spelling("==")) <=> i + 1 <= Len(s) /\ s[i] = "=" /\ s[i + 1] = "="
           /\ WrittenAt(s, i, Spelling("!=")) <=> i + 1 <= Len(s) /\ s[i] = "!" /\ s[i + 1] = "="
           /\ WrittenAt(s, i, Spelling(">=")) <=> i + 1 <= Len(s) /\ s[i] = ">" /\ s[i + 1] = "="
           /\ WrittenAt(s, i, Spelling("<=")) <=> i + 1 <= Len(s) /\ s[i] = "<" /\ s[i + 1] = "="
           /\ WrittenAt(s, i, Spelling(".5")) <=> i + 1 <= Len(s) /\ s[i] = "." /\ s[i + 1] = "5"
           /\ \A u \in One \cup Identifiers : WrittenAt(s, i, Spelling(u)) <=> i <= Len(s) /\ s[i] = u
<1>1. WrittenAt(s, i, Spelling("===")) <=> i + 2 <= Len(s) /\ s[i] = "=" /\ s[i + 1] = "=" /\ s[i + 2] = "="
    BY SpellingIs, WrittenThree
<1>2. WrittenAt(s, i, Spelling("!==")) <=> i + 2 <= Len(s) /\ s[i] = "!" /\ s[i + 1] = "=" /\ s[i + 2] = "="
    BY SpellingIs, WrittenThree
<1>3. WrittenAt(s, i, Spelling("&&")) <=> i + 1 <= Len(s) /\ s[i] = "&" /\ s[i + 1] = "&"
    BY SpellingIs, WrittenTwo
<1>4. WrittenAt(s, i, Spelling("||")) <=> i + 1 <= Len(s) /\ s[i] = "|" /\ s[i + 1] = "|"
    BY SpellingIs, WrittenTwo
<1>5. WrittenAt(s, i, Spelling("??")) <=> i + 1 <= Len(s) /\ s[i] = "?" /\ s[i + 1] = "?"
    BY SpellingIs, WrittenTwo
<1>6. WrittenAt(s, i, Spelling("==")) <=> i + 1 <= Len(s) /\ s[i] = "=" /\ s[i + 1] = "="
    BY SpellingIs, WrittenTwo
<1>7. WrittenAt(s, i, Spelling("!=")) <=> i + 1 <= Len(s) /\ s[i] = "!" /\ s[i + 1] = "="
    BY SpellingIs, WrittenTwo
<1>8. WrittenAt(s, i, Spelling(">=")) <=> i + 1 <= Len(s) /\ s[i] = ">" /\ s[i + 1] = "="
    BY SpellingIs, WrittenTwo
<1>9. WrittenAt(s, i, Spelling("<=")) <=> i + 1 <= Len(s) /\ s[i] = "<" /\ s[i + 1] = "="
    BY SpellingIs, WrittenTwo
<1>10. WrittenAt(s, i, Spelling(".5")) <=> i + 1 <= Len(s) /\ s[i] = "." /\ s[i + 1] = "5"
    BY SpellingIs, WrittenTwo
<1>11. ASSUME NEW u \in One \cup Identifiers
      PROVE  WrittenAt(s, i, Spelling(u)) <=> i <= Len(s) /\ s[i] = u
    <2>1. Spelling(u) = <<u>>
        BY SpellingIs
    <2>2. QED
        BY <2>1, WrittenOne
<1>12. QED
    BY <1>1, <1>2, <1>3, <1>4, <1>5, <1>6, <1>7, <1>8, <1>9, <1>10, <1>11

\* How long the tokens are
LEMMA SpellingLong ==
    /\ \A u \in Three : Len(Spelling(u)) = 3
    /\ \A u \in Two \cup {".5"} : Len(Spelling(u)) = 2
    /\ \A u \in One \cup Identifiers : Len(Spelling(u)) = 1
    /\ Len(Spelling("text")) = 5
<1>1. ASSUME NEW u \in Three
      PROVE  Len(Spelling(u)) = 3
    BY SpellingIs DEF Three
<1>2. ASSUME NEW u \in Two \cup {".5"}
      PROVE  Len(Spelling(u)) = 2
    BY SpellingIs DEF Two
<1>3. ASSUME NEW u \in One \cup Identifiers
      PROVE  Len(Spelling(u)) = 1
    <2>1. Spelling(u) = <<u>>
        BY SpellingIs
    <2>2. QED
        BY <2>1
<1>4. Len(Spelling("text")) = 5
    BY SpellingIs
<1>5. QED
    BY <1>1, <1>2, <1>3, <1>4

-----------------------------------------------------------------------------
(***************************************************************************)
(* What is read of a token                                                 *)
(***************************************************************************)
ReadAt(s, i, u) == NextToken(s, i) = TokenRead(u, i + Len(Spelling(u)))
\* Nothing at j makes something else of u.
Clear(s, j, u) == j <= Len(s) => s[j] \notin Blocks(u)

\* Neither a string nor a number nor a name begins here.
Plain(s, i) == s[i] # "'" /\ ~StartsNumber(s, i) /\ s[i] \notin Identifiers

\* tokenize takes the operator of three characters that is written,
LEMMA ThreeRead ==
    ASSUME NEW s, NEW i, NEW u, Plain(s, i), SpelledAt(s, i, Three) = {u}
    PROVE  ReadAt(s, i, u)
<1>1. u = CHOOSE t \in SpelledAt(s, i, Three) : TRUE
    OBVIOUS
<1>2. SpelledAt(s, i, Three) # {} /\ SpelledAt(s, i, Three \cup Two) # {}
    BY DEF SpelledAt
<1>3. QED
    BY <1>1, <1>2, Zenon DEF NextToken, Plain, ReadAt

\* else the one of two,
LEMMA TwoRead ==
    ASSUME NEW s, NEW i, NEW u, Plain(s, i), SpelledAt(s, i, Three) = {}, SpelledAt(s, i, Two) = {u}
    PROVE  ReadAt(s, i, u)
<1>1. u = CHOOSE t \in SpelledAt(s, i, Two) : TRUE
    OBVIOUS
<1>2. SpelledAt(s, i, Two) # {} /\ SpelledAt(s, i, Three \cup Two) # {}
    BY DEF SpelledAt
<1>3. QED
    BY <1>1, <1>2, Zenon DEF NextToken, Plain, ReadAt

\* else the one of one character.
LEMMA OneRead ==
    ASSUME NEW s, NEW i, NEW u, Plain(s, i), SpelledAt(s, i, Three) = {}, SpelledAt(s, i, Two) = {},
           SpelledAt(s, i, One) = {u}
    PROVE  ReadAt(s, i, u)
<1>1. u = CHOOSE t \in SpelledAt(s, i, One) : TRUE
    OBVIOUS
<1>2. SpelledAt(s, i, One) # {} /\ SpelledAt(s, i, Three \cup Two) = {}
    BY DEF SpelledAt
<1>3. QED
    BY <1>1, <1>2, Zenon DEF NextToken, Plain, ReadAt

\* The characters of operators, without the dot
Marks == {"=", "!", "&", "|", "?", ">", "<", "+", "-", "*", "/", "%", "(", ")", ",", "[", "]", ":"}

\* No mark but the dot begins a string, a number or a name.
LEMMA MarksPlain ==
    ASSUME NEW s, NEW i, NEW c \in Marks, s[i] = c
    PROVE  Plain(s, i)
BY DEF Marks, Plain, StartsNumber, Digits, Identifiers

\* What is not written where another character is
LEMMA OthersNot ==
    ASSUME NEW s, Len(s) \in Nat, NEW i \in Nat
    PROVE  /\ s[i] # "=" /\ s[i] # "!" => SpelledAt(s, i, Three) = {}
           /\ s[i + 1] # "=" => SpelledAt(s, i, Three) = {}
           /\ ~(i + 1 <= Len(s)) => SpelledAt(s, i, Three) = {} /\ SpelledAt(s, i, Two) = {}
           /\ s[i + 2] # "=" => SpelledAt(s, i, Three) = {}
           /\ ~(i + 2 <= Len(s)) => SpelledAt(s, i, Three) = {}
           /\ s[i] \notin {"=", "!", "&", "|", "?", ">", "<"} => SpelledAt(s, i, Two) = {}
           /\ s[i] \in {">", "<", "!"} /\ s[i + 1] # "=" => SpelledAt(s, i, Two) = {}
           /\ s[i] = "?" /\ s[i + 1] # "?" => SpelledAt(s, i, Two) = {}
<1>1. ASSUME NEW t \in SpelledAt(s, i, Three)
      PROVE  /\ s[i] = "=" \/ s[i] = "!"
             /\ s[i + 1] = "=" /\ s[i + 2] = "=" /\ i + 2 <= Len(s)
    BY SpelledIs DEF SpelledAt, Three
<1>2. ASSUME NEW t \in SpelledAt(s, i, Two)
      PROVE  /\ s[i] \in {"=", "!", "&", "|", "?", ">", "<"}
             /\ s[i] \in {">", "<", "!"} => s[i + 1] = "="
             /\ s[i] = "?" => s[i + 1] = "?"
             /\ i + 1 <= Len(s)
    BY SpelledIs DEF SpelledAt, Two
<1>3. i + 2 <= Len(s) => i + 1 <= Len(s)
    OBVIOUS
<1>4. QED
    BY <1>1, <1>2, <1>3, Zenon

\* One character is one operator of one character.
LEMMA OnlyOne ==
    ASSUME NEW s, Len(s) \in Nat, NEW i \in Nat, NEW u \in One, WrittenAt(s, i, Spelling(u))
    PROVE  s[i] = u /\ SpelledAt(s, i, One) = {u}
<1>1. \A t \in One : WrittenAt(s, i, Spelling(t)) <=> i <= Len(s) /\ s[i] = t
    BY SpelledIs
<1>2. s[i] = u
    BY <1>1
<1>3. QED
    BY <1>1, <1>2 DEF SpelledAt

\* An operator of three characters is read as such,
LEMMA ThreeTokens ==
    ASSUME NEW s, Len(s) \in Nat, NEW i \in Nat, NEW u \in Three, WrittenAt(s, i, Spelling(u))
    PROVE  ReadAt(s, i, u)
<1>1. u = "===" \/ u = "!=="
    BY DEF Three
<1>2. s[i] = IF u = "===" THEN "=" ELSE "!"
    BY <1>1, SpelledIs
<1>3. Plain(s, i)
    BY <1>2, MarksPlain DEF Marks
<1>4. SpelledAt(s, i, Three) = {u}
    BY <1>1, <1>2, SpelledIs DEF SpelledAt, Three
<1>5. QED
    BY <1>3, <1>4, ThreeRead

\* one of two when no third one follows,
LEMMA TwoTokens ==
    ASSUME NEW s, Len(s) \in Nat, NEW i \in Nat, NEW u \in Two, WrittenAt(s, i, Spelling(u)),
           Clear(s, i + 2, u)
    PROVE  ReadAt(s, i, u)
<1>1. /\ u = "&&" => (s[i] = "&" /\ s[i + 1] = "&")
      /\ u = "||" => (s[i] = "|" /\ s[i + 1] = "|")
      /\ u = "??" => (s[i] = "?" /\ s[i + 1] = "?")
      /\ u = "==" => (s[i] = "=" /\ s[i + 1] = "=")
      /\ u = "!=" => (s[i] = "!" /\ s[i + 1] = "=")
      /\ u = ">=" => (s[i] = ">" /\ s[i + 1] = "=")
      /\ u = "<=" => (s[i] = "<" /\ s[i + 1] = "=")
    BY SpelledIs
<1>2. Plain(s, i)
    BY <1>1, MarksPlain DEF Marks, Two
<1>3. SpelledAt(s, i, Three) = {}
    <2>1. CASE u \in {"==", "!="}
        <3>1. Blocks(u) = {"="}
            BY <2>1 DEF Blocks, Identifiers
        <3>2. i + 2 <= Len(s) => s[i + 2] # "="
            BY <3>1 DEF Clear
        <3>3. QED
            BY <3>2, OthersNot
    <2>2. CASE u \notin {"==", "!="}
        <3>1. s[i] # "=" /\ s[i] # "!"
            BY <1>1, <2>2 DEF Two
        <3>2. QED
            BY <3>1, OthersNot
    <2>3. QED
        BY <2>1, <2>2
<1>4. SpelledAt(s, i, Two) = {u}
    <2>1. ASSUME NEW t \in Two, WrittenAt(s, i, Spelling(t))
          PROVE  t = u
        BY <1>1, <2>1, SpelledIs DEF Two
    <2>2. QED
        BY <2>1 DEF SpelledAt
<1>5. QED
    BY <1>2, <1>3, <1>4, TwoRead

\* one of one when nothing follows that would make it another.
LEMMA OneTokens ==
    ASSUME NEW s, Len(s) \in Nat, NEW i \in Nat, NEW u \in One, WrittenAt(s, i, Spelling(u)),
           Clear(s, i + 1, u)
    PROVE  ReadAt(s, i, u)
<1>1. s[i] = u /\ SpelledAt(s, i, One) = {u}
    BY OnlyOne
<1>2. Plain(s, i)
    <2>1. CASE u = "."
        <3>1. Blocks(u) = {"5"}
            BY <2>1 DEF Blocks, Identifiers
        <3>2. i + 1 <= Len(s) => s[i + 1] # "5"
            BY <3>1 DEF Clear
        <3>3. i < Len(s) => i + 1 <= Len(s)
            OBVIOUS
        <3>4. QED
            BY <1>1, <2>1, <3>2, <3>3 DEF Plain, StartsNumber, Digits, Identifiers
    <2>2. CASE u # "."
        BY <1>1, <2>2, MarksPlain DEF Marks, One
    <2>3. QED
        BY <2>1, <2>2
<1>3. SpelledAt(s, i, Three) = {} /\ SpelledAt(s, i, Two) = {}
    <2>1. CASE u \in {">", "<", "!"}
        <3>1. Blocks(u) = {"="}
            BY <2>1 DEF Blocks, Identifiers
        <3>2. i + 1 <= Len(s) => s[i + 1] # "="
            BY <3>1 DEF Clear
        <3>3. QED
            BY <1>1, <2>1, <3>2, OthersNot
    <2>2. CASE u = "?"
        <3>1. Blocks(u) = {"?"}
            BY <2>2 DEF Blocks, Identifiers
        <3>2. i + 1 <= Len(s) => s[i + 1] # "?"
            BY <3>1 DEF Clear
        <3>3. QED
            BY <1>1, <2>2, <3>2, OthersNot
    <2>3. CASE u \notin {">", "<", "!", "?"}
        <3>1. u \notin {"=", "!", "&", "|", "?", ">", "<"}
            BY <2>3 DEF One
        <3>2. QED
            BY <1>1, <3>1, OthersNot
    <2>4. QED
        BY <2>1, <2>2, <2>3
<1>4. QED
    BY <1>1, <1>2, <1>3, OneRead

\* A run of characters ends where the next one is another.
LEMMA RunEndsAt ==
    ASSUME NEW s, Len(s) \in Nat, NEW i \in Nat, NEW j \in Nat, i + 1 <= j, j <= Len(s) + 1,
           NEW characters, j <= Len(s) => s[j] \notin characters,
           \A k \in i + 1..j - 1 : s[k] \in characters
    PROVE  RunEnds(s, i, characters) = j
<1> DEFINE Run(c) == /\ c > Len(s) \/ s[c] \notin characters
                     /\ \A k \in i + 1..c - 1 : s[k] \in characters
<1>1. j \in i + 1..Len(s) + 1 /\ Run(j)
    OBVIOUS
<1>2. ASSUME NEW c \in i + 1..Len(s) + 1, Run(c)
      PROVE  c = j
    <2>1. CASE c < j
        <3>1. c \in i + 1..j - 1 /\ ~(c > Len(s))
            BY <2>1
        <3>2. QED
            BY <1>2, <3>1
    <2>2. CASE j < c
        <3>1. j \in i + 1..c - 1 /\ j <= Len(s)
            BY <2>2
        <3>2. QED
            BY <1>2, <3>1
    <2>3. QED
        BY <2>1, <2>2
<1>3. RunEnds(s, i, characters) = CHOOSE c \in i + 1..Len(s) + 1 : Run(c)
    BY Zenon DEF RunEnds
<1>4. QED
    <2> HIDE DEF Run
    <2> QED
        BY <1>1, <1>2, <1>3, Zenon

\* A name is read up to a character that is no part of it.
LEMMA NameTokens ==
    ASSUME NEW s, Len(s) \in Nat, NEW i \in Nat, NEW u \in Identifiers, WrittenAt(s, i, Spelling(u)),
           Clear(s, i + 1, u)
    PROVE  ReadAt(s, i, u)
<1>1. s[i] = u /\ i <= Len(s) /\ Len(Spelling(u)) = 1
    BY SpelledIs, SpellingLong
<1>2. i + 1 <= Len(s) => s[i + 1] \notin Identifiers \cup Digits
    <2>1. Blocks(u) = Identifiers \cup Digits
        BY DEF Blocks, Identifiers, Digits
    <2>2. QED
        BY <2>1 DEF Clear
<1>3. RunEnds(s, i, Identifiers \cup Digits) = i + 1
    <2>1. i + 1 \in Nat /\ i + 1 <= i + 1 /\ i + 1 <= Len(s) + 1 /\ i + 1..(i + 1) - 1 = {}
        BY <1>1
    <2>2. QED
        BY <1>2, <2>1, RunEndsAt
<1>4. s[i] # "'" /\ ~StartsNumber(s, i)
    BY <1>1 DEF StartsNumber, Digits, Identifiers
<1>5. NextToken(s, i) = TokenRead(u, i + 1)
    <2>1. NextToken(s, i) = TokenRead(IF RunEnds(s, i, Identifiers \cup Digits) = i + 1
                                      THEN s[i] ELSE "another", RunEnds(s, i, Identifiers \cup Digits))
        BY <1>1, <1>4, Zenon DEF NextToken
    <2>2. QED
        BY <1>1, <1>3, <2>1, Zenon
<1>6. QED
    BY <1>1, <1>5 DEF ReadAt

\* So is the number.
LEMMA NumberToken ==
    ASSUME NEW S, NEW s \in Seq(S), NEW i \in Nat \ {0}, WrittenAt(s, i, Spelling(".5")),
           Clear(s, i + 2, ".5")
    PROVE  ReadAt(s, i, ".5")
<1>0. Len(s) \in Nat
    BY LenProperties
<1>1. s[i] = "." /\ s[i + 1] = "5" /\ i + 1 <= Len(s) /\ Len(Spelling(".5")) = 2
    BY <1>0, SpelledIs, SpellingLong
<1>2. i + 2 <= Len(s) => s[i + 2] \notin Digits \cup {"."}
    <2>1. Blocks(".5") = Digits \cup {"."}
        BY DEF Blocks, Identifiers, Digits
    <2>2. QED
        BY <2>1 DEF Clear
<1>3. RunEnds(s, i, Digits \cup {"."}) = i + 2
    <2>1. i + 2 \in Nat /\ i + 1 <= i + 2 /\ i + 2 <= Len(s) + 1 /\ i + 1..(i + 2) - 1 = {i + 1}
        BY <1>0, <1>1
    <2>2. \A k \in i + 1..(i + 2) - 1 : s[k] \in Digits \cup {"."}
        BY <1>1, <2>1 DEF Digits
    <2>3. QED
        BY <1>0, <1>2, <2>1, <2>2, RunEndsAt
<1>4. s[i] # "'" /\ StartsNumber(s, i)
    <2>1. i < Len(s)
        BY <1>0, <1>1
    <2>2. QED
        BY <1>1, <2>1 DEF StartsNumber, Digits
<1>5. SubSeq(s, i, (i + 2) - 1) = Spelling(".5")
    <2>1. PICK t : t = SubSeq(s, i, (i + 2) - 1)
        OBVIOUS
    <2>2. (i + 2) - 1 = i + 1 /\ i \in 1..Len(s) + 1 /\ i + 1 \in i - 1..Len(s)
        BY <1>0, <1>1
    <2>3. t \in Seq(S) /\ Len(t) = 2 /\ t[1] = s[i] /\ t[2] = s[i + 1]
        BY <1>0, <1>1, <2>1, <2>2, SubSeqProperties
    <2>4. t = <<t[1], t[2]>>
        BY <2>3
    <2>5. QED
        BY <1>1, <2>1, <2>3, <2>4, SpellingIs
<1>6. NextToken(s, i) = TokenRead(".5", i + 2)
    <2>1. NextToken(s, i) = TokenRead(IF SubSeq(s, i, RunEnds(s, i, Digits \cup {"."}) - 1)
                                           = Spelling(".5") THEN ".5" ELSE "another",
                                      RunEnds(s, i, Digits \cup {"."}))
        <3>1. s[i] \notin Identifiers
            BY <1>1 DEF Identifiers
        <3>2. QED
            BY <1>4, <3>1, Zenon DEF NextToken
    <2>2. QED
        BY <1>3, <1>5, <2>1, Zenon
<1>7. QED
    BY <1>1, <1>6 DEF ReadAt

\* What has been read of a string
Partly(value, next, open) == [value |-> value, next |-> next, open |-> open]
\* A string that is still open
Open(value, next) == Partly(value, next, TRUE)
StringSoFar(s, i) == Reading!Iterated(s, Open(<<>>, i), Len(s))

\* A string is read one character after the other.
LEMMA StringReadSteps ==
    ASSUME NEW s, Len(s) \in Nat, NEW i
    PROVE  /\ StringSoFar(s, i)[0] = Open(<<>>, i)
           /\ \A k \in Nat : k + 1 <= Len(s) =>
                 StringSoFar(s, i)[k + 1] = StringStep(s, k + 1, StringSoFar(s, i)[k])
           /\ StringRead(s, i) = StringSoFar(s, i)[Len(s)]
<1>1. PICK n, base : n = Len(s) /\ base = Open(<<>>, i)
    OBVIOUS
<1>2. n \in Nat
    BY <1>1
<1>3. /\ Reading!Iterated(s, base, n)[0] = base
      /\ \A k \in Nat : k + 1 <= n =>
            Reading!Iterated(s, base, n)[k + 1] = StringStep(s, k + 1, Reading!Iterated(s, base, n)[k])
    BY <1>2, Reading!IterationSteps
<1>4. StringRead(s, i) = StringSoFar(s, i)[Len(s)]
    BY Zenon DEF StringRead, StringSoFar, Reading!Iterated, Reading!Iterates, StringStep, Open, Partly
<1>5. QED
    BY <1>1, <1>3, <1>4, Zenon DEF StringSoFar

\* A character of the text
StringAt(s, j, character) == Len(s) \in Nat /\ j \in Nat /\ j <= Len(s) /\ s[j] = character

\* A quotation mark ends it.
LEMMA QuotationEnds ==
    ASSUME NEW s, NEW k, NEW v, NEW j, StringAt(s, j, "'")
    PROVE  StringStep(s, k, Open(v, j)) = Partly(v, j + 1, FALSE)
<1>1. PICK r : r = Open(v, j)
    OBVIOUS
<1>2. r.open = TRUE /\ r.next = j /\ r.value = v /\ s[j] = "'" /\ s[j] # "\\" /\ ~(j > Len(s))
    BY <1>1 DEF Open, Partly, StringAt
<1>3. StringStep(s, k, r) = [r EXCEPT !.next = @ + 1, !.open = FALSE]
    BY <1>2, Zenon DEF StringStep
<1>4. QED
    BY <1>1, <1>3 DEF Open, Partly

\* A character, or an escaped one, is added to what was read.
Adds(s, j, v, w) == StringAt(s, j, "?") /\ w = Append(v, "?")
Escapes(s, j, v, w) == StringAt(s, j, "\\") /\ StringAt(s, j + 1, "'") /\ w = Append(v, "'")

\* A character is added.
LEMMA CharacterRead ==
    ASSUME NEW s, NEW k, NEW v, NEW j, NEW y, Adds(s, j, v, y)
    PROVE  StringStep(s, k, Open(v, j)) = Open(y, j + 1)
<1>1. PICK r : r = Open(v, j)
    OBVIOUS
<1>2. r.open = TRUE /\ r.next = j /\ r.value = v /\ s[j] = "?" /\ s[j] # "\\" /\ s[j] # "'"
      /\ ~(j > Len(s))
    BY <1>1 DEF Open, Partly, StringAt, Adds
<1>3. StringStep(s, k, r) = [r EXCEPT !.value = Append(@, s[r.next]), !.next = @ + 1]
    BY <1>2, Zenon DEF StringStep
<1>4. StringStep(s, k, r) = [r EXCEPT !.value = y, !.next = @ + 1]
    BY <1>2, <1>3, Zenon DEF Adds
<1>5. QED
    BY <1>1, <1>4 DEF Open, Partly

\* A character behind a backslash is added, also a quotation mark.
LEMMA EscapeRead ==
    ASSUME NEW s, NEW k, NEW v, NEW j, NEW y, Escapes(s, j, v, y)
    PROVE  StringStep(s, k, Open(v, j)) = Open(y, j + 2)
<1>1. PICK r : r = Open(v, j)
    OBVIOUS
<1>2. r.open = TRUE /\ r.next = j /\ r.value = v /\ s[j] = "\\" /\ s[j] # "?" /\ s[j] # "'"
      /\ ~(j > Len(s)) /\ j < Len(s) /\ ~(j = Len(s)) /\ s[j + 1] = "'"
    BY <1>1 DEF Open, Partly, StringAt, Escapes
<1>3. StringStep(s, k, r) = [r EXCEPT !.value = Append(@, s[r.next + 1]), !.next = @ + 2]
    BY <1>2, Zenon DEF StringStep
<1>4. StringStep(s, k, r) = [r EXCEPT !.value = y, !.next = @ + 2]
    BY <1>2, <1>3, Zenon DEF Escapes
<1>5. QED
    BY <1>1, <1>4 DEF Open, Partly

\* The characters of the string
LEMMA WrittenText ==
    ASSUME NEW s, Len(s) \in Nat, NEW i \in Nat, WrittenAt(s, i, Spelling("text"))
    PROVE  /\ s[i] = "'" /\ s[i + 1] = "?" /\ s[i + 2] = "\\" /\ s[i + 3] = "'"
           /\ s[i + 4] = "'" /\ i + 4 <= Len(s)
<1>1. PICK w : w = <<"'", "?", "\\", "'", "'">>
    OBVIOUS
<1>2. Len(w) = 5 /\ w[1] = "'" /\ w[2] = "?" /\ w[3] = "\\" /\ w[4] = "'" /\ w[5] = "'"
    BY <1>1
<1>3. i + Len(w) <= Len(s) + 1 /\ \A k \in 1..Len(w) : s[i + k - 1] = w[k]
    BY <1>1, SpellingIs DEF WrittenAt
<1>4. s[i + 1 - 1] = w[1] /\ s[i + 2 - 1] = w[2] /\ s[i + 3 - 1] = w[3] /\ s[i + 4 - 1] = w[4]
      /\ s[i + 5 - 1] = w[5]
    BY <1>2, <1>3
<1>5. i + 1 - 1 = i /\ i + 2 - 1 = i + 1 /\ i + 3 - 1 = i + 2 /\ i + 4 - 1 = i + 3
      /\ i + 5 - 1 = i + 4
    OBVIOUS
<1>6. i + 4 <= Len(s)
    BY <1>2, <1>3
<1>7. QED
    BY <1>2, <1>4, <1>5, <1>6, Zenon

\* Its value
LEMMA AppendedText ==
    Append(<<>>, "?") = <<"?">> /\ Append(<<"?">>, "'") = <<"?", "'">>
<1>1. ASSUME NEW x
      PROVE  Append(<<>>, x) = <<x>>
    <2>1. PICK S : S = {x}
        OBVIOUS
    <2>2. x \in S /\ <<>> \in Seq(S) /\ <<x>> \in Seq(S) /\ Len(<<x>>) = Len(<<>>) + 1
          /\ <<x>>[Len(<<>>) + 1] = x /\ \A i \in 1..Len(<<>>) : <<x>>[i] = <<>>[i]
        BY <2>1
    <2>3. QED
        BY <2>2, AppendIs, Zenon
<1>2. QED
    BY <1>1, Appended, Zenon

\* A string that was closed stays as it is.
StringSteps(s, f) == \A k \in Nat : k + 1 <= Len(s) => f[k + 1] = StringStep(s, k + 1, f[k])

\* And is what the string is in the end.
LEMMA ClosedStays ==
    ASSUME NEW s, Len(s) \in Nat, NEW f, StringSteps(s, f), NEW v, NEW j,
           NEW m \in Nat, m <= Len(s), f[m] = Partly(v, j, FALSE)
    PROVE  f[Len(s)] = Partly(v, j, FALSE)
<1>1. PICK r, n : r = Partly(v, j, FALSE) /\ n = Len(s)
    OBVIOUS
<1>2. \A k : StringStep(s, k, r) = r
    <2>1. ~r.open
        BY <1>1 DEF Partly
    <2>2. QED
        BY <2>1 DEF StringStep
<1> DEFINE S == {q \in Nat : m + q <= n => f[m + q] = r}
<1>3. 0 \in S
    <2>1. m + 0 = m
        OBVIOUS
    <2>2. QED
        BY <1>1, <2>1
<1>4. ASSUME NEW q \in Nat, q \in S
      PROVE  q + 1 \in S
    <2>1. CASE ~(m + (q + 1) <= n)
        BY <2>1
    <2>2. CASE m + (q + 1) <= n
        <3>1. m + q <= n /\ m + q \in Nat /\ (m + q) + 1 = m + (q + 1) /\ (m + q) + 1 <= n
            BY <1>1, <2>2
        <3>2. f[m + q] = r
            BY <1>4, <3>1
        <3>3. f[(m + q) + 1] = StringStep(s, (m + q) + 1, f[m + q])
            BY <1>1, <3>1 DEF StringSteps
        <3>4. QED
            BY <1>2, <3>1, <3>2, <3>3
    <2>3. QED
        BY <2>1, <2>2
<1>5. Nat \subseteq S
    <2> HIDE DEF S
    <2> QED
        BY <1>3, <1>4, Reading!SetInduction
<1>6. PICK q : q = n - m
    OBVIOUS
<1>7. q \in Nat /\ m + q = n /\ m + q <= n
    BY <1>1, <1>6
<1>8. f[m + q] = r
    BY <1>5, <1>7
<1>9. QED
    BY <1>1, <1>7, <1>8, Zenon

\* The string is read, with the quotation mark in it.
LEMMA StringToken ==
    ASSUME NEW s, Len(s) \in Nat, NEW i \in Nat \ {0}, WrittenAt(s, i, Spelling("text"))
    PROVE  ReadAt(s, i, "text")
<1>1. /\ s[i] = "'" /\ s[i + 1] = "?" /\ s[i + 2] = "\\" /\ s[i + 3] = "'"
      /\ s[i + 4] = "'" /\ i + 4 <= Len(s)
    BY WrittenText
<1>2. PICK f : f = StringSoFar(s, i + 1)
    OBVIOUS
<1>3. f[0] = Open(<<>>, i + 1) /\ StringSteps(s, f) /\ StringRead(s, i + 1) = f[Len(s)]
    BY <1>2, StringReadSteps DEF StringSteps
<1>4. PICK b, c, d, e : b = i + 1 /\ c = i + 2 /\ d = i + 4 /\ e = i + 5
    OBVIOUS
<1>5. b + 1 = c /\ c + 1 = i + 3 /\ c + 2 = d /\ d + 1 = e
    BY <1>4
<1>6. StringAt(s, b, "?") /\ StringAt(s, c, "\\") /\ StringAt(s, c + 1, "'") /\ StringAt(s, d, "'")
    <2>1. /\ b \in Nat /\ b <= Len(s) /\ c \in Nat /\ c <= Len(s)
          /\ c + 1 \in Nat /\ c + 1 <= Len(s) /\ d \in Nat /\ d <= Len(s)
        BY <1>1, <1>4
    <2>2. s[b] = "?" /\ s[c] = "\\" /\ s[c + 1] = "'" /\ s[d] = "'"
        BY <1>1, <1>4, <1>5, Zenon
    <2>3. QED
        BY <2>1, <2>2 DEF StringAt
<1>7. 3 <= Len(s)
    BY <1>1
<1>8. f[1] = StringStep(s, 1, f[0]) /\ f[2] = StringStep(s, 2, f[1]) /\ f[3] = StringStep(s, 3, f[2])
    <2>1. 0 + 1 = 1 /\ 1 + 1 = 2 /\ 2 + 1 = 3 /\ 0 \in Nat /\ 1 \in Nat /\ 2 \in Nat
          /\ 1 <= Len(s) /\ 2 <= Len(s)
        BY <1>7
    <2>2. QED
        BY <1>3, <1>7, <2>1 DEF StringSteps
<1>9. PICK v, w : v = <<"?">> /\ w = <<"?", "'">>
    OBVIOUS
<1>10. Adds(s, b, <<>>, v) /\ Escapes(s, c, v, w)
    BY <1>6, <1>9, AppendedText, Zenon DEF Adds, Escapes
<1>11. f[1] = Open(v, c)
    <2>1. StringStep(s, 1, Open(<<>>, b)) = Open(v, b + 1)
        BY <1>10, CharacterRead
    <2>2. QED
        BY <1>3, <1>4, <1>5, <1>8, <2>1, Zenon
<1>12. f[2] = Open(w, d)
    <2>1. StringStep(s, 2, Open(v, c)) = Open(w, c + 2)
        BY <1>10, EscapeRead
    <2>2. QED
        BY <1>5, <1>8, <1>11, <2>1, Zenon
<1>13. f[3] = Partly(w, e, FALSE)
    <2>1. StringStep(s, 3, Open(w, d)) = Partly(w, d + 1, FALSE)
        BY <1>6, QuotationEnds
    <2>2. QED
        BY <1>5, <1>8, <1>12, <2>1, Zenon
<1>14. f[Len(s)] = Partly(w, e, FALSE)
    <2>1. PICK m : m = 3
        OBVIOUS
    <2>2. m \in Nat /\ m <= Len(s) /\ f[m] = Partly(w, e, FALSE)
        BY <1>7, <1>13, <2>1
    <2>3. QED
        BY <1>3, <2>2, ClosedStays
<1>15. NextToken(s, i) = TokenRead(IF StringRead(s, i + 1).value = <<"?", "'">>
                                   THEN "text" ELSE "another", StringRead(s, i + 1).next)
    <2>1. ~StartsNumber(s, i) /\ s[i] \notin Identifiers
        BY <1>1 DEF StartsNumber, Digits, Identifiers
    <2>2. QED
        BY <1>1, <2>1, Zenon DEF NextToken
<1>16. StringRead(s, i + 1).value = <<"?", "'">> /\ StringRead(s, i + 1).next = i + 5
    <2>1. Partly(w, e, FALSE).value = w /\ Partly(w, e, FALSE).next = e
        BY DEF Partly
    <2>2. QED
        BY <1>3, <1>4, <1>9, <1>14, <2>1, Zenon
<1>17. QED
    BY <1>15, <1>16, SpellingLong, Zenon DEF ReadAt

\* Every token is read where it is written, when nothing follows that would make
\* something else of it.
LEMMA AnyToken ==
    ASSUME NEW S, NEW s \in Seq(S), NEW i \in Nat \ {0}, NEW u \in TokenNames,
           WrittenAt(s, i, Spelling(u)), Clear(s, i + Len(Spelling(u)), u)
    PROVE  ReadAt(s, i, u)
<1>1. Len(s) \in Nat
    BY LenProperties
<1>2. CASE u \in Identifiers
    BY <1>1, <1>2, NameTokens, SpellingLong
<1>3. CASE u \in One
    BY <1>1, <1>3, OneTokens, SpellingLong
<1>4. CASE u \in Two
    BY <1>1, <1>4, TwoTokens, SpellingLong
<1>5. CASE u \in Three
    BY <1>1, <1>5, ThreeTokens
<1>6. CASE u = ".5"
    BY <1>6, NumberToken, SpellingLong
<1>7. CASE u = "text"
    BY <1>1, <1>7, StringToken
<1>8. QED
    BY <1>2, <1>3, <1>4, <1>5, <1>6, <1>7 DEF TokenNames, Literals

-----------------------------------------------------------------------------
(***************************************************************************)
(* Tokens that can stand next to each other                                *)
(***************************************************************************)
Infixes == {"??", "||", "&&", "==", "!=", "===", "!==", ">", ">=", "<", "<=",
            "+", "-", "*", "/", "%"}
\* The tokens that end an expression, those that can follow one, and those an
\* expression can follow
Enders == Identifiers \cup Literals \cup {")", "]"}
Followers == Infixes \cup {"?", ":", ",", ".", "[", "(", ")", "]"}
Openers == Unaries \cup Infixes \cup {"?", ":", ",", "[", "("}

\* v can stand right behind u: neither is read as something else.
Safe(u, v) ==
    \/ u \in Enders /\ v \in Followers /\ ~(u = ".5" /\ v = ".")
    \/ u \in Openers /\ v \in Starters
    \/ u = "." /\ v \in Identifiers
    \/ u = "(" /\ v = ")"

\* Safe relates tokens.
LEMMA SafeAreTokens == \A u, v : Safe(u, v) => u \in TokenNames /\ v \in TokenNames
<1>1. Starters \subseteq TokenNames /\ Identifiers \subseteq TokenNames
    BY DEF TokenNames, Starters, Unaries, One
<1>2. Infixes \subseteq TokenNames
    BY DEF Infixes, TokenNames, Three, Two, One
<1>3. Enders \subseteq TokenNames
    BY DEF Enders, TokenNames, One
<1>4. Followers \subseteq TokenNames
    BY <1>2 DEF Followers, TokenNames, One
<1>5. Openers \subseteq TokenNames
    BY <1>2 DEF Openers, Unaries, TokenNames, One
<1>6. {".", "(", ")"} \subseteq TokenNames
    BY DEF TokenNames, One
<1>7. QED
    BY <1>1, <1>3, <1>4, <1>5, <1>6 DEF Safe

\* The first character of a token
Begins(u) == Spelling(u)[1]

\* The first character of every token
LEMMA BeginsWith ==
    /\ Begins("text") = "'" /\ Begins(".5") = "." /\ Begins("===") = "=" /\ Begins("!==") = "!"
    /\ Begins("&&") = "&" /\ Begins("||") = "|" /\ Begins("??") = "?" /\ Begins("==") = "="
    /\ Begins("!=") = "!" /\ Begins(">=") = ">" /\ Begins("<=") = "<"
    /\ \A u \in One \cup Identifiers : Begins(u) = u
BY SpellingIs DEF Begins

\* What no safe follower begins with
LEMMA StartersBegin == \A v \in Starters : Begins(v) \notin {"=", "?", "5"}
BY BeginsWith DEF Starters, Unaries, Identifiers, Literals, One
\* And no follower, as far as it matters
LEMMA FollowersBegin == \A v \in Followers : Begins(v) \notin {"a", "b", "5"} /\ (v # "." => Begins(v) # ".")
<1>1. \A v \in One : Begins(v) = v
    BY BeginsWith
<1>2. \A v \in One : v \notin {"a", "b", "5"}
    BY DEF One
<1>3. \A v \in {"??", "||", "&&", "==", "!=", "===", "!==", ">=", "<="} :
         Begins(v) \in {"?", "|", "&", "=", "!", ">", "<"}
    BY BeginsWith
<1>4. \A v \in Followers :
         v \in One \/ v \in {"??", "||", "&&", "==", "!=", "===", "!==", ">=", "<="}
    BY DEF Followers, Infixes, One
<1>5. QED
    BY <1>1, <1>2, <1>3, <1>4

\* A safe follower does not make something else of a token.
LEMMA SafeClear ==
    ASSUME NEW u, NEW v, Safe(u, v)
    PROVE  Begins(v) \notin Blocks(u)
<1>1. CASE u \in Enders /\ v \in Followers /\ ~(u = ".5" /\ v = ".")
    <2>1. CASE u \in Identifiers
        <3>1. u \notin {".5", "==", "!=", ">", "<", "!", "?", "."}
            BY <2>1 DEF Identifiers
        <3>2. Blocks(u) = {"a", "b", "5"}
            BY <2>1, <3>1, Zenon DEF Blocks
        <3>3. QED
            BY <1>1, <3>2, FollowersBegin
    <2>2. CASE u = ".5"
        <3>1. Blocks(u) = {"5", "."}
            BY <2>2 DEF Blocks, Identifiers
        <3>2. QED
            BY <1>1, <2>2, <3>1, FollowersBegin
    <2>3. CASE u \in {"text", ")", "]"}
        <3>1. Blocks(u) = {}
            BY <2>3 DEF Blocks, Identifiers
        <3>2. QED
            BY <3>1
    <2>4. QED
        BY <1>1, <2>1, <2>2, <2>3 DEF Enders, Literals
<1>2. CASE u \in Openers /\ v \in Starters
    <2>1. CASE u \in {"==", "!=", ">", "<", "!"}
        <3>1. Blocks(u) = {"="}
            BY <2>1 DEF Blocks, Identifiers
        <3>2. QED
            BY <1>2, <3>1, StartersBegin
    <2>2. CASE u = "?"
        <3>1. Blocks(u) = {"?"}
            BY <2>2 DEF Blocks, Identifiers
        <3>2. QED
            BY <1>2, <3>1, StartersBegin
    <2>3. CASE u \notin {"==", "!=", ">", "<", "!", "?"}
        <3>0. u \notin Identifiers \cup {".5", "==", "!=", ">", "<", "!", "?", "."}
            BY <1>2, <2>3 DEF Openers, Infixes, Unaries, Identifiers
        <3>1. Blocks(u) = {}
            BY <3>0 DEF Blocks
        <3>2. QED
            BY <3>1
    <2>4. QED
        BY <2>1, <2>2, <2>3
<1>3. CASE u = "." /\ v \in Identifiers
    <2>1. Blocks(u) = {"5"}
        BY <1>3 DEF Blocks, Identifiers
    <2>2. Begins(v) = v
        BY <1>3, BeginsWith
    <2>3. QED
        BY <1>3, <2>1, <2>2 DEF Identifiers
<1>4. CASE u = "(" /\ v = ")"
    <2>1. Blocks(u) = {}
        BY <1>4 DEF Blocks, Identifiers
    <2>2. QED
        BY <2>1
<1>5. QED
    BY <1>1, <1>2, <1>3, <1>4 DEF Safe

\* Tokens each of which is safe before the next one, from a first to a last
Chain(w, first, last) ==
    /\ w \in Seq(TokenNames) /\ w # <<>>
    /\ w[1] = first /\ w[Len(w)] = last
    /\ \A k \in 1..Len(w) - 1 : Safe(w[k], w[k + 1])

\* One token is a chain.
LEMMA ChainOne ==
    ASSUME NEW x \in TokenNames
    PROVE  Chain(<<x>>, x, x)
<1>1. <<x>> \in Seq(TokenNames) /\ <<x>> # <<>> /\ Len(<<x>>) = 1 /\ <<x>>[1] = x
    OBVIOUS
<1>2. 1..Len(<<x>>) - 1 = {}
    BY <1>1
<1>3. <<x>>[Len(<<x>>)] = x
    BY <1>1
<1>4. QED
    BY <1>1, <1>2, <1>3 DEF Chain

\* Two chains are one when the last token of the first is safe before the first
\* of the second.
LEMMA ChainJoins ==
    ASSUME NEW u, NEW v, NEW a, NEW b, NEW c, NEW d, Chain(u, a, b), Chain(v, c, d), Safe(b, c)
    PROVE  Chain(u \o v, a, d)
<1>1. /\ u \in Seq(TokenNames) /\ u # <<>> /\ v \in Seq(TokenNames) /\ v # <<>>
      /\ u[1] = a /\ u[Len(u)] = b /\ v[1] = c /\ v[Len(v)] = d
    BY DEF Chain
<1>2. PICK w, p, q : w = u \o v /\ p = Len(u) /\ q = Len(v)
    OBVIOUS
<1>3. /\ w \in Seq(TokenNames) /\ Len(w) = p + q /\ p \in Nat /\ q \in Nat /\ p >= 1 /\ q >= 1
      /\ \A k \in 1..(p + q) : w[k] = IF k <= p THEN u[k] ELSE v[k - p]
    BY <1>1, <1>2, ConcatProperties, LenProperties, EmptySeq
<1>4. w # <<>> /\ w[1] = a /\ w[p + q] = d
    <2>1. 1 \in 1..(p + q) /\ 1 <= p /\ p + q \in 1..(p + q) /\ ~(p + q <= p) /\ (p + q) - p = q
        BY <1>3
    <2>2. w # <<>>
        BY <1>3
    <2>3. w[1] = u[1]
        BY <1>3, <2>1
    <2>4. w[p + q] = v[(p + q) - p]
        BY <1>3, <2>1
    <2>5. QED
        BY <1>1, <1>2, <2>1, <2>2, <2>3, <2>4, Zenon
<1>5. ASSUME NEW k \in 1..(p + q) - 1
      PROVE  Safe(w[k], w[k + 1])
    <2>1. k \in 1..(p + q) /\ k + 1 \in 1..(p + q)
        BY <1>3
    <2>2. CASE k < p
        <3>1. w[k] = u[k] /\ w[k + 1] = u[k + 1] /\ k \in 1..p - 1
            BY <1>3, <2>1, <2>2
        <3>2. Safe(u[k], u[k + 1])
            BY <1>2, <3>1 DEF Chain
        <3>3. QED
            BY <3>1, <3>2, Zenon
    <2>3. CASE k = p
        <3>1. w[k] = u[p] /\ w[k + 1] = v[(k + 1) - p] /\ (k + 1) - p = 1
            BY <1>3, <2>1, <2>3
        <3>2. QED
            BY <1>1, <1>2, <3>1, Zenon
    <2>4. CASE k > p
        <3>1. PICK h : h = k - p
            OBVIOUS
        <3>2. w[k] = v[h] /\ w[k + 1] = v[(k + 1) - p] /\ (k + 1) - p = h + 1 /\ h \in 1..q - 1
            BY <1>3, <2>1, <2>4, <3>1
        <3>3. Safe(v[h], v[h + 1])
            BY <1>2, <3>2 DEF Chain
        <3>4. QED
            BY <3>2, <3>3, Zenon
    <2>5. QED
        BY <1>3, <2>2, <2>3, <2>4
<1>6. \A k \in 1..Len(w) - 1 : Safe(w[k], w[k + 1])
    BY <1>3, <1>5
<1>7. Chain(w, a, d)
    <2>1. w[Len(w)] = d
        BY <1>3, <1>4
    <2>2. QED
        BY <1>3, <1>4, <1>6, <2>1 DEF Chain
<1>8. QED
    BY <1>2, <1>7

-----------------------------------------------------------------------------
(***************************************************************************)
(* The characters of a text                                                *)
(***************************************************************************)
TextOf(w) == FoldLeft(LAMBDA text, token : text \o Spelling(token), <<>>, w)

\* One step of it
SpellStep(w, m, before) == before \o Spelling(w[m])
Spells == INSTANCE Recursion WITH Step <- SpellStep

\* f has the characters of the first tokens of w, for every number of them.
Spelled(w, f) ==
    /\ w \in Seq(TokenNames)
    /\ f[0] = <<>>
    /\ \A m \in Nat : m + 1 <= Len(w) => f[m + 1] = f[m] \o Spelling(w[m + 1])

\* A text is spelled token by token.
LEMMA SpelledExists ==
    ASSUME NEW w \in Seq(TokenNames)
    PROVE  \E f : Spelled(w, f) /\ TextOf(w) = f[Len(w)]
<1>1. PICK n : n = Len(w)
    OBVIOUS
<1>2. n \in Nat /\ DOMAIN w = 1..n
    BY <1>1
<1>3. TextOf(w) = Spells!Folded(w, <<>>, n, n)
    <2>1. TextOf(w)
            = (CHOOSE g : g = [s \in SUBSET DOMAIN w |->
                  IF s = {} THEN <<>>
                  ELSE g[s \ {Max(s)}] \o Spelling(w[Max(s)])])[DOMAIN w]
        BY Zenon DEF TextOf, FoldLeft, MapThenFoldSet, Max
    <2>2. Spells!Folded(w, <<>>, n, n)
            = (CHOOSE g : g = [s \in SUBSET (1..n) |->
                  IF s = {} THEN <<>>
                  ELSE g[s \ {Max(s)}] \o Spelling(w[Max(s)])])[1..n]
        BY Zenon DEF Spells!Folded, Spells!Folds, Spells!Max, Max, SpellStep
    <2>3. QED
        BY <1>2, <2>1, <2>2, Zenon
<1>4. /\ Spells!Folded(w, <<>>, n, 0) = <<>>
      /\ \A m \in Nat : m + 1 <= n =>
            Spells!Folded(w, <<>>, n, m + 1) = SpellStep(w, m + 1, Spells!Folded(w, <<>>, n, m))
    BY <1>2, Spells!FoldSteps, ZenonT(60)
<1>5. PICK f : f = [m \in Nat |-> Spells!Folded(w, <<>>, n, m)]
    OBVIOUS
<1>6. \A m \in Nat : f[m] = Spells!Folded(w, <<>>, n, m) /\ m + 1 \in Nat
    BY <1>5
<1>7. f[0] = <<>> /\ TextOf(w) = f[n]
    BY <1>2, <1>3, <1>4, <1>6
<1>8. \A m \in Nat : m + 1 <= n => f[m + 1] = f[m] \o Spelling(w[m + 1])
    BY <1>4, <1>6, Zenon DEF SpellStep
<1>9. QED
    BY <1>1, <1>7, <1>8, Zenon DEF Spelled

\* Tuples are sequences.
LEMMA TwoInSeq == ASSUME NEW T, NEW x \in T, NEW y \in T PROVE <<x, y>> \in Seq(T)
OBVIOUS
\* So are tuples of three,
LEMMA ThreeInSeq ==
    ASSUME NEW T, NEW x \in T, NEW y \in T, NEW z \in T PROVE <<x, y, z>> \in Seq(T)
OBVIOUS
\* and of five.
LEMMA FiveInSeq ==
    ASSUME NEW T, NEW x \in T, NEW y \in T, NEW z \in T, NEW p \in T, NEW q \in T
    PROVE  <<x, y, z, p, q>> \in Seq(T)
OBVIOUS

\* The characters that occur
Characters ==
    {"a", "b", "5", ".", "'", "?", "\\", "=", "!", "&", "|", ">", "<", "+", "-", "*", "/", "%",
     "(", ")", ",", "[", "]", ":"}

\* Tokens are characters, at least one.
LEMMA SpellingTyped == \A u \in TokenNames : Spelling(u) \in Seq(Characters) /\ Len(Spelling(u)) >= 1
<1>1. ASSUME NEW u \in One \cup Identifiers
      PROVE  Spelling(u) \in Seq(Characters)
    <2>1. u \in Characters
        BY DEF One, Identifiers, Characters
    <2>2. Spelling(u) = <<u>>
        BY SpellingIs
    <2>3. \A x \in Characters : <<x>> \in Seq(Characters)
        OBVIOUS
    <2>4. QED
        BY <2>1, <2>2, <2>3
<1>2. ASSUME NEW u \in Three \cup Two \cup Literals
      PROVE  Spelling(u) \in Seq(Characters)
    <2>1. "=" \in Characters /\ "!" \in Characters /\ "&" \in Characters /\ "|" \in Characters
          /\ "?" \in Characters /\ ">" \in Characters /\ "<" \in Characters /\ "." \in Characters
          /\ "5" \in Characters /\ "'" \in Characters /\ "\\" \in Characters
        BY DEF Characters
    <2>2. Spelling("===") \in Seq(Characters)
        <3>1. <<"=", "=", "=">> \in Seq(Characters)
            BY <2>1, ThreeInSeq
        <3>2. QED
            BY <3>1, SpellingIs
    <2>3. Spelling("!==") \in Seq(Characters)
        <3>1. <<"!", "=", "=">> \in Seq(Characters)
            BY <2>1, ThreeInSeq
        <3>2. QED
            BY <3>1, SpellingIs
    <2>4. Spelling("&&") \in Seq(Characters)
        <3>1. <<"&", "&">> \in Seq(Characters)
            BY <2>1, TwoInSeq
        <3>2. QED
            BY <3>1, SpellingIs
    <2>5. Spelling("||") \in Seq(Characters)
        <3>1. <<"|", "|">> \in Seq(Characters)
            BY <2>1, TwoInSeq
        <3>2. QED
            BY <3>1, SpellingIs
    <2>6. Spelling("??") \in Seq(Characters)
        <3>1. <<"?", "?">> \in Seq(Characters)
            BY <2>1, TwoInSeq
        <3>2. QED
            BY <3>1, SpellingIs
    <2>7. Spelling("==") \in Seq(Characters)
        <3>1. <<"=", "=">> \in Seq(Characters)
            BY <2>1, TwoInSeq
        <3>2. QED
            BY <3>1, SpellingIs
    <2>8. Spelling("!=") \in Seq(Characters)
        <3>1. <<"!", "=">> \in Seq(Characters)
            BY <2>1, TwoInSeq
        <3>2. QED
            BY <3>1, SpellingIs
    <2>9. Spelling(">=") \in Seq(Characters)
        <3>1. <<">", "=">> \in Seq(Characters)
            BY <2>1, TwoInSeq
        <3>2. QED
            BY <3>1, SpellingIs
    <2>10. Spelling("<=") \in Seq(Characters)
        <3>1. <<"<", "=">> \in Seq(Characters)
            BY <2>1, TwoInSeq
        <3>2. QED
            BY <3>1, SpellingIs
    <2>11. Spelling(".5") \in Seq(Characters)
        <3>1. <<".", "5">> \in Seq(Characters)
            BY <2>1, TwoInSeq
        <3>2. QED
            BY <3>1, SpellingIs
    <2>12. Spelling("text") \in Seq(Characters)
        <3>1. <<"'", "?", "\\", "'", "'">> \in Seq(Characters)
            BY <2>1, FiveInSeq
        <3>2. QED
            BY <3>1, SpellingIs
    <2>13. QED
        BY <2>2, <2>3, <2>4, <2>5, <2>6, <2>7, <2>8, <2>9, <2>10, <2>11, <2>12, Zenon
        DEF Three, Two, Literals
<1>3. ASSUME NEW u \in TokenNames
      PROVE  Len(Spelling(u)) >= 1
    <2>1. u \in Three \/ u \in Two \cup {".5"} \/ u \in One \cup Identifiers \/ u = "text"
        BY DEF TokenNames, Literals
    <2>2. Len(Spelling(u)) = 3 \/ Len(Spelling(u)) = 2 \/ Len(Spelling(u)) = 1 \/ Len(Spelling(u)) = 5
        BY <2>1, SpellingLong, Zenon
    <2>3. QED
        BY <2>2
<1>4. QED
    BY <1>1, <1>2, <1>3 DEF TokenNames

\* What one more token adds
Added(w, f, m) ==
    /\ f[m + 1] \in Seq(Characters) /\ Len(f[m]) \in Nat /\ Len(Spelling(w[m + 1])) \in Nat
    /\ Len(Spelling(w[m + 1])) >= 1
    /\ Len(f[m + 1]) = Len(f[m]) + Len(Spelling(w[m + 1]))
    /\ \A k \in 1..Len(f[m + 1]) :
          f[m + 1][k] = IF k <= Len(f[m]) THEN f[m][k] ELSE Spelling(w[m + 1])[k - Len(f[m])]

\* One more token
LEMMA SpelledNext ==
    ASSUME NEW w, NEW f, Spelled(w, f), NEW m \in Nat, m + 1 <= Len(w), f[m] \in Seq(Characters)
    PROVE  Added(w, f, m)
<1>1. w[m + 1] \in TokenNames
    <2>1. m + 1 \in 1..Len(w) /\ w \in Seq(TokenNames)
        BY DEF Spelled
    <2>2. QED
        BY <2>1
<1>2. PICK v : v = Spelling(w[m + 1])
    OBVIOUS
<1>3. v \in Seq(Characters) /\ Len(v) >= 1 /\ Len(v) \in Nat /\ Len(f[m]) \in Nat
    BY <1>1, <1>2, SpellingTyped, LenProperties
<1>4. f[m + 1] = f[m] \o v
    BY <1>2 DEF Spelled
<1>5. PICK g, h : g = f[m] /\ h = f[m + 1]
    OBVIOUS
<1>6. /\ h \in Seq(Characters) /\ Len(h) = Len(g) + Len(v)
      /\ \A k \in 1..Len(g) + Len(v) : h[k] = IF k <= Len(g) THEN g[k] ELSE v[k - Len(g)]
    BY <1>3, <1>4, <1>5, ConcatProperties
<1>7. QED
    BY <1>2, <1>3, <1>5, <1>6 DEF Added

\* Every token makes the text longer.
LEMMA SpelledLong ==
    ASSUME NEW w, NEW f, Spelled(w, f), NEW m \in Nat, m <= Len(w)
    PROVE  f[m] \in Seq(Characters) /\ Len(f[m]) \in Nat /\ Len(f[m]) >= m
<1>0. Len(w) \in Nat
    BY LenProperties DEF Spelled
<1> DEFINE S == {q \in Nat : f[q] \in Seq(Characters) /\ Len(f[q]) \in Nat /\ Len(f[q]) >= q}
<1>1. 0 \in S
    <2>1. f[0] = <<>>
        BY DEF Spelled
    <2>2. PICK z : z = f[0]
        OBVIOUS
    <2>3. z \in Seq(Characters) /\ Len(z) = 0
        BY <2>1, <2>2, EmptySeq
    <2>4. z \in Seq(Characters) /\ Len(z) \in Nat /\ Len(z) >= 0
        BY <2>3
    <2>5. QED
        BY <2>2, <2>4
<1>2. ASSUME NEW q \in Nat, q + 1 <= m, q \in S
      PROVE  q + 1 \in S
    <2>1. q + 1 <= Len(w)
        BY <1>0, <1>2
    <2>2. Added(w, f, q)
        BY <1>2, <2>1, SpelledNext
    <2>3. PICK g, h, v : g = f[q] /\ h = f[q + 1] /\ v = Spelling(w[q + 1])
        OBVIOUS
    <2>4. h \in Seq(Characters) /\ Len(g) \in Nat /\ Len(v) \in Nat /\ Len(v) >= 1
          /\ Len(h) = Len(g) + Len(v)
        BY <2>2, <2>3, Zenon DEF Added
    <2>5. Len(g) >= q
        BY <1>2, <2>3
    <2>6. Len(h) \in Nat /\ Len(h) >= q + 1
        BY <2>4, <2>5
    <2>7. q + 1 \in Nat
        OBVIOUS
    <2>8. QED
        BY <2>3, <2>4, <2>6, <2>7, Zenon
<1>3. m \in S
    <2> HIDE DEF S
    <2> QED
        BY <1>1, <1>2, Spells!InductionTo
<1>4. QED
    BY <1>3

\* What was written stays as more is written.
LEMMA SpelledOn ==
    ASSUME NEW w, NEW f, Spelled(w, f), NEW a \in Nat, NEW b \in Nat, a <= b, b <= Len(w)
    PROVE  Len(f[a]) <= Len(f[b]) /\ \A k \in 1..Len(f[a]) : f[b][k] = f[a][k]
<1>0. Len(w) \in Nat
    BY LenProperties DEF Spelled
<1>1. Len(f[a]) \in Nat
    BY <1>0, SpelledLong
<1> DEFINE S == {q \in Nat : a + q <= b => (Len(f[a]) <= Len(f[a + q])
                                           /\ \A k \in 1..Len(f[a]) : f[a + q][k] = f[a][k])}
<1>2. 0 \in S
    <2>1. a + 0 = a
        OBVIOUS
    <2>2. QED
        BY <1>1, <2>1
<1>3. ASSUME NEW q \in Nat, q \in S
      PROVE  q + 1 \in S
    <2> SUFFICES ASSUME a + (q + 1) <= b
                 PROVE  Len(f[a]) <= Len(f[a + (q + 1)])
                        /\ \A k \in 1..Len(f[a]) : f[a + (q + 1)][k] = f[a][k]
        OBVIOUS
    <2>1. PICK m : m = a + q
        OBVIOUS
    <2>2. m \in Nat /\ m + 1 = a + (q + 1) /\ m <= b /\ m <= Len(w) /\ m + 1 <= Len(w)
        BY <1>0, <2>1
    <2>3. Len(f[a]) <= Len(f[m]) /\ \A k \in 1..Len(f[a]) : f[m][k] = f[a][k]
        BY <1>3, <2>1, <2>2
    <2>4. f[m] \in Seq(Characters)
        BY <2>2, SpelledLong
    <2>10. Added(w, f, m)
        BY <2>2, <2>4, SpelledNext
    <2>11. PICK g, h, v : g = f[m] /\ h = f[m + 1] /\ v = Spelling(w[m + 1])
        OBVIOUS
    <2>5. /\ Len(g) \in Nat /\ Len(v) \in Nat /\ Len(h) = Len(g) + Len(v)
          /\ \A k \in 1..Len(h) : h[k] = IF k <= Len(g) THEN g[k] ELSE v[k - Len(g)]
        BY <2>10, <2>11, Zenon DEF Added
    <2>12. Len(f[a]) <= Len(g) /\ Len(g) \in Nat /\ Len(v) \in Nat /\ Len(h) = Len(g) + Len(v)
        BY <2>3, <2>5, <2>11, Zenon
    <2>6. \A k \in 1..Len(f[a]) : k \in 1..Len(h) /\ k <= Len(g)
        BY <1>1, <2>12
    <2>7. Len(f[a]) <= Len(h)
        BY <1>1, <2>12
    <2>8. \A k \in 1..Len(f[a]) : h[k] = f[a][k]
        BY <2>3, <2>5, <2>6, <2>11
    <2>9. QED
        BY <2>2, <2>7, <2>8, <2>11
<1>4. Nat \subseteq S
    <2> HIDE DEF S
    <2> QED
        BY <1>2, <1>3, Spells!SetInduction
<1>5. PICK q : q = b - a
    OBVIOUS
<1>6. q \in Nat /\ a + q = b /\ a + q <= b
    BY <1>5
<1>7. q \in S
    BY <1>4, <1>6
<1>8. QED
    BY <1>6, <1>7

\* Token m + 1 stands in the text where those before it end.
Stands(w, f, m) ==
    /\ WrittenAt(f[Len(w)], Len(f[m]) + 1, Spelling(w[m + 1]))
    /\ Len(f[m]) + 1 + Len(Spelling(w[m + 1])) = Len(f[m + 1]) + 1
    /\ Len(f[m]) \in Nat /\ Len(f[m + 1]) \in Nat
    /\ Len(f[m]) < Len(f[m + 1]) /\ Len(f[m + 1]) <= Len(f[Len(w)])

\* Every token is written in the text where those before it end.
LEMMA TokenWritten ==
    ASSUME NEW w, NEW f, Spelled(w, f), NEW m \in Nat, m + 1 <= Len(w)
    PROVE  Stands(w, f, m)
<1>0. Len(w) \in Nat /\ m <= Len(w)
    BY LenProperties DEF Spelled
<1>1. f[m] \in Seq(Characters)
    BY <1>0, SpelledLong
<1>2. PICK v, n, p, s : v = Spelling(w[m + 1]) /\ n = Len(w) /\ p = Len(f[m]) /\ s = f[n]
    OBVIOUS
<1>9. Added(w, f, m)
    BY <1>1, SpelledNext
<1>3. /\ p \in Nat /\ Len(v) \in Nat /\ Len(v) >= 1 /\ Len(f[m + 1]) = p + Len(v)
      /\ \A k \in 1..Len(f[m + 1]) : f[m + 1][k] = IF k <= p THEN f[m][k] ELSE v[k - p]
    BY <1>2, <1>9, Zenon DEF Added
<1>4. Len(f[m + 1]) <= Len(s) /\ \A k \in 1..Len(f[m + 1]) : s[k] = f[m + 1][k]
    <2>1. m + 1 \in Nat /\ n \in Nat /\ m + 1 <= n /\ n <= Len(w)
        BY <1>0, <1>2
    <2>2. QED
        BY <1>2, <2>1, SpelledOn
<1>5. Len(s) \in Nat
    BY <1>0, <1>2, SpelledLong
<1>6. WrittenAt(s, p + 1, v)
    <2>1. (p + 1) + Len(v) <= Len(s) + 1
        BY <1>3, <1>4, <1>5
    <2>2. ASSUME NEW k \in 1..Len(v)
          PROVE  s[(p + 1) + k - 1] = v[k]
        <3>1. PICK h : h = p + k
            OBVIOUS
        <3>2. h = (p + 1) + k - 1 /\ h \in 1..Len(f[m + 1]) /\ ~(h <= p) /\ h - p = k
            BY <1>3, <3>1
        <3>3. s[h] = v[h - p]
            BY <1>3, <1>4, <3>2
        <3>4. QED
            BY <3>2, <3>3
    <2>3. QED
        BY <2>1, <2>2 DEF WrittenAt
<1>7. p + 1 + Len(v) = Len(f[m + 1]) + 1 /\ Len(f[m + 1]) \in Nat /\ p < Len(f[m + 1])
    BY <1>3
<1>8. QED
    BY <1>2, <1>3, <1>4, <1>6, <1>7, Zenon DEF Stands

\* And is read there.
LEMMA TokenReadThere ==
    ASSUME NEW w, NEW f, Spelled(w, f), NEW x, NEW y, Chain(w, x, y), NEW m \in Nat, m + 1 <= Len(w)
    PROVE  ReadAt(f[Len(w)], Len(f[m]) + 1, w[m + 1])
<1>0. Len(w) \in Nat /\ w \in Seq(TokenNames)
    BY LenProperties DEF Spelled
<1>1. PICK s, n, u, p, q : s = f[n] /\ n = Len(w) /\ u = w[m + 1] /\ p = Len(f[m]) /\ q = Len(f[m + 1])
    OBVIOUS
<1>2. WrittenAt(s, p + 1, Spelling(u)) /\ p + 1 + Len(Spelling(u)) = q + 1 /\ p \in Nat /\ q \in Nat
    <2>1. Stands(w, f, m)
        BY TokenWritten
    <2>2. QED
        BY <1>1, <2>1, Zenon DEF Stands
<1>3. u \in TokenNames
    <2>1. m + 1 \in 1..Len(w)
        BY <1>0
    <2>2. QED
        BY <1>0, <1>1, <2>1
<1>4. s \in Seq(Characters)
    BY <1>0, <1>1, SpelledLong
<1>5. Clear(s, q + 1, u)
    <2>1. CASE m + 1 = n
        <3>1. q = Len(s) /\ ~(q + 1 <= Len(s))
            BY <1>1, <1>2, <2>1
        <3>2. QED
            BY <3>1 DEF Clear
    <2>2. CASE m + 1 # n
        <3>1. PICK h, v : h = m + 1 /\ v = w[h + 1]
            OBVIOUS
        <3>2. h \in Nat /\ h + 1 <= Len(w) /\ h \in 1..Len(w) - 1
            BY <1>0, <1>1, <2>2, <3>1
        <3>3. WrittenAt(s, q + 1, Spelling(v))
            <4>1. Stands(w, f, h)
                BY <3>2, TokenWritten
            <4>2. QED
                BY <1>1, <3>1, <4>1, Zenon DEF Stands
        <3>4. Safe(u, v)
            BY <1>1, <3>1, <3>2 DEF Chain
        <3>5. v \in TokenNames
            BY <3>4, SafeAreTokens
        <3>6. s[q + 1] = Spelling(v)[1]
            <4>1. Len(Spelling(v)) >= 1 /\ Len(Spelling(v)) \in Nat
                BY <3>5, SpellingTyped, LenProperties
            <4>2. 1 \in 1..Len(Spelling(v)) /\ (q + 1) + 1 - 1 = q + 1
                BY <1>2, <4>1
            <4>3. QED
                BY <3>3, <4>2 DEF WrittenAt
        <3>7. QED
            BY <3>4, <3>6, SafeClear, Zenon DEF Clear, Begins
    <2>3. QED
        BY <2>1, <2>2
<1>6. p + 1 \in Nat \ {0}
    BY <1>2
<1>7. ReadAt(s, p + 1, u)
    BY <1>2, <1>3, <1>4, <1>5, <1>6, AnyToken
<1>8. QED
    BY <1>1, <1>7

\* One step of Tokenize
TokenStep(s, k, before) ==
    LET r == NextToken(s, before.next)
    IN  IF before.next > Len(s) THEN before
        ELSE [tokens |-> Append(before.tokens, r.token), next |-> r.next]
Lexing == INSTANCE Recursion WITH Step <- TokenStep

TokensBegin == [tokens |-> <<>>, next |-> 1]
TokensRead(s) == Lexing!Iterated(s, TokensBegin, Len(s))

\* tokenize reads one token after the other.
LEMMA TokenizeIs ==
    ASSUME NEW s, Len(s) \in Nat
    PROVE  /\ TokensRead(s)[0] = TokensBegin
           /\ \A k \in Nat : k + 1 <= Len(s) =>
                 TokensRead(s)[k + 1] = TokenStep(s, k + 1, TokensRead(s)[k])
           /\ Tokenize(s) = Append(TokensRead(s)[Len(s)].tokens, "eof")
<1>1. PICK n : n = Len(s)
    OBVIOUS
<1>2. n \in Nat
    BY <1>1
<1>3. /\ Lexing!Iterated(s, TokensBegin, n)[0] = TokensBegin
      /\ \A k \in Nat : k + 1 <= n =>
            Lexing!Iterated(s, TokensBegin, n)[k + 1]
              = TokenStep(s, k + 1, Lexing!Iterated(s, TokensBegin, n)[k])
    BY <1>2, Lexing!IterationSteps
<1>4. Tokenize(s) = Append(TokensRead(s)[Len(s)].tokens, "eof")
    BY Zenon DEF Tokenize, TokensRead, TokensBegin, Lexing!Iterated, Lexing!Iterates, TokenStep
<1>5. QED
    BY <1>1, <1>3, <1>4, Zenon DEF TokensRead

\* The first m tokens of w were read.
HaveRead(r, w, f, m) ==
    /\ r.tokens \in Seq(TokenNames) /\ Len(r.tokens) = m
    /\ \A k \in 1..m : r.tokens[k] = w[k]
    /\ r.next = Len(f[m]) + 1

\* Behind the tokens it has read it reads the next one.
LEMMA ReadOn ==
    ASSUME NEW w, NEW f, Spelled(w, f), NEW x, NEW y, Chain(w, x, y), NEW m \in Nat, m + 1 <= Len(w),
           NEW r, HaveRead(r, w, f, m), NEW k
    PROVE  HaveRead(TokenStep(f[Len(w)], k, r), w, f, m + 1)
<1>1. PICK s, u, p, q : s = f[Len(w)] /\ u = w[m + 1] /\ p = Len(f[m]) + 1 /\ q = Len(f[m + 1]) + 1
    OBVIOUS
<1>2. Stands(w, f, m) /\ ReadAt(s, p, u)
    BY <1>1, TokenWritten, TokenReadThere
<1>3. p + Len(Spelling(u)) = q /\ p \in Nat /\ q \in Nat /\ ~(p > Len(s))
    <2>1. PICK a, b, c, d : a = Len(f[m]) /\ b = Len(f[m + 1]) /\ c = Len(s) /\ d = Len(Spelling(u))
        OBVIOUS
    <2>2. a + 1 + d = b + 1 /\ a \in Nat /\ b \in Nat /\ a < b /\ b <= c
        BY <1>1, <1>2, <2>1, Zenon DEF Stands
    <2>3. c \in Nat
        <3>1. Len(w) \in Nat
            BY LenProperties DEF Spelled
        <3>2. QED
            BY <1>1, <2>1, <3>1, SpelledLong
    <2>4. p = a + 1 /\ q = b + 1
        BY <1>1, <2>1
    <2>5. p + d = q /\ p \in Nat /\ q \in Nat /\ ~(p > c)
        BY <2>2, <2>3, <2>4
    <2>6. QED
        BY <2>1, <2>5
<1>4. NextToken(s, p).token = u /\ NextToken(s, p).next = q
    BY <1>2, <1>3 DEF ReadAt, TokenRead
<1>5. r.next = p /\ r.tokens \in Seq(TokenNames) /\ Len(r.tokens) = m
      /\ \A h \in 1..m : r.tokens[h] = w[h]
    BY <1>1 DEF HaveRead
<1>6. TokenStep(s, k, r) = [tokens |-> Append(r.tokens, u), next |-> q]
    BY <1>3, <1>4, <1>5, Zenon DEF TokenStep
<1>7. u \in TokenNames
    <2>1. m + 1 \in 1..Len(w) /\ w \in Seq(TokenNames)
        BY LenProperties DEF Spelled
    <2>2. QED
        BY <1>1, <2>1
<1>8. PICK g : g = Append(r.tokens, u)
    OBVIOUS
<1>9. /\ g \in Seq(TokenNames) /\ Len(g) = m + 1 /\ g[m + 1] = u
      /\ \A h \in 1..m : g[h] = w[h]
    BY <1>5, <1>7, <1>8, AppendProperties
<1>10. \A h \in 1..(m + 1) : g[h] = w[h]
    BY <1>1, <1>9
<1>11. PICK o : o = [tokens |-> g, next |-> q]
    OBVIOUS
<1>12. o.tokens = g /\ o.next = q
    BY <1>11
<1>13. HaveRead(o, w, f, m + 1)
    BY <1>1, <1>9, <1>10, <1>12, Zenon DEF HaveRead
<1>14. QED
    BY <1>1, <1>6, <1>8, <1>11, <1>13, Zenon

\* When all were read, no more is.
LEMMA ReadAll ==
    ASSUME NEW w, NEW f, Spelled(w, f), NEW r, HaveRead(r, w, f, Len(w)), NEW k
    PROVE  HaveRead(TokenStep(f[Len(w)], k, r), w, f, Len(w))
<1>1. Len(w) \in Nat
    BY LenProperties DEF Spelled
<1>2. Len(f[Len(w)]) \in Nat
    BY <1>1, SpelledLong
<1>3. r.next > Len(f[Len(w)])
    BY <1>2 DEF HaveRead
<1>4. TokenStep(f[Len(w)], k, r) = r
    BY <1>3, Zenon DEF TokenStep
<1>5. QED
    BY <1>4

\* The characters of a chain of tokens are read as these tokens.
LEMMA Tokenized ==
    ASSUME NEW w, NEW x, NEW y, Chain(w, x, y)
    PROVE  Tokenize(TextOf(w)) = Append(w, "eof")
<1>1. w \in Seq(TokenNames)
    BY DEF Chain
<1>2. PICK f : Spelled(w, f) /\ TextOf(w) = f[Len(w)]
    BY <1>1, SpelledExists
<1>3. PICK n, s, l : n = Len(w) /\ s = f[Len(w)] /\ l = Len(s)
    OBVIOUS
<1>4. n \in Nat /\ l \in Nat /\ n <= l
    <2>1. Len(w) \in Nat
        BY <1>1, LenProperties
    <2>2. QED
        BY <1>2, <1>3, <2>1, SpelledLong
<1>5. PICK g : g = TokensRead(s)
    OBVIOUS
<1>6. /\ g[0] = TokensBegin
      /\ \A k \in Nat : k + 1 <= l => g[k + 1] = TokenStep(s, k + 1, g[k])
      /\ Tokenize(s) = Append(g[l].tokens, "eof")
    BY <1>3, <1>4, <1>5, TokenizeIs
<1>7. HaveRead(g[0], w, f, 0)
    <2>1. f[0] = <<>>
        BY <1>2 DEF Spelled
    <2>2. PICK z : z = <<>>
        OBVIOUS
    <2>3. z \in Seq(TokenNames) /\ Len(z) = 0 /\ 1 = Len(z) + 1
        BY <2>2, EmptySeq
    <2>4. TokensBegin.tokens = z /\ TokensBegin.next = 1
        BY <2>2 DEF TokensBegin
    <2>5. \A k \in 1..0 : z[k] = w[k]
        OBVIOUS
    <2>6. QED
        BY <1>6, <2>1, <2>2, <2>3, <2>4, <2>5, Zenon DEF HaveRead
<1>8. HaveRead(g[n], w, f, n)
    <2> DEFINE S == {m \in Nat : HaveRead(g[m], w, f, m)}
    <2>1. 0 \in S
        BY <1>7
    <2>2. ASSUME NEW m \in Nat, m + 1 <= n, m \in S
          PROVE  m + 1 \in S
        <3>1. m + 1 <= l /\ m + 1 <= Len(w) /\ m + 1 \in Nat
            BY <1>3, <1>4, <2>2
        <3>2. g[m + 1] = TokenStep(s, m + 1, g[m])
            BY <1>6, <3>1
        <3>3. HaveRead(g[m], w, f, m)
            BY <2>2
        <3>4. HaveRead(TokenStep(s, m + 1, g[m]), w, f, m + 1)
            BY <1>2, <1>3, <3>1, <3>3, ReadOn
        <3>5. QED
            BY <3>1, <3>2, <3>4
    <2>3. n \in S
        <3> HIDE DEF S
        <3> QED
            BY <1>4, <2>1, <2>2, Lexing!InductionTo
    <2>4. QED
        BY <2>3
<1>9. HaveRead(g[l], w, f, n)
    <2> DEFINE S == {m \in Nat : n + m <= l => HaveRead(g[n + m], w, f, n)}
    <2>1. 0 \in S
        <3>1. n + 0 = n
            BY <1>4
        <3>2. QED
            BY <1>8, <3>1
    <2>2. ASSUME NEW m \in Nat, m \in S
          PROVE  m + 1 \in S
        <3>1. CASE ~(n + (m + 1) <= l)
            BY <3>1
        <3>2. CASE n + (m + 1) <= l
            <4>1. PICK h : h = n + m
                OBVIOUS
            <4>2. h \in Nat /\ h <= l /\ h + 1 = n + (m + 1) /\ h + 1 <= l
                BY <1>4, <3>2, <4>1
            <4>3. HaveRead(g[h], w, f, n)
                BY <2>2, <4>1, <4>2
            <4>4. HaveRead(TokenStep(s, h + 1, g[h]), w, f, n)
                BY <1>2, <1>3, <4>3, ReadAll
            <4>5. g[h + 1] = TokenStep(s, h + 1, g[h])
                BY <1>6, <4>2
            <4>6. QED
                BY <4>2, <4>4, <4>5
        <3>3. QED
            BY <3>1, <3>2
    <2>3. Nat \subseteq S
        <3> HIDE DEF S
        <3> QED
            BY <2>1, <2>2, Lexing!SetInduction
    <2>4. PICK m : m = l - n
        OBVIOUS
    <2>5. m \in Nat /\ n + m = l /\ n + m <= l
        BY <1>4, <2>4
    <2>6. QED
        BY <2>3, <2>5
<1>10. g[l].tokens = w
    <2>1. PICK v : v = g[l].tokens
        OBVIOUS
    <2>2. v \in Seq(TokenNames) /\ Len(v) = n /\ \A k \in 1..n : v[k] = w[k]
        BY <1>9, <2>1 DEF HaveRead
    <2>3. v = w
        BY <1>1, <1>3, <2>2, SeqEqual
    <2>4. QED
        BY <2>1, <2>3
<1>11. QED
    BY <1>2, <1>3, <1>6, <1>10, Zenon

-----------------------------------------------------------------------------
(***************************************************************************)
(* A text that is read as an expression                                    *)
(***************************************************************************)
LEMMA WholeParsed ==
    ASSUME NEW e, NEW t, NEW w, Piece(e, t, w)
    PROVE  ParseExpression(Append(w, "eof")).node = t
<1>1. PICK s, j : s = Append(w, "eof") /\ j = 1 + Len(w)
    OBVIOUS
<1>2. w \in Seq(TokenNames) /\ w # <<>> /\ Len(w) \in Nat /\ Len(w) >= 1
    BY EmptySeq, LenProperties DEF Piece
<1>3. w \in Seq(TokenNames \cup {"eof"}) /\ "eof" \in TokenNames \cup {"eof"}
    BY <1>2
<1>4. /\ s \in Streams /\ Len(s) = Len(w) + 1 /\ s[Len(w) + 1] = "eof"
      /\ \A k \in 1..Len(w) : s[k] = w[k]
    <2>1. PICK S : S = TokenNames \cup {"eof"}
        OBVIOUS
    <2>2. w \in Seq(S) /\ "eof" \in S /\ s = Append(w, "eof")
        BY <1>1, <1>3, <2>1
    <2>3. /\ s \in Seq(S) /\ Len(s) = Len(w) + 1 /\ s[Len(w) + 1] = "eof"
          /\ \A k \in 1..Len(w) : s[k] = w[k]
        BY <2>2, AppendProperties
    <2>4. QED
        BY <2>1, <2>3, Zenon DEF Streams
<1>5. Len(s) = j /\ s[j] = "eof" /\ j \in Nat \ {0} /\ 1 + Len(w) <= Len(s)
    BY <1>1, <1>2, <1>4
<1>6. WrittenAt(s, 1, w)
    <2>1. \A k \in 1..Len(w) : 1 + k - 1 = k
        OBVIOUS
    <2>2. 1 + Len(w) <= Len(s) + 1
        BY <1>2, <1>4
    <2>3. QED
        BY <1>4, <2>1, <2>2 DEF WrittenAt
<1>7. Between(s, 1, j) /\ Known(0, s, 1, t, j)
    <2>1. 0 \in 0..e /\ 1 \in Nat \ {0}
        BY DEF Piece, Methods
    <2>2. PICK i : i = 1
        OBVIOUS
    <2>3. s \in Streams /\ i \in Nat \ {0} /\ WrittenAt(s, i, w) /\ i + Len(w) <= Len(s)
        BY <1>4, <1>5, <1>6, <2>2
    <2>4. Between(s, i, i + Len(w)) /\ \A m \in 0..e : Known(m, s, i, t, i + Len(w))
        BY <2>3, PieceKnown
    <2>5. QED
        BY <1>1, <2>1, <2>2, <2>4, Zenon
<1>8. Gets(s, 0, 1, t, j)
    <2>1. AtCloser(s, j)
        BY <1>5 DEF AtCloser, Closers
    <2>2. Stops(0, s, j)
        BY <2>1, ClosersEnd DEF Stops, AtCloser
    <2>3. QED
        BY <1>7, <2>2 DEF Known
<1>9. Fuel(s) \in Enough(s, 0, 1, j)
    <2>1. Fuel(s) = 10 * Len(s) /\ Fuel(s) \in Nat /\ Len(s) \in Nat
        BY <1>2, <1>4, CallsSteps DEF Fuel
    <2>2. QED
        BY <1>5, <2>1 DEF Enough
<1>10. Parsing(s)[Ternary][1] = Parsed(t, j)
    <2>1. CallsOf(s)[Fuel(s)][0][1] = Parsed(t, j)
        BY <1>8, <1>9 DEF Gets
    <2>2. Parsing(s) = CallsOf(s)[Fuel(s)]
        BY <1>4, CallsSteps
    <2>3. QED
        BY <2>1, <2>2, Zenon DEF Ternary
<1>11. ParseExpression(s) = Parsed(t, j + 1)
    <2>1. Expect(s, "eof", Parsed(t, j)) = Parsed(t, j + 1)
        BY <1>5, ExpectIs
    <2>2. QED
        BY <1>10, <2>1, Zenon DEF ParseExpression
<1>12. Parsed(t, j + 1).node = t
    BY DEF Parsed
<1>13. QED
    BY <1>1, <1>11, <1>12, Zenon

-----------------------------------------------------------------------------
(***************************************************************************)
(* Expressions and how they are written                                    *)
(***************************************************************************)
\* A chain of tokens from one that begins an expression to one that ends it
Sentence(w, last) == \E first \in Starters : Chain(w, first, last) /\ last \in Enders

\* The tokens say the expression, and can stand where it can.
Says(t, w) ==
    /\ Piece(Strength(t), t, w)
    /\ \E last : Sentence(w, last) /\ (Strength(t) = 9 /\ t # Leaf(".5") => last # ".5")

\* They say it where d is demanded.
SaysAt(d, t, w) ==
    /\ \E e : Piece(e, t, w) /\ d <= e
    /\ \E last : Sentence(w, last) /\ (d = 9 /\ t # Leaf(".5") => last # ".5")

\* Parentheses around an operand
InParentheses(w) == <<"(">> \o w \o <<")">>

\* How an operand is written where d is demanded
Operand(d, t, w) == IF Strength(t) < d THEN InParentheses(w) ELSE w

\* Parentheses make a sentence of a sentence.
LEMMA ParenthesesSay ==
    ASSUME NEW w, NEW last, Sentence(w, last)
    PROVE  Sentence(InParentheses(w), ")")
<1>1. PICK first \in Starters : Chain(w, first, last) /\ last \in Enders
    BY DEF Sentence
<1>2. Safe("(", first) /\ Safe(last, ")")
    BY <1>1 DEF Safe, Openers, Followers
<1>3. Chain(<<"(">>, "(", "(") /\ Chain(<<")">>, ")", ")")
    <2>1. "(" \in TokenNames /\ ")" \in TokenNames
        BY PunctuationNamed, Zenon
    <2>2. QED
        BY <2>1, ChainOne
<1>4. Chain(<<"(">> \o w, "(", last)
    BY <1>1, <1>2, <1>3, ChainJoins
<1>5. Chain(<<"(">> \o w \o <<")">>, "(", ")")
    BY <1>2, <1>3, <1>4, ChainJoins
<1>6. "(" \in Starters /\ ")" \in Enders
    BY DEF Starters, Enders
<1>7. QED
    BY <1>5, <1>6, Zenon DEF Sentence, InParentheses

\* In parentheses where it needs them, an expression is said at every place.
LEMMA OperandSays ==
    ASSUME NEW t, NEW w, Says(t, w), NEW d \in 0..9
    PROVE  SaysAt(d, t, Operand(d, t, w))
<1>1. PICK last : Sentence(w, last) /\ (Strength(t) = 9 /\ t # Leaf(".5") => last # ".5")
    BY DEF Says
<1>2. Piece(Strength(t), t, w) /\ Strength(t) \in 0..9
    BY DEF Says, Piece, Methods
<1>3. CASE Strength(t) < d
    <2>1. Operand(d, t, w) = InParentheses(w)
        BY <1>3 DEF Operand
    <2>2. Piece(9, t, InParentheses(w)) /\ d <= 9
        BY <1>2, ParenthesesRead DEF InParentheses
    <2>3. Sentence(InParentheses(w), ")")
        BY <1>1, ParenthesesSay
    <2>4. ")" # ".5"
        OBVIOUS
    <2>5. QED
        BY <2>1, <2>2, <2>3, <2>4, Zenon DEF SaysAt
<1>4. CASE ~(Strength(t) < d)
    <2>1. Operand(d, t, w) = w
        BY <1>4 DEF Operand
    <2>2. d <= Strength(t) /\ (d = 9 => Strength(t) = 9)
        BY <1>2, <1>4
    <2>3. QED
        BY <1>1, <1>2, <2>1, <2>2, Zenon DEF SaysAt
<1>5. QED
    BY <1>3, <1>4

\* A name, a number and a string say themselves.
LEMMA LeafSays ==
    ASSUME NEW x \in Identifiers \cup Literals
    PROVE  Says(Leaf(x), <<x>>)
<1>1. Strength(Leaf(x)) = 9
    <2>1. Leaf(x).op = x /\ Leaf(x).args = <<>>
        BY DEF Leaf, Node
    <2>2. Len(Leaf(x).args) # 1
        BY <2>1
    <2>3. Binds(x) = 9
        BY DEF Binds, Identifiers, Literals
    <2>4. QED
        BY <2>1, <2>2, <2>3, Zenon DEF Strength
<1>2. x \in TokenNames /\ x \in Starters /\ x \in Enders /\ x \notin Unaries
    BY DEF TokenNames, Starters, Enders, Identifiers, Literals, Unaries
<1>3. Piece(9, Leaf(x), <<x>>)
    <2>1. ReadsAs(9, Leaf(x), <<x>>)
        BY LeafReads
    <2>2. <<x>> \in Seq(TokenNames) /\ <<x>> # <<>> /\ <<x>>[1] = x /\ 9 \in Methods
        BY <1>2 DEF Methods
    <2>3. QED
        BY <1>2, <2>1, <2>2, Zenon DEF Piece
<1>4. Sentence(<<x>>, x)
    BY <1>2, ChainOne DEF Sentence
<1>5. Leaf(x) # Leaf(".5") => x # ".5"
    OBVIOUS
<1>6. QED
    BY <1>1, <1>3, <1>4, <1>5, Zenon DEF Says

\* Tokens from one that begins an expression on
Runs(w, last) == \E first \in Starters : Chain(w, first, last)

\* A sentence is a run that an expression ends.
LEMMA SentenceRuns ==
    ASSUME NEW w, NEW last
    PROVE  Sentence(w, last) <=> Runs(w, last) /\ last \in Enders
BY DEF Sentence, Runs

\* A run goes on with a token that is safe,
LEMMA RunToken ==
    ASSUME NEW w, NEW last, Runs(w, last), NEW x, Safe(last, x)
    PROVE  Runs(w \o <<x>>, x)
<1>1. PICK first \in Starters : Chain(w, first, last)
    BY DEF Runs
<1>2. Chain(<<x>>, x, x)
    BY SafeAreTokens, ChainOne
<1>3. Chain(w \o <<x>>, first, x)
    BY <1>1, <1>2, ChainJoins
<1>4. QED
    BY <1>3 DEF Runs

\* and with another run behind an opening token.
LEMMA RunOn ==
    ASSUME NEW w, NEW x \in Openers, Runs(w, x), NEW v, NEW last, Runs(v, last)
    PROVE  Runs(w \o v, last)
<1>1. PICK first \in Starters : Chain(w, first, x)
    BY DEF Runs
<1>2. PICK next \in Starters : Chain(v, next, last)
    BY DEF Runs
<1>3. Safe(x, next)
    BY <1>2 DEF Safe
<1>4. Chain(w \o v, first, last)
    BY <1>1, <1>2, <1>3, ChainJoins
<1>5. QED
    BY <1>4 DEF Runs

\* What can come after an expression
LEMMA EndSafe ==
    ASSUME NEW w, NEW last, Sentence(w, last), NEW x \in Followers, x = "." => last # ".5"
    PROVE  Runs(w \o <<x>>, x)
<1>1. Runs(w, last) /\ last \in Enders
    BY SentenceRuns
<1>2. Safe(last, x)
    BY <1>1 DEF Safe
<1>3. QED
    BY <1>1, <1>2, RunToken

\* An operand behind an opening token and before one that follows expressions
LEMMA SaidAt ==
    ASSUME NEW d, NEW t, NEW w, SaysAt(d, t, w)
    PROVE  /\ \E last : Sentence(w, last)
           /\ \A x \in Followers \ {"."} : Runs(w \o <<x>>, x)
           /\ \A v, x : x \in Openers /\ Runs(v, x) => \E last \in Enders : Runs(v \o w, last)
           /\ d = 9 /\ t # Leaf(".5") => Runs(w \o <<".">>, ".")
<1>1. PICK last : Sentence(w, last) /\ (d = 9 /\ t # Leaf(".5") => last # ".5")
    BY DEF SaysAt
<1>2. ASSUME NEW x \in Followers \ {"."}
      PROVE  Runs(w \o <<x>>, x)
    BY <1>1, <1>2, EndSafe
<1>3. ASSUME NEW v, NEW x, x \in Openers, Runs(v, x)
      PROVE  \E end \in Enders : Runs(v \o w, end)
    BY <1>1, <1>3, SentenceRuns, RunOn
<1>4. ASSUME d = 9, t # Leaf(".5")
      PROVE  Runs(w \o <<".">>, ".")
    <2>1. "." \in Followers
        BY DEF Followers
    <2>2. QED
        BY <1>1, <1>4, <2>1, EndSafe
<1>5. QED
    BY <1>1, <1>2, <1>3, <1>4

\* An expression below parseMember ends with no matter what.
LEMMA LooseSays ==
    ASSUME NEW t, NEW m, Strength(t) = m, m # 9, NEW w, Piece(m, t, w), NEW last \in Enders, Runs(w, last)
    PROVE  Says(t, w)
<1>1. Sentence(w, last)
    BY SentenceRuns
<1>2. QED
    BY <1>1 DEF Says

\* One of parseMember does not end with the number.
LEMMA TightSays ==
    ASSUME NEW t, Strength(t) = 9, NEW w, Piece(9, t, w), NEW last \in Enders \ {".5"}, Runs(w, last)
    PROVE  Says(t, w)
<1>1. Sentence(w, last)
    BY SentenceRuns
<1>2. QED
    BY <1>1 DEF Says

-----------------------------------------------------------------------------
\* Nodes and their operands
LEMMA NodeIs ==
    /\ \A op, args : Node(op, args).op = op /\ Node(op, args).args = args
    /\ \A a, b, c : /\ <<a>> # <<>> /\ Len(<<a>>) = 1 /\ <<a>>[1] = a
                    /\ <<a, b>> # <<>> /\ Len(<<a, b>>) = 2 /\ <<a, b>>[1] = a /\ <<a, b>>[2] = b
                    /\ <<a, b, c>> # <<>> /\ Len(<<a, b, c>>) = 3
                    /\ <<a, b, c>>[1] = a /\ <<a, b, c>>[2] = b /\ <<a, b, c>>[3] = c
<1>1. \A op, args : Node(op, args).op = op /\ Node(op, args).args = args
    BY DEF Node
<1>2. \A a, b, c : /\ <<a>> # <<>> /\ Len(<<a>>) = 1 /\ <<a>>[1] = a
                   /\ <<a, b>> # <<>> /\ Len(<<a, b>>) = 2 /\ <<a, b>>[1] = a /\ <<a, b>>[2] = b
                   /\ <<a, b, c>> # <<>> /\ Len(<<a, b, c>>) = 3
                   /\ <<a, b, c>>[1] = a /\ <<a, b, c>>[2] = b /\ <<a, b, c>>[3] = c
    OBVIOUS
<1>3. QED
    BY <1>1, <1>2

\* How much the operators bind
LEMMA BindsIs ==
    /\ Binds("?") = 0 /\ Binds(".") = 9 /\ Binds("[]") = 9 /\ Binds("()") = 9
    /\ \A m \in 1..7 : \A op \in Levels[m] : Binds(op) = m
<1>1. Binds("?") = 0 /\ Binds(".") = 9 /\ Binds("[]") = 9 /\ Binds("()") = 9
    BY DEF Binds
<1>2. /\ Binds("??") = 1 /\ Binds("||") = 2 /\ Binds("&&") = 3
      /\ Binds("==") = 4 /\ Binds("!=") = 4 /\ Binds("===") = 4 /\ Binds("!==") = 4
      /\ Binds(">") = 5 /\ Binds(">=") = 5 /\ Binds("<") = 5 /\ Binds("<=") = 5
      /\ Binds("+") = 6 /\ Binds("-") = 6 /\ Binds("*") = 7 /\ Binds("/") = 7 /\ Binds("%") = 7
    BY DEF Binds
<1>3. ASSUME NEW m \in 1..7, NEW op \in Levels[m]
      PROVE  Binds(op) = m
    <2>1. m = 1 \/ m = 2 \/ m = 3 \/ m = 4 \/ m = 5 \/ m = 6 \/ m = 7
        OBVIOUS
    <2>2. QED
        BY <1>2, <2>1, LevelsAre
<1>4. QED
    BY <1>1, <1>3

\* And the expressions that are made of them
LEMMA StrengthIs ==
    /\ \A op \in Unaries : \A a : Strength(Node(op, <<a>>)) = 8
    /\ \A op, a : op \notin Unaries => Strength(Node(op, <<a>>)) = Binds(op)
    /\ \A op, a, b : Strength(Node(op, <<a, b>>)) = Binds(op)
    /\ \A op, a, b, c : Strength(Node(op, <<a, b, c>>)) = Binds(op)
<1>1. ASSUME NEW op \in Unaries, NEW a
      PROVE  Strength(Node(op, <<a>>)) = 8
    BY NodeIs DEF Strength, Unary
<1>2. ASSUME NEW op, NEW a, op \notin Unaries
      PROVE  Strength(Node(op, <<a>>)) = Binds(op)
    BY <1>2, NodeIs DEF Strength
<1>3. ASSUME NEW op, NEW a, NEW b
      PROVE  Strength(Node(op, <<a, b>>)) = Binds(op)
    BY NodeIs DEF Strength
<1>4. ASSUME NEW op, NEW a, NEW b, NEW c
      PROVE  Strength(Node(op, <<a, b, c>>)) = Binds(op)
    BY NodeIs DEF Strength
<1>5. QED
    BY <1>1, <1>2, <1>3, <1>4

\* What ends an expression is safe before all but a property.
LEMMA EnderSafe == \A last \in Enders : \A x \in Followers \ {"."} : Safe(last, x)
BY DEF Safe

\* Where punctuation stands
LEMMA PunctuationPlaced ==
    /\ {"?", ":", ",", "[", "("} \subseteq Openers
    /\ {"?", ":", ",", "[", "(", ")", "]"} \subseteq Followers \ {"."}
    /\ {")", "]"} \subseteq Enders \ {".5"}
    /\ Identifiers \subseteq Enders \ {".5"} /\ Unaries \subseteq Openers \cap Starters
BY DEF Openers, Followers, Enders, Identifiers, Unaries, Starters

\* A prefix operator before an operand says what is meant.
LEMMA UnarySays ==
    ASSUME NEW op \in Unaries, NEW a, NEW u, SaysAt(8, a, u)
    PROVE  Says(Node(op, <<a>>), <<op>> \o u)
<1>1. PICK e : Piece(e, a, u) /\ 8 <= e
    BY DEF SaysAt
<1>2. e \in {8, 9}
    BY <1>1 DEF Piece, Methods
<1>3. Piece(8, Node(op, <<a>>), <<op>> \o u)
    BY <1>1, <1>2, UnaryReads
<1>4. op \in Openers /\ op \in Starters /\ op \in TokenNames
    BY PunctuationPlaced, PunctuationNamed
<1>5. Runs(<<op>>, op)
    BY <1>4, ChainOne DEF Runs
<1>6. PICK last \in Enders : Runs(<<op>> \o u, last)
    BY <1>4, <1>5, SaidAt
<1>7. Strength(Node(op, <<a>>)) = 8 /\ 8 # 9
    BY StrengthIs
<1>8. QED
    BY <1>3, <1>6, <1>7, LooseSays

\* Where the operators of the levels stand
LEMMA LevelsPlaced == \A m \in 1..7 : \A op \in Levels[m] : op \in Openers /\ op \in Followers \ {"."}
<1>1. ASSUME NEW m \in 1..7, NEW op \in Levels[m]
      PROVE  op \in Infixes
    <2>1. m = 1 \/ m = 2 \/ m = 3 \/ m = 4 \/ m = 5 \/ m = 6 \/ m = 7
        OBVIOUS
    <2>2. QED
        BY <2>1, LevelsAre DEF Infixes
<1>2. \A op \in Infixes : op \in Openers /\ op \in Followers \ {"."}
    BY DEF Infixes, Openers, Followers
<1>3. QED
    BY <1>1, <1>2

\* An operator between its operands
LEMMA BinarySays ==
    ASSUME NEW m \in 1..7, NEW op \in Levels[m], NEW a, NEW u, SaysAt(m, a, u),
           NEW b, NEW v, SaysAt(m + 1, b, v)
    PROVE  Says(Node(op, <<a, b>>), u \o <<op>> \o v)
<1>1. PICK e : Piece(e, a, u) /\ m <= e
    BY DEF SaysAt
<1>2. PICK f : Piece(f, b, v) /\ m + 1 <= f
    BY DEF SaysAt
<1>3. Piece(m, Node(op, <<a, b>>), u \o <<op>> \o v)
    BY <1>1, <1>2, BinaryReads
<1>4. op \in Openers /\ op \in Followers \ {"."}
    BY LevelsPlaced
<1>5. Runs(u \o <<op>>, op)
    BY <1>4, SaidAt
<1>6. PICK last \in Enders : Runs(u \o <<op>> \o v, last)
    BY <1>4, <1>5, SaidAt
<1>7. Strength(Node(op, <<a, b>>)) = m /\ m # 9
    BY StrengthIs, BindsIs
<1>8. QED
    BY <1>3, <1>6, <1>7, LooseSays

\* A property of anything but the number
LEMMA PropertySays ==
    ASSUME NEW a, a # Leaf(".5"), NEW u, SaysAt(9, a, u), NEW x \in Identifiers
    PROVE  Says(Node(".", <<a, Leaf(x)>>), u \o <<".">> \o <<x>>)
<1>1. PICK e : Piece(e, a, u) /\ 9 <= e
    BY DEF SaysAt
<1>2. e = 9
    BY <1>1 DEF Piece, Methods
<1>3. Piece(9, Node(".", <<a, Leaf(x)>>), u \o <<".">> \o <<x>>)
    BY <1>1, <1>2, PropertyReads
<1>4. Runs(u \o <<".">>, ".")
    BY SaidAt
<1>5. Safe(".", x)
    BY DEF Safe
<1>6. Runs(u \o <<".">> \o <<x>>, x)
    BY <1>4, <1>5, RunToken
<1>7. x \in Enders \ {".5"}
    BY PunctuationPlaced
<1>8. Strength(Node(".", <<a, Leaf(x)>>)) = 9
    BY StrengthIs, BindsIs
<1>9. QED
    BY <1>3, <1>6, <1>7, <1>8, TightSays

\* An index
LEMMA IndexSays ==
    ASSUME NEW a, NEW u, SaysAt(9, a, u), NEW b, NEW v, SaysAt(0, b, v)
    PROVE  Says(Node("[]", <<a, b>>), u \o <<"[">> \o v \o <<"]">>)
<1>1. PICK e : Piece(e, a, u) /\ 9 <= e
    BY DEF SaysAt
<1>2. e = 9
    BY <1>1 DEF Piece, Methods
<1>3. PICK f : Piece(f, b, v)
    BY DEF SaysAt
<1>4. Piece(9, Node("[]", <<a, b>>), u \o <<"[">> \o v \o <<"]">>)
    BY <1>1, <1>2, <1>3, IndexReads
<1>5. Runs(u \o <<"[">>, "[") /\ "[" \in Openers
    BY PunctuationPlaced, SaidAt
<1>6. PICK last \in Enders : Runs(u \o <<"[">> \o v, last)
    BY <1>5, SaidAt
<1>7. "]" \in Followers \ {"."} /\ "]" \in Enders \ {".5"}
    BY PunctuationPlaced
<1>8. Runs(u \o <<"[">> \o v \o <<"]">>, "]")
    BY <1>6, <1>7, EnderSafe, RunToken
<1>9. Strength(Node("[]", <<a, b>>)) = 9
    BY StrengthIs, BindsIs
<1>10. QED
    BY <1>4, <1>7, <1>8, <1>9, TightSays

\* Tokens that can stand between the parentheses of a call
Listed(v) ==
    \A g : Runs(g, "(") => \E last \in Enders \cup {"("} : Runs(g \o v, last)

\* A call
LEMMA CallSays ==
    ASSUME NEW a, NEW u, SaysAt(9, a, u), NEW v, NEW t, ArgsRead(a, v, t), Listed(v), Strength(t) = 9
    PROVE  Says(t, u \o <<"(">> \o v \o <<")">>)
<1>1. PICK e : Piece(e, a, u) /\ 9 <= e
    BY DEF SaysAt
<1>2. e = 9
    BY <1>1 DEF Piece, Methods
<1>3. Piece(9, t, u \o <<"(">> \o v \o <<")">>)
    BY <1>1, <1>2, CallReads
<1>4. Runs(u \o <<"(">>, "(")
    BY PunctuationPlaced, SaidAt
<1>5. PICK last \in Enders \cup {"("} : Runs(u \o <<"(">> \o v, last)
    BY <1>4 DEF Listed
<1>6. Safe(last, ")")
    BY DEF Safe, Followers
<1>7. Runs(u \o <<"(">> \o v \o <<")">>, ")")
    BY <1>5, <1>6, RunToken
<1>8. ")" \in Enders \ {".5"}
    BY PunctuationPlaced
<1>9. QED
    BY <1>3, <1>7, <1>8, TightSays

\* No argument is a list,
LEMMA NothingListed == Listed(<<>>)
<1>1. ASSUME NEW g, Runs(g, "(")
      PROVE  Runs(g \o <<>>, "(")
    <2>1. g \in Seq(TokenNames)
        BY <1>1 DEF Runs, Chain
    <2>2. g \o <<>> = g
        BY <2>1
    <2>3. QED
        BY <1>1, <2>2
<1>2. QED
    BY <1>1 DEF Listed

\* one is,
LEMMA OneListed ==
    ASSUME NEW b, NEW v, SaysAt(0, b, v)
    PROVE  Listed(v)
<1>1. "(" \in Openers
    BY PunctuationPlaced
<1>2. QED
    BY <1>1, SaidAt DEF Listed

\* One token is a text.
LEMMA ListOfOne == \A T : \A x \in T : <<x>> \in Seq(T)
OBVIOUS

\* and two with a comma are.
LEMMA TwoListed ==
    ASSUME NEW b, NEW v, SaysAt(0, b, v), NEW c, NEW z, SaysAt(0, c, z)
    PROVE  Listed(v \o <<",">> \o z)
<1>1. "(" \in Openers /\ "," \in Openers /\ "," \in Followers \ {"."}
    BY PunctuationPlaced
<1>2. ASSUME NEW g, Runs(g, "(")
      PROVE  \E last \in Enders : Runs(g \o (v \o <<",">> \o z), last)
    <2>1. PICK next \in Enders : Runs(g \o v, next)
        BY <1>1, <1>2, SaidAt
    <2>2. Runs(g \o v \o <<",">>, ",")
        BY <1>1, <2>1, EnderSafe, RunToken
    <2>3. PICK last \in Enders : Runs(g \o v \o <<",">> \o z, last)
        BY <1>1, <2>2, SaidAt
    <2>4. g \in Seq(TokenNames) /\ v \in Seq(TokenNames) /\ z \in Seq(TokenNames)
          /\ <<",">> \in Seq(TokenNames)
        <3>1. "," \in TokenNames
            BY PunctuationNamed
        <3>2. <<",">> \in Seq(TokenNames)
            BY <3>1, ListOfOne
        <3>3. QED
            BY <1>2, <3>2 DEF Runs, Chain, SaysAt, Piece
    <2>5. g \o v \o <<",">> \o z = g \o (v \o <<",">> \o z)
        <3>1. PICK d : d = <<",">>
            OBVIOUS
        <3>2. PICK p : p = v \o d
            OBVIOUS
        <3>3. /\ g \in Seq(TokenNames) /\ v \in Seq(TokenNames)
              /\ d \in Seq(TokenNames) /\ z \in Seq(TokenNames)
            BY <2>4, <3>1
        <3>4. (g \o v) \o d = g \o p
            BY <3>2, <3>3, ConcatAssociative, SMTT(30)
        <3>5. p \in Seq(TokenNames)
            BY <3>2, <3>3, ConcatProperties
        <3>6. (g \o p) \o z = g \o (p \o z)
            BY <3>3, <3>5, ConcatAssociative, SMTT(30)
        <3>7. QED
            BY <3>1, <3>2, <3>4, <3>6
    <2>6. QED
        BY <2>3, <2>5
<1>3. QED
    BY <1>2 DEF Listed

\* A conditional expression
LEMMA TernarySays ==
    ASSUME NEW a, NEW u, SaysAt(1, a, u), NEW b, NEW v, SaysAt(0, b, v), NEW c, NEW z, SaysAt(0, c, z)
    PROVE  Says(Node("?", <<a, b, c>>), u \o <<"?">> \o v \o <<":">> \o z)
<1>1. PICK e, f, h : Piece(e, a, u) /\ 1 <= e /\ Piece(f, b, v) /\ Piece(h, c, z)
    BY DEF SaysAt
<1>2. Piece(0, Node("?", <<a, b, c>>), u \o <<"?">> \o v \o <<":">> \o z)
    BY <1>1, TernaryReads
<1>3. "?" \in Openers /\ ":" \in Openers /\ "?" \in Followers \ {"."} /\ ":" \in Followers \ {"."}
    BY PunctuationPlaced
<1>4. Runs(u \o <<"?">>, "?")
    BY <1>3, SaidAt
<1>5. PICK next \in Enders : Runs(u \o <<"?">> \o v, next)
    BY <1>3, <1>4, SaidAt
<1>6. Runs(u \o <<"?">> \o v \o <<":">>, ":")
    BY <1>3, <1>5, EnderSafe, RunToken
<1>7. PICK last \in Enders : Runs(u \o <<"?">> \o v \o <<":">> \o z, last)
    BY <1>3, <1>6, SaidAt
<1>8. Strength(Node("?", <<a, b, c>>)) = 0 /\ 0 # 9
    BY StrengthIs, BindsIs
<1>9. QED
    BY <1>2, <1>7, <1>8, LooseSays

-----------------------------------------------------------------------------
(***************************************************************************)
(* What is written says what is meant.                                     *)
(***************************************************************************)
\* A tree of at most k operators inside one another, and its text says it.
Sound(k, t) == t \in Trees[k] /\ Says(t, Writing[k][t])

\* A tree is written with the tokens of its operands.
LEMMA WritingAt ==
    ASSUME NEW k \in 0..MaxDepth, NEW t \in Trees[k]
    PROVE  Writing[k][t] = TokensOf(t, Inside(Writing, k))
<1>1. Writing[k] = WritingOf(k, Inside(Writing, k))
    BY WritingSteps
<1>2. PICK W : W = Inside(Writing, k)
    OBVIOUS
<1>3. WritingOf(k, W) = [u \in Trees[k] |-> TokensOf(u, W)]
    BY DEF WritingOf
<1>4. QED
    BY <1>1, <1>2, <1>3

\* A node of trees is a tree, and is written with their tokens.
LEMMA NodeInTrees ==
    ASSUME NEW k \in 1..MaxDepth, NEW op \in Ops, NEW args \in Seq(Trees[k - 1])
    PROVE  /\ Node(op, args) \in Trees[k]
           /\ Writing[k][Node(op, args)] = TokensOf(Node(op, args), Writing[k - 1])
<1>1. k \in 0..MaxDepth /\ k # 0
    BY DepthBound
<1>2. Trees[k] = Branching(Trees[k - 1])
    BY <1>1, TreesSteps, Zenon DEF Inside
<1>3. Node(op, args) \in Branching(Trees[k - 1])
    BY DEF Node, Branching
<1>4. Writing[k][Node(op, args)] = TokensOf(Node(op, args), Inside(Writing, k))
    BY <1>1, <1>2, <1>3, WritingAt
<1>5. Inside(Writing, k) = Writing[k - 1]
    BY <1>1 DEF Inside
<1>6. QED
    BY <1>2, <1>3, <1>4, <1>5

\* A leaf is a tree at every depth and is written as itself.
LEMMA LeafInTrees ==
    ASSUME NEW k \in 0..MaxDepth, NEW x \in Identifiers \cup Literals
    PROVE  Sound(k, Leaf(x)) /\ Strength(Leaf(x)) = 9 /\ Writing[k][Leaf(x)] = <<x>>
<1>1. Leaf(x).op = x /\ Leaf(x).args = <<>>
    BY DEF Leaf, Node
<1>2. Leaf(x) \in Trees[k]
    <2>1. PICK T : T = Inside(Trees, k)
        OBVIOUS
    <2>2. x \in Ops /\ <<>> \in Seq(T)
        BY DEF Ops
    <2>3. Leaf(x) \in Branching(T)
        BY <2>2 DEF Leaf, Node, Branching
    <2>4. QED
        BY <2>1, <2>3, TreesSteps
<1>3. Writing[k][Leaf(x)] = TokensOf(Leaf(x), Inside(Writing, k))
    BY <1>2, WritingAt
<1>4. Strength(Leaf(x)) = 9
    <2>1. Len(<<>>) # 1
        OBVIOUS
    <2>2. x \notin Unaries
        BY DEF Identifiers, Literals, Unaries
    <2>3. Binds(x) = 9
        BY DEF Binds, Identifiers, Literals
    <2>4. QED
        BY <1>1, <2>2, <2>3, Zenon DEF Strength
<1>5. x # "?" /\ x # "." /\ x # "[]" /\ x # "()"
    BY DEF Identifiers, Literals
<1>6. TokensOf(Leaf(x), Inside(Writing, k)) = <<x>>
    <2>1. Strength(Leaf(x)) # 8
        BY <1>4
    <2>2. QED
        BY <1>1, <1>5, <2>1, Zenon DEF TokensOf, Unary
<1>7. QED
    BY <1>2, <1>3, <1>4, <1>6, LeafSays DEF Sound

-----------------------------------------------------------------------------
(***************************************************************************)
(* The tokens of every kind of expression                                  *)
(***************************************************************************)
LEMMA UnaryTokens ==
    ASSUME NEW W, NEW t, t.args # <<>>, Strength(t) = 8, t.op \in Unaries
    PROVE  TokensOf(t, W) = <<t.op>> \o Operand(8, t.args[1], W[t.args[1]])
<1>1. t.op # "?" /\ t.op # "." /\ t.op # "[]" /\ t.op # "()"
    BY DEF Unaries
<1>2. QED
    BY <1>1, Zenon DEF TokensOf, Unary, Operand, InParentheses

\* A conditional expression
LEMMA TernaryTokens ==
    ASSUME NEW W, NEW t, t.args # <<>>, Strength(t) # 8, t.op = "?"
    PROVE  TokensOf(t, W) = Operand(1, t.args[1], W[t.args[1]]) \o <<"?">>
                            \o Operand(0, t.args[2], W[t.args[2]]) \o <<":">>
                            \o Operand(0, t.args[3], W[t.args[3]])
<1>1. t.op # "." /\ t.op # "[]" /\ t.op # "()"
    OBVIOUS
<1>2. QED
    BY <1>1, Zenon DEF TokensOf, Unary, Ternary, Operand, InParentheses

\* A property
LEMMA PropertyTokens ==
    ASSUME NEW W, NEW t, t.args # <<>>, Strength(t) # 8, t.op = "."
    PROVE  TokensOf(t, W) = Operand(9, t.args[1], W[t.args[1]]) \o <<".">>
                            \o Operand(9, t.args[2], W[t.args[2]])
<1>1. t.op # "?" /\ t.op # "[]" /\ t.op # "()"
    OBVIOUS
<1>2. QED
    BY <1>1, Zenon DEF TokensOf, Unary, Member, Operand, InParentheses

\* An index
LEMMA IndexTokens ==
    ASSUME NEW W, NEW t, t.args # <<>>, Strength(t) # 8, t.op = "[]"
    PROVE  TokensOf(t, W) = Operand(9, t.args[1], W[t.args[1]]) \o <<"[">>
                            \o Operand(0, t.args[2], W[t.args[2]]) \o <<"]">>
<1>1. t.op # "?" /\ t.op # "." /\ t.op # "()"
    OBVIOUS
<1>2. QED
    BY <1>1, Zenon DEF TokensOf, Unary, Ternary, Member, Operand, InParentheses

\* Between the parentheses of a call
ArgumentTokens(t, W) ==
    CASE Len(t.args) = 1 -> <<>>
      [] Len(t.args) = 2 -> Operand(0, t.args[2], W[t.args[2]])
      [] OTHER -> Operand(0, t.args[2], W[t.args[2]]) \o <<",">> \o Operand(0, t.args[3], W[t.args[3]])

\* A call
LEMMA CallTokens ==
    ASSUME NEW W, NEW t, t.args # <<>>, Strength(t) # 8, t.op = "()"
    PROVE  TokensOf(t, W) = Operand(9, t.args[1], W[t.args[1]]) \o <<"(">>
                            \o ArgumentTokens(t, W) \o <<")">>
<1>1. t.op # "?" /\ t.op # "." /\ t.op # "[]"
    OBVIOUS
<1>2. QED
    BY <1>1, Zenon DEF TokensOf, Unary, Ternary, Member, Operand, InParentheses, ArgumentTokens

\* An operator of a level
LEMMA BinaryTokens ==
    ASSUME NEW W, NEW t, t.args # <<>>, NEW m \in 1..7, Strength(t) = m, t.op \in Levels[m]
    PROVE  TokensOf(t, W) = Operand(m, t.args[1], W[t.args[1]]) \o <<t.op>>
                            \o Operand(m + 1, t.args[2], W[t.args[2]])
<1>1. t.op # "?" /\ t.op # "." /\ t.op # "[]" /\ t.op # "()"
    BY BindsIs
<1>2. Strength(t) # 8
    OBVIOUS
<1>3. QED
    BY <1>1, <1>2, Zenon DEF TokensOf, Unary, Operand, InParentheses

-----------------------------------------------------------------------------
(***************************************************************************)
(* Every operator keeps it.                                                *)
(***************************************************************************)
OpensOrFollows == {"?", ".", "[]", "()"}

\* They are operators, as those of the levels and the prefix operators are.
LEMMA OpsAre ==
    /\ OpensOrFollows \subseteq Ops /\ Unaries \subseteq Ops
    /\ \A m \in 1..7 : Levels[m] \subseteq Ops
<1>1. OpensOrFollows \subseteq Ops /\ Unaries \subseteq Ops
    BY DEF OpensOrFollows, Unaries, Ops, One
<1>2. ASSUME NEW m \in 1..7, NEW op \in Levels[m]
      PROVE  op \in Ops
    <2>1. m = 1 \/ m = 2 \/ m = 3 \/ m = 4 \/ m = 5 \/ m = 6 \/ m = 7
        OBVIOUS
    <2>2. op \in Infixes
        BY <2>1, LevelsAre DEF Infixes
    <2>3. QED
        BY <2>2 DEF Infixes, Ops, One, Two, Three
<1>3. QED
    BY <1>1, <1>2

\* How a is written as an operand inside a tree of k
AsOperand(k, d, a) == Operand(d, a, Writing[k - 1][a])

\* An operand is said where it stands.
LEMMA SoundAt ==
    ASSUME NEW k \in 1..MaxDepth, NEW a, Sound(k - 1, a), NEW d \in 0..9
    PROVE  SaysAt(d, a, AsOperand(k, d, a))
BY OperandSays DEF Sound, AsOperand

\* Operands are sequences.
LEMMA OperandsTyped ==
    \A T : \A a, b, c \in T : <<a>> \in Seq(T) /\ <<a, b>> \in Seq(T) /\ <<a, b, c>> \in Seq(T)
OBVIOUS

\* A node of sound operands is a tree, and is written with their tokens.
LEMMA SoundOperands ==
    ASSUME NEW k \in 1..MaxDepth, NEW op \in Ops
    PROVE  /\ \A a : Sound(k - 1, a) =>
                 /\ Node(op, <<a>>) \in Trees[k]
                 /\ Writing[k][Node(op, <<a>>)] = TokensOf(Node(op, <<a>>), Writing[k - 1])
           /\ \A a, b : Sound(k - 1, a) /\ Sound(k - 1, b) =>
                 /\ Node(op, <<a, b>>) \in Trees[k]
                 /\ Writing[k][Node(op, <<a, b>>)] = TokensOf(Node(op, <<a, b>>), Writing[k - 1])
           /\ \A a, b, c : Sound(k - 1, a) /\ Sound(k - 1, b) /\ Sound(k - 1, c) =>
                 /\ Node(op, <<a, b, c>>) \in Trees[k]
                 /\ Writing[k][Node(op, <<a, b, c>>)] = TokensOf(Node(op, <<a, b, c>>), Writing[k - 1])
<1>1. PICK T : T = Trees[k - 1]
    OBVIOUS
<1>2. \A a : Sound(k - 1, a) => a \in T
    BY <1>1 DEF Sound
<1>3. \A args \in Seq(T) :
        /\ Node(op, args) \in Trees[k]
        /\ Writing[k][Node(op, args)] = TokensOf(Node(op, args), Writing[k - 1])
    BY <1>1, NodeInTrees
<1>4. QED
    BY <1>2, <1>3, OperandsTyped, Zenon

\* A prefix operator before a sound operand
LEMMA SoundUnary ==
    ASSUME NEW k \in 1..MaxDepth, NEW op \in Unaries, NEW a, Sound(k - 1, a)
    PROVE  Sound(k, Node(op, <<a>>))
<1>1. PICK t : t = Node(op, <<a>>)
    OBVIOUS
<1>2. t.op = op /\ t.args = <<a>> /\ <<a>> # <<>> /\ <<a>>[1] = a /\ Strength(t) = 8
    BY <1>1, NodeIs, StrengthIs
<1>3. t \in Trees[k] /\ Writing[k][t] = TokensOf(t, Writing[k - 1])
    BY <1>1, OpsAre, SoundOperands
<1>4. TokensOf(t, Writing[k - 1]) = <<op>> \o AsOperand(k, 8, a)
    BY <1>2, UnaryTokens DEF AsOperand
<1>5. SaysAt(8, a, AsOperand(k, 8, a))
    BY SoundAt
<1>6. Says(t, <<op>> \o AsOperand(k, 8, a))
    BY <1>1, <1>5, UnarySays
<1>7. QED
    BY <1>1, <1>3, <1>4, <1>6 DEF Sound

\* An operator between sound operands
LEMMA SoundBinary ==
    ASSUME NEW k \in 1..MaxDepth, NEW m \in 1..7, NEW op \in Levels[m],
           NEW a, Sound(k - 1, a), NEW b, Sound(k - 1, b)
    PROVE  Sound(k, Node(op, <<a, b>>))
<1>1. PICK t : t = Node(op, <<a, b>>)
    OBVIOUS
<1>2. /\ t.op = op /\ t.args = <<a, b>> /\ <<a, b>> # <<>> /\ <<a, b>>[1] = a /\ <<a, b>>[2] = b
      /\ Strength(t) = m
    BY <1>1, NodeIs, StrengthIs, BindsIs
<1>3. t \in Trees[k] /\ Writing[k][t] = TokensOf(t, Writing[k - 1])
    BY <1>1, OpsAre, SoundOperands
<1>4. TokensOf(t, Writing[k - 1]) = AsOperand(k, m, a) \o <<op>> \o AsOperand(k, m + 1, b)
    <2>1. t.args # <<>> /\ t.args[1] = a /\ t.args[2] = b
        BY <1>2
    <2>2. QED
        BY <1>2, <2>1, BinaryTokens, Zenon DEF AsOperand
<1>5. SaysAt(m, a, AsOperand(k, m, a)) /\ SaysAt(m + 1, b, AsOperand(k, m + 1, b))
    BY SoundAt
<1>6. Says(t, AsOperand(k, m, a) \o <<op>> \o AsOperand(k, m + 1, b))
    BY <1>1, <1>5, BinarySays
<1>7. QED
    BY <1>1, <1>3, <1>4, <1>6 DEF Sound

\* A property of a sound object
LEMMA SoundProperty ==
    ASSUME NEW k \in 1..MaxDepth, NEW a, Sound(k - 1, a), a # Leaf(".5"), NEW x \in Identifiers
    PROVE  Sound(k, Node(".", <<a, Leaf(x)>>))
<1>1. PICK t, b : t = Node(".", <<a, b>>) /\ b = Leaf(x)
    OBVIOUS
<1>2. Sound(k - 1, b) /\ Strength(b) = 9 /\ Writing[k - 1][b] = <<x>>
    <2>1. k - 1 \in 0..MaxDepth /\ x \in Identifiers \cup Literals
        BY DepthBound
    <2>2. QED
        BY <1>1, <2>1, LeafInTrees
<1>3. AsOperand(k, 9, b) = <<x>>
    BY <1>2 DEF AsOperand, Operand
<1>4. /\ t.op = "." /\ t.args = <<a, b>> /\ <<a, b>> # <<>> /\ <<a, b>>[1] = a /\ <<a, b>>[2] = b
      /\ Strength(t) # 8
    BY <1>1, NodeIs, StrengthIs, BindsIs
<1>5. t \in Trees[k] /\ Writing[k][t] = TokensOf(t, Writing[k - 1])
    BY <1>1, <1>2, OpsAre, SoundOperands DEF OpensOrFollows
<1>6. TokensOf(t, Writing[k - 1]) = AsOperand(k, 9, a) \o <<".">> \o AsOperand(k, 9, b)
    <2>1. t.args # <<>> /\ t.args[1] = a /\ t.args[2] = b
        BY <1>4
    <2>2. QED
        BY <1>4, <2>1, PropertyTokens, Zenon DEF AsOperand
<1>7. SaysAt(9, a, AsOperand(k, 9, a))
    BY SoundAt
<1>8. Says(t, AsOperand(k, 9, a) \o <<".">> \o <<x>>)
    BY <1>1, <1>7, PropertySays
<1>9. QED
    BY <1>1, <1>3, <1>5, <1>6, <1>8 DEF Sound

\* An index of a sound object
LEMMA SoundIndex ==
    ASSUME NEW k \in 1..MaxDepth, NEW a, Sound(k - 1, a), NEW b, Sound(k - 1, b)
    PROVE  Sound(k, Node("[]", <<a, b>>))
<1>1. PICK t : t = Node("[]", <<a, b>>)
    OBVIOUS
<1>2. /\ t.op = "[]" /\ t.args = <<a, b>> /\ <<a, b>> # <<>> /\ <<a, b>>[1] = a /\ <<a, b>>[2] = b
      /\ Strength(t) # 8
    BY <1>1, NodeIs, StrengthIs, BindsIs
<1>3. t \in Trees[k] /\ Writing[k][t] = TokensOf(t, Writing[k - 1])
    BY <1>1, OpsAre, SoundOperands DEF OpensOrFollows
<1>4. TokensOf(t, Writing[k - 1]) = AsOperand(k, 9, a) \o <<"[">> \o AsOperand(k, 0, b) \o <<"]">>
    <2>1. t.args # <<>> /\ t.args[1] = a /\ t.args[2] = b
        BY <1>2
    <2>2. QED
        BY <1>2, <2>1, IndexTokens, Zenon DEF AsOperand
<1>5. SaysAt(9, a, AsOperand(k, 9, a)) /\ SaysAt(0, b, AsOperand(k, 0, b))
    BY SoundAt
<1>6. Says(t, AsOperand(k, 9, a) \o <<"[">> \o AsOperand(k, 0, b) \o <<"]">>)
    BY <1>1, <1>5, IndexSays
<1>7. QED
    BY <1>1, <1>3, <1>4, <1>6 DEF Sound

\* A call with the arguments v
LEMMA SoundCall ==
    ASSUME NEW k \in 1..MaxDepth, NEW t, NEW a, Sound(k - 1, a), NEW v,
           t.op = "()", t.args # <<>>, t.args[1] = a, Strength(t) = 9,
           t \in Trees[k], Writing[k][t] = TokensOf(t, Writing[k - 1]),
           ArgumentTokens(t, Writing[k - 1]) = v, ArgsRead(a, v, t), Listed(v)
    PROVE  Sound(k, t)
<1>1. Strength(t) # 8
    OBVIOUS
<1>2. TokensOf(t, Writing[k - 1]) = AsOperand(k, 9, a) \o <<"(">> \o v \o <<")">>
    BY <1>1, CallTokens, Zenon DEF AsOperand
<1>3. SaysAt(9, a, AsOperand(k, 9, a))
    BY SoundAt
<1>4. Says(t, AsOperand(k, 9, a) \o <<"(">> \o v \o <<")">>)
    BY <1>3, CallSays
<1>5. QED
    BY <1>2, <1>4 DEF Sound

\* A call with none, one and two arguments
LEMMA SoundCalls ==
    ASSUME NEW k \in 1..MaxDepth, NEW a, Sound(k - 1, a)
    PROVE  /\ Sound(k, Node("()", <<a>>))
           /\ \A b : Sound(k - 1, b) => Sound(k, Node("()", <<a, b>>))
           /\ \A b, c : Sound(k - 1, b) /\ Sound(k - 1, c) => Sound(k, Node("()", <<a, b, c>>))
<1>0. "()" \in Ops /\ "()" \notin Unaries
    BY OpsAre DEF OpensOrFollows, Unaries
<1>1. Sound(k, Node("()", <<a>>))
    <2>1. PICK t : t = Node("()", <<a>>)
        OBVIOUS
    <2>2. /\ t.op = "()" /\ t.args = <<a>> /\ <<a>> # <<>> /\ <<a>>[1] = a /\ Len(<<a>>) = 1
          /\ Strength(t) = 9
        BY <1>0, <2>1, NodeIs, StrengthIs, BindsIs
    <2>3. t \in Trees[k] /\ Writing[k][t] = TokensOf(t, Writing[k - 1])
        BY <1>0, <2>1, SoundOperands
    <2>4. ArgumentTokens(t, Writing[k - 1]) = <<>>
        <3>1. Len(t.args) = 1 /\ Len(t.args) # 2
            BY <2>2
        <3>2. QED
            BY <3>1, Zenon DEF ArgumentTokens
    <2>5. ArgsRead(a, <<>>, t) /\ Listed(<<>>)
        BY <2>1, NoArgument, NothingListed
    <2>6. t.args # <<>> /\ t.args[1] = a
        BY <2>2
    <2>7. QED
        BY <2>1, <2>2, <2>3, <2>4, <2>5, <2>6, SoundCall, Zenon
<1>2. ASSUME NEW b, Sound(k - 1, b)
      PROVE  Sound(k, Node("()", <<a, b>>))
    <2>1. PICK t : t = Node("()", <<a, b>>)
        OBVIOUS
    <2>2. /\ t.op = "()" /\ t.args = <<a, b>> /\ <<a, b>> # <<>>
          /\ <<a, b>>[1] = a /\ <<a, b>>[2] = b /\ Len(<<a, b>>) = 2
          /\ Strength(t) = 9
        BY <2>1, NodeIs, StrengthIs, BindsIs
    <2>3. t \in Trees[k] /\ Writing[k][t] = TokensOf(t, Writing[k - 1])
        BY <1>0, <1>2, <2>1, SoundOperands
    <2>4. ArgumentTokens(t, Writing[k - 1]) = AsOperand(k, 0, b)
        <3>1. Len(t.args) # 1 /\ Len(t.args) = 2 /\ t.args[2] = b
            BY <2>2
        <3>2. QED
            BY <3>1, Zenon DEF ArgumentTokens, AsOperand
    <2>5. SaysAt(0, b, AsOperand(k, 0, b))
        BY <1>2, SoundAt
    <2>6. ArgsRead(a, AsOperand(k, 0, b), t) /\ Listed(AsOperand(k, 0, b))
        BY <2>1, <2>5, OneArgument, OneListed DEF SaysAt
    <2>7. t.args # <<>> /\ t.args[1] = a
        BY <2>2
    <2>8. QED
        BY <2>1, <2>2, <2>3, <2>4, <2>6, <2>7, SoundCall, Zenon
<1>3. ASSUME NEW b, NEW c, Sound(k - 1, b), Sound(k - 1, c)
      PROVE  Sound(k, Node("()", <<a, b, c>>))
    <2>1. PICK t, v : t = Node("()", <<a, b, c>>) /\ v = AsOperand(k, 0, b) \o <<",">> \o AsOperand(k, 0, c)
        OBVIOUS
    <2>2. /\ t.op = "()" /\ t.args = <<a, b, c>> /\ <<a, b, c>> # <<>> /\ <<a, b, c>>[1] = a
          /\ <<a, b, c>>[2] = b /\ <<a, b, c>>[3] = c /\ Len(<<a, b, c>>) = 3
          /\ Strength(t) = 9
        <3>1. Strength(t) = 9
            <4>1. Strength(t) = Binds("()")
                BY <2>1, StrengthIs, Zenon
            <4>2. QED
                BY <4>1, BindsIs
        <3>2. t.op = "()" /\ t.args = <<a, b, c>>
            BY <2>1, NodeIs, ZenonT(60)
        <3>3. /\ <<a, b, c>> # <<>> /\ <<a, b, c>>[1] = a
              /\ <<a, b, c>>[2] = b /\ <<a, b, c>>[3] = c /\ Len(<<a, b, c>>) = 3
            OBVIOUS
        <3>4. QED
            BY <3>1, <3>2, <3>3
    <2>3. t \in Trees[k] /\ Writing[k][t] = TokensOf(t, Writing[k - 1])
        <3>1. Sound(k - 1, a) /\ Sound(k - 1, b) /\ Sound(k - 1, c)
            BY <1>3
        <3>2. \A x, y, z : Sound(k - 1, x) /\ Sound(k - 1, y) /\ Sound(k - 1, z) =>
                 /\ Node("()", <<x, y, z>>) \in Trees[k]
                 /\ Writing[k][Node("()", <<x, y, z>>)]
                        = TokensOf(Node("()", <<x, y, z>>), Writing[k - 1])
            BY <1>0, SoundOperands
        <3>3. QED
            BY <2>1, <3>1, <3>2, Zenon
    <2>4. ArgumentTokens(t, Writing[k - 1]) = v
        <3>1. Len(t.args) # 1 /\ Len(t.args) # 2 /\ t.args[2] = b /\ t.args[3] = c
            BY <2>2
        <3>2. QED
            BY <2>1, <3>1, Zenon DEF ArgumentTokens, AsOperand
    <2>5. SaysAt(0, b, AsOperand(k, 0, b)) /\ SaysAt(0, c, AsOperand(k, 0, c))
        BY <1>3, SoundAt
    <2>6. ArgsRead(a, v, t)
        BY <2>1, <2>5, TwoArguments DEF SaysAt
    <2>7. Listed(v)
        BY <2>1, <2>5, TwoListed
    <2>8. t.args # <<>> /\ t.args[1] = a
        BY <2>2
    <2>9. QED
        BY <2>1, <2>2, <2>3, <2>4, <2>6, <2>7, <2>8, SoundCall, Zenon
<1>4. QED
    BY <1>1, <1>2, <1>3

\* A conditional expression of sound operands
LEMMA SoundTernary ==
    ASSUME NEW k \in 1..MaxDepth, NEW a, Sound(k - 1, a), NEW b, Sound(k - 1, b), NEW c, Sound(k - 1, c)
    PROVE  Sound(k, Node("?", <<a, b, c>>))
<1>1. PICK t : t = Node("?", <<a, b, c>>)
    OBVIOUS
<1>2. /\ t.op = "?" /\ t.args = <<a, b, c>> /\ <<a, b, c>> # <<>> /\ <<a, b, c>>[1] = a
      /\ <<a, b, c>>[2] = b /\ <<a, b, c>>[3] = c /\ Strength(t) # 8
    BY <1>1, NodeIs, StrengthIs, BindsIs
<1>3. t \in Trees[k] /\ Writing[k][t] = TokensOf(t, Writing[k - 1])
    BY <1>1, OpsAre, SoundOperands DEF OpensOrFollows
<1>4. TokensOf(t, Writing[k - 1]) = AsOperand(k, 1, a) \o <<"?">> \o AsOperand(k, 0, b) \o <<":">> \o AsOperand(k, 0, c)
    <2>1. t.args # <<>> /\ t.args[1] = a /\ t.args[2] = b /\ t.args[3] = c
        BY <1>2
    <2>2. QED
        BY <1>2, <2>1, TernaryTokens, Zenon DEF AsOperand
<1>5. SaysAt(1, a, AsOperand(k, 1, a)) /\ SaysAt(0, b, AsOperand(k, 0, b)) /\ SaysAt(0, c, AsOperand(k, 0, c))
    BY SoundAt
<1>6. Says(t, AsOperand(k, 1, a) \o <<"?">> \o AsOperand(k, 0, b) \o <<":">> \o AsOperand(k, 0, c))
    BY <1>1, <1>5, TernarySays
<1>7. QED
    BY <1>1, <1>3, <1>4, <1>6 DEF Sound

-----------------------------------------------------------------------------
(***************************************************************************)
(* An expression that grows                                                *)
(***************************************************************************)
GrowingOperators == {"??", "||", "&&", "!==", "<=", "-", "*"}

\* An operator with operands is not the number.
LEMMA NotLeaf ==
    \A op, a, b, c : /\ Node(op, <<a>>) # Leaf(".5") /\ Node(op, <<a, b>>) # Leaf(".5")
                     /\ Node(op, <<a, b, c>>) # Leaf(".5")
<1>1. Leaf(".5").args = <<>>
    BY NodeIs DEF Leaf
<1>2. \A a, b, c : <<a>> # <<>> /\ <<a, b>> # <<>> /\ <<a, b, c>> # <<>>
    OBVIOUS
<1>3. \A op, args : args # <<>> => Node(op, args) # Leaf(".5")
    BY <1>1, NodeIs
<1>4. QED
    BY <1>2, <1>3, Zenon

\* Whatever an expression grows to is sound.
LEMMA GrownSound ==
    ASSUME NEW k \in 1..MaxDepth, NEW t, Sound(k - 1, t), t # Leaf(".5"), NEW g \in Grown(t)
    PROVE  Sound(k, g) /\ g # Leaf(".5")
<1>1. PICK b, half, text : b = Leaf("b") /\ half = Leaf(".5") /\ text = Leaf("text")
    OBVIOUS
<1>2. k - 1 \in 0..MaxDepth /\ {"b", ".5", "text"} \subseteq Identifiers \cup Literals
    BY DepthBound DEF Identifiers, Literals
<1>3. Sound(k - 1, b) /\ Sound(k - 1, half) /\ Sound(k - 1, text)
    BY <1>1, <1>2, LeafInTrees
<1>4. \A op \in GrowingOperators : \E m \in 1..7 : op \in Levels[m]
    BY LevelsAre DEF GrowingOperators
<1>5. \/ \E op \in Unaries \cup {"()"} : g = Node(op, <<t>>)
      \/ \E op \in GrowingOperators : g = Node(op, <<t, half>>)
      \/ \E op \in GrowingOperators \cup {"[]", "()"} : g = Node(op, <<b, t>>)
      \/ g = Node(".", <<t, b>>) \/ g = Node("[]", <<t, text>>) \/ g = Node("()", <<t, half>>)
      \/ \E op \in {"?", "()"}, args \in {<<t, half, text>>, <<b, t, half>>, <<b, text, t>>} :
            g = Node(op, args)
    <2>1. Grown(t)
            = {Node(op, <<t>>) : op \in Unaries \cup {"()"}}
              \cup {Node(op, <<t, half>>) : op \in GrowingOperators}
              \cup {Node(op, <<b, t>>) : op \in GrowingOperators \cup {"[]", "()"}}
              \cup {Node(".", <<t, b>>), Node("[]", <<t, text>>), Node("()", <<t, half>>)}
              \cup {Node(op, args) : op \in {"?", "()"},
                                     args \in {<<t, half, text>>, <<b, t, half>>, <<b, text, t>>}}
        BY <1>1 DEF Grown, GrowingOperators
    <2>2. QED
        BY <2>1
<1>6. CASE \E op \in Unaries \cup {"()"} : g = Node(op, <<t>>)
    <2>1. Sound(k, Node("()", <<t>>))
        BY SoundCalls
    <2>2. \A op \in Unaries : Sound(k, Node(op, <<t>>))
        BY SoundUnary
    <2>3. QED
        BY <1>6, <2>1, <2>2, NotLeaf, Zenon
<1>7. CASE \E op \in GrowingOperators : g = Node(op, <<t, half>>)
    <2>1. \A op \in GrowingOperators : Sound(k, Node(op, <<t, half>>))
        BY <1>3, <1>4, SoundBinary
    <2>2. QED
        BY <1>7, <2>1, NotLeaf, Zenon
<1>8. CASE \E op \in GrowingOperators \cup {"[]", "()"} : g = Node(op, <<b, t>>)
    <2>1. \A op \in GrowingOperators : Sound(k, Node(op, <<b, t>>))
        BY <1>3, <1>4, SoundBinary
    <2>2. Sound(k, Node("[]", <<b, t>>)) /\ Sound(k, Node("()", <<b, t>>))
        BY <1>3, SoundIndex, SoundCalls
    <2>3. QED
        BY <1>8, <2>1, <2>2, NotLeaf, Zenon
<1>9. CASE g = Node(".", <<t, b>>) \/ g = Node("[]", <<t, text>>) \/ g = Node("()", <<t, half>>)
    <2>1. Sound(k, Node(".", <<t, b>>))
        <3>1. "b" \in Identifiers
            BY DEF Identifiers
        <3>2. QED
            BY <1>1, <3>1, SoundProperty
    <2>2. Sound(k, Node("[]", <<t, text>>)) /\ Sound(k, Node("()", <<t, half>>))
        BY <1>3, SoundIndex, SoundCalls
    <2>3. QED
        BY <1>9, <2>1, <2>2, NotLeaf, Zenon
<1>10. CASE \E op \in {"?", "()"}, args \in {<<t, half, text>>, <<b, t, half>>, <<b, text, t>>} :
              g = Node(op, args)
    <2>1. \A x, y, z : Sound(k - 1, x) /\ Sound(k - 1, y) /\ Sound(k - 1, z) =>
                           Sound(k, Node("?", <<x, y, z>>)) /\ Sound(k, Node("()", <<x, y, z>>))
        BY SoundTernary, SoundCalls
    <2>2. \E op \in {"?", "()"} : \E x, y, z :
            /\ g = Node(op, <<x, y, z>>)
            /\ Sound(k - 1, x) /\ Sound(k - 1, y) /\ Sound(k - 1, z)
        BY <1>3, <1>10, Zenon
    <2>3. QED
        BY <2>1, <2>2, NotLeaf, Zenon
<1>11. QED
    BY <1>5, <1>6, <1>7, <1>8, <1>9, <1>10

\* What says an expression is tokenized and parsed as that expression.
LEMMA SaidIsRead ==
    ASSUME NEW t, Sound(MaxDepth, t)
    PROVE  Ast(Written(t)).node = t
<1>1. PICK w : w = Writing[MaxDepth][t]
    OBVIOUS
<1>2. Says(t, w)
    BY <1>1 DEF Sound
<1>3. PICK first, last : Chain(w, first, last)
    BY <1>2 DEF Says, Sentence
<1>4. Tokenize(TextOf(w)) = Append(w, "eof")
    BY <1>3, Tokenized
<1>5. Piece(Strength(t), t, w)
    BY <1>2 DEF Says
<1>6. ParseExpression(Append(w, "eof")).node = t
    BY <1>5, WholeParsed
<1>7. Written(t) = TextOf(w)
    BY <1>1, Zenon DEF Written, TextOf
<1>8. QED
    BY <1>4, <1>6, <1>7, Zenon DEF Ast

\* The expression that grows is one whose text says it, at every depth from its
\* own on; and it is never the number, which no property can follow.
ExpressionInvariant ==
    /\ depth \in 0..MaxDepth
    /\ tree # Leaf(".5")
    /\ \A k \in depth..MaxDepth : Sound(k, tree)

LEMMA ExpressionInitInv == ExpressionInit => ExpressionInvariant
<1>1. SUFFICES ASSUME ExpressionInit PROVE ExpressionInvariant
    OBVIOUS
<1>2. "a" \in Identifiers \cup Literals
    BY DEF Identifiers, Literals
<1>3. \A k \in 0..MaxDepth : Sound(k, Leaf("a"))
    BY <1>2, LeafInTrees
<1>4. Leaf("a") # Leaf(".5")
    <2>1. Leaf("a").op = "a" /\ Leaf(".5").op = ".5"
        BY NodeIs DEF Leaf
    <2>2. QED
        BY <2>1
<1>5. depth = 0 /\ tree = Leaf("a")
    BY <1>1 DEF ExpressionInit
<1>6. depth \in 0..MaxDepth
    BY <1>5, DepthBound
<1>7. QED
    BY <1>3, <1>4, <1>5, <1>6 DEF ExpressionInvariant

LEMMA ExpressionNextInv ==
    ExpressionInvariant /\ [Grow]_expressionVars => ExpressionInvariant'
<1>1. SUFFICES ASSUME ExpressionInvariant, [Grow]_expressionVars PROVE ExpressionInvariant'
    OBVIOUS
<1>2. CASE Grow
    <2>1. depth' = depth + 1 /\ depth < MaxDepth /\ tree' \in Grown(tree) /\ depth \in 0..MaxDepth
        BY <1>1, <1>2 DEF Grow, ExpressionInvariant
    <2>2. depth' \in 1..MaxDepth
        BY <2>1, DepthBound
    <2>3. ASSUME NEW k \in depth'..MaxDepth
          PROVE  Sound(k, tree') /\ tree' # Leaf(".5")
        <3>1. k \in 1..MaxDepth /\ k - 1 \in depth..MaxDepth
            BY <2>1, DepthBound
        <3>2. Sound(k - 1, tree) /\ tree # Leaf(".5")
            BY <1>1, <3>1 DEF ExpressionInvariant
        <3>3. QED
            BY <2>1, <3>1, <3>2, GrownSound
    <2>4. depth' \in depth'..MaxDepth /\ depth' \in 0..MaxDepth
        BY <2>2, DepthBound
    <2>5. QED
        BY <2>3, <2>4 DEF ExpressionInvariant
<1>3. CASE UNCHANGED expressionVars
    <2>1. depth' = depth /\ tree' = tree
        BY <1>3 DEF expressionVars
    <2>2. QED
        BY <1>1, <2>1, Zenon DEF ExpressionInvariant
<1>4. QED
    BY <1>1, <1>2, <1>3

LEMMA ExpressionIsParsed == ExpressionInvariant => ParsesAsWritten
<1>1. SUFFICES ASSUME ExpressionInvariant PROVE ParsesAsWritten
    OBVIOUS
<1>2. MaxDepth \in depth..MaxDepth
    BY <1>1, DepthBound DEF ExpressionInvariant
<1>3. Sound(MaxDepth, tree)
    BY <1>1, <1>2 DEF ExpressionInvariant
<1>4. QED
    BY <1>3, SaidIsRead DEF ParsesAsWritten

\* What is written is read back: for every expression that grows to a depth,
\* tokenize and parseExpression give the node that was written.
THEOREM ExpressionParses == ExpressionSpec => []ParsesAsWritten
BY ExpressionInitInv, ExpressionNextInv, ExpressionIsParsed, PTL DEF ExpressionSpec

=============================================================================
