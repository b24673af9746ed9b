--------------------------- MODULE WidgetRenderer ---------------------------
(***************************************************************************)
(* How the widgets of a card are drawn from the data of its source:        *)
(* ui-react/src/components/widgets/WidgetRenderer.tsx, with                *)
(* shared/widgetParamResolver.ts and evaluateTemplate of lib/utils.ts,     *)
(* against what the author of the widgets wrote.                           *)
(*                                                                         *)
(* A text is a sequence of tokens; a token with braces is an expression,   *)
(* and names what it stands for.  TextBlock and Progress stand for all     *)
(* elements: one takes every text or number, one only some.  Left out: the *)
(* evaluation of expressions, styles, the parameters of a List but those   *)
(* below (every item has the field it is sorted by), ActionSet, which is   *)
(* drawn as Container is.                                                  *)
(***************************************************************************)
EXTENDS Naturals, Sequences, SequencesExt

CONSTANT MaxWraps       \* bound: widgets around an element

ASSUME WrapsBound == MaxWraps \in Nat

VARIABLES
    widget,         \* of the card
    given,          \* the data of the source
    currentPage,    \* of the outermost list
    wraps           \* number of widgets around the element

widgetVars == <<widget, given, currentPage, wraps>>

-----------------------------------------------------------------------------
(***************************************************************************)
(* Values and expressions                                                  *)
(***************************************************************************)
Value(kind, tokens, items) == [kind |-> kind, tokens |-> tokens, items |-> items]
Words(tokens) == Value("text", tokens, <<>>)
Number(n) == Value("number", <<n>>, <<>>)
Null == Value("null", <<>>, <<>>)
Undefined == Value("undefined", <<>>, <<>>)

Expressions == {"{a}", "{rows}", "{item}", "{row}"}

HasTemplateSyntax(value) ==
    /\ value.kind = "text"
    /\ \E k \in DOMAIN value.tokens : value.tokens[k] \in Expressions \cup {"\\{a\\}"}

\* What data has for each expression.  An array has items, each with a value, a
\* rank and what the filter says of it; there are no arrays in arrays.
Tokens == Expressions \cup {"\\{a\\}", "word", "50", "150"}
Kinds == {"text", "number", "null", "undefined", "array"}
ItemValues == [kind : Kinds, tokens : Seq(Tokens), items : {<<>>}]
RowItems == [value : ItemValues, rank : Nat, kept : {"yes", "no", "throws"}]
Values == [kind : Kinds, tokens : Seq(Tokens), items : Seq(RowItems)]
Data == [Expressions -> Values]

\* What a token becomes inside a text
Interpolated(token, data) ==
    CASE token \in Expressions -> data[token].tokens
      [] token = "\\{a\\}" -> <<"{a}">>
      [] OTHER -> <<token>>

\* evaluateTemplate: an expression alone keeps the type of its value.
EvaluateTemplate(value, data) ==
    IF Len(value.tokens) = 1 /\ value.tokens[1] \in Expressions
    THEN LET found == data[value.tokens[1]] IN IF found = Undefined THEN Words(<<>>) ELSE found
    ELSE Words(FoldLeft(LAMBDA text, token : text \o Interpolated(token, data), <<>>, value.tokens))

Resolved(value, data) ==
    IF HasTemplateSyntax(value) THEN EvaluateTemplate(value, data) ELSE value

-----------------------------------------------------------------------------
(***************************************************************************)
(* Widgets.  items are the items of a Container, the columns of a          *)
(* ColumnSet, or what a List renders for each item, whose alias it has.    *)
(*                                                                         *)
(* What recurs on widgets is a function for widgets with n others inside   *)
(* one another at most, made of the function for those inside.             *)
(***************************************************************************)
Nesting == 2 * MaxWraps     \* a ColumnSet adds two

WidgetTypes == {"TextBlock", "Progress", "Container", "ColumnSet", "Column", "List"}
Aliases == {"{item}", "{row}"}

Holding(inside) == [type : WidgetTypes, param : Values, items : Seq(inside), alias : Aliases]
Nested[n \in 0..Nesting] == Holding(IF n = 0 THEN {} ELSE Nested[n - 1])

Widget(type, param, items, alias) ==
    [type |-> type, param |-> param, items |-> items, alias |-> alias]
Element(type, tokens) == Widget(type, Words(tokens), <<>>, "{item}")
Lists(w) == w.type = "List"

\* Mutant of ResolveLevel: what a List renders is resolved with it.
ResolveLevel_Render(n, inside) ==
    [w \in Nested[n] |-> [data \in Data |->
        [w EXCEPT !.param = Resolved(@, data),
                  !.items = [k \in DOMAIN @ |-> inside[@[k]][data]]]]]

\* resolveWidgetParams
ResolveLevel(n, inside) ==
    [w \in Nested[n] |-> [data \in Data |->
        [w EXCEPT !.param = Resolved(@, data),
                  !.items = IF Lists(w) THEN @ ELSE [k \in DOMAIN @ |-> inside[@[k]][data]]]]]
Resolving[n \in 0..Nesting] == ResolveLevel(n, IF n = 0 THEN {} ELSE Resolving[n - 1])
ResolveWidgetParams(n, w, data) == Resolving[n][w][data]

\* TextBlockSchema
TakesText(value) == value.kind \in {"text", "number"}

\* ProgressSchema: z.coerce makes a number of a text, and 0 of no text.
TakesPercentage(value) == value.tokens \in {<<>>, <<"50">>}

\* ListSchema
TakesItems(value) == value.kind = "array"

Takes(type, value) ==
    CASE type = "TextBlock" -> TakesText(value)
      [] type = "Progress" -> TakesPercentage(value)
      [] type = "List" -> TakesItems(value)
      [] OTHER -> TRUE

\* What RuntimeWidgetSchema looks at: not at what a List renders
CheckLevel(n, inside) ==
    [w \in Nested[n] |->
        {[type |-> w.type, param |-> w.param]}
        \cup IF Lists(w) THEN {} ELSE UNION {inside[w.items[k]] : k \in DOMAIN w.items}]
Checked[n \in 0..Nesting] == CheckLevel(n, IF n = 0 THEN {} ELSE Checked[n - 1])

Valid(n, w) == \A part \in Checked[n][w] : Takes(part.type, part.param)
HasList(n, w) == \E part \in Checked[n][w] : Lists(part)

-----------------------------------------------------------------------------
(***************************************************************************)
(* Lists.  A filter that throws keeps every item.                          *)
(***************************************************************************)
Item(value, rank, kept) == [value |-> value, rank |-> rank, kept |-> kept]
PageSize == 1
Limit == 2

\* slice, from and to counted from 1
Slice(s, from, to) == SubSeq(s, from, IF to < Len(s) THEN to ELSE Len(s))

\* processedData
Processed(source) ==
    LET fails == \E k \in DOMAIN source : source[k].kept = "throws"
        kept == {k \in DOMAIN source : fails \/ source[k].kept = "yes"}
        Before(i, j) == source[i].rank < source[j].rank
                        \/ (source[i].rank = source[j].rank /\ i < j)
        order == CHOOSE places \in [1..Cardinality(kept) -> kept] :
                    \A i, j \in 1..Cardinality(kept) : i < j => Before(places[i], places[j])
    IN  Slice([k \in 1..Cardinality(kept) |-> source[order[k]]], 1, Limit)

TotalPages(source) ==
    LET pages == (Len(Processed(source)) + PageSize - 1) \div PageSize IN
    IF pages < 1 THEN 1 ELSE pages

PageData(source, page) ==
    Slice(Processed(source), (page - 1) * PageSize + 1, page * PageSize)

\* itemData
ItemData(data, alias, item) == [data EXCEPT ![alias] = item.value]

-----------------------------------------------------------------------------
(***************************************************************************)
(* What is on the screen                                                   *)
(***************************************************************************)
Drawn(type, param, items) == [type |-> type, param |-> param, items |-> items]
Invalid(type) == Drawn("Invalid widget configuration", Words(<<type>>), <<>>)
EmptyState == Drawn("No items", Null, <<>>)

\* What a WidgetRenderer is given
Given(widgets) == [widget : widgets, data : Data, page : Nat \ {0}, skip : BOOLEAN]
ToRender(w, data, page, skip) == [widget |-> w, data |-> data, page |-> page, skip |-> skip]

\* ListWidgetRenderer, on the given page; a nested list is on its first.
RenderList(w, data, page, inside) ==
    LET shown == PageData(w.param.items, page)
        Row(item) == [k \in DOMAIN w.items |->
                         inside[ToRender(w.items[k], ItemData(data, w.alias, item), 1, FALSE)]]
    IN  IF Processed(w.param.items) = <<>> THEN EmptyState
        ELSE Drawn("List", Null, [k \in DOMAIN shown |-> Drawn("Item", Null, Row(shown[k]))])

\* WidgetRendererImpl
RenderImpl(n, w, data, page, skip, inside) ==
    LET evaluated == IF skip THEN w ELSE ResolveWidgetParams(n, w, data)
        Children == [k \in DOMAIN evaluated.items |->
                        inside[ToRender(evaluated.items[k], data, page, TRUE)]]
    IN  IF ~Valid(n, evaluated) THEN Invalid(w.type)
        ELSE IF Lists(w) THEN RenderList(evaluated, data, page, inside)
        ELSE Drawn(w.type, evaluated.param, Children)
RenderLevel(n, inside) ==
    [props \in Given(Nested[n]) |->
        RenderImpl(n, props.widget, props.data, props.page, props.skip, inside)]
Rendering[n \in 0..Nesting] == RenderLevel(n, IF n = 0 THEN {} ELSE Rendering[n - 1])
Rendered == Rendering[Nesting]

-----------------------------------------------------------------------------
(***************************************************************************)
(* What was written: every expression stands for a value of the data, or   *)
(* of the item of a list around it, and what a value is made of is text.   *)
(***************************************************************************)
\* An element outside the lists in w does not take its value.
Breaks(n, w, data) == \E part \in Checked[n][w] : ~Takes(part.type, Resolved(part.param, data))

\* What w means where it is read, from what the widgets inside it mean
MeaningOf(n, w, data, page, inside) ==
    LET value == Resolved(w.param, data)
        shown == PageData(value.items, page)
        Inside(data_, page_) ==
            [k \in DOMAIN w.items |-> inside[ToRender(w.items[k], data_, page_, FALSE)]]
    IN  IF Breaks(n, w, data) THEN Invalid(w.type)
        ELSE IF ~Lists(w) THEN Drawn(w.type, value, Inside(data, page))
        ELSE IF Processed(value.items) = <<>> THEN EmptyState
        ELSE Drawn("List", Null,
                   [k \in DOMAIN shown |->
                       Drawn("Item", Null, Inside(ItemData(data, w.alias, shown[k]), 1))])
MeansLevel(n, inside) ==
    [props \in Given(Nested[n]) |->
        MeaningOf(n, props.widget, props.data, props.page, inside)]
Meaning[n \in 0..Nesting] == MeansLevel(n, IF n = 0 THEN {} ELSE Meaning[n - 1])
Meant == Meaning[Nesting]

-----------------------------------------------------------------------------
Elements ==
    {Element("TextBlock", text) : text \in
        {<<"word">>, <<"{a}">>, <<"{item}">>, <<"{row}">>, <<"\\{a\\}">>, <<"word", "{item}">>}}
    \cup {Element("Progress", <<name>>) : name \in {"{a}", "{item}"}}

\* A widget around w
Around(w) ==
    {Widget("Container", Null, items, "{item}") :
        items \in {<<w>>, <<Element("TextBlock", <<"{a}">>), w>>}}
    \cup {Widget("ColumnSet", Null, <<Widget("Column", Null, <<w>>, "{item}")>>, "{item}")}
    \cup {Widget("List", Words(<<"{rows}">>), <<w>>, alias) : alias \in Aliases}

\* The items of "{rows}"
ListRows(data) == data["{rows}"].items

Stored(a, rows) ==
    [name \in Expressions |->
        CASE name = "{a}" -> a [] name = "{rows}" -> rows [] OTHER -> Undefined]

\* What a flow may have stored: values may look like expressions, be null, be
\* out of range; there may be no rows.
ArrayOf(items) == Value("array", <<>>, items)
BigFirst == Item(Number("150"), 2, "yes")
BraceNext == Item(Words(<<"{a}">>), 1, "yes")
HalfLeft == Item(Number("50"), 1, "no")
BraceThrows == Item(Words(<<"{a}">>), 1, "throws")
SourceTexts == {Words(<<"{item}">>), Null, Number("150")}
SourceArrays == {ArrayOf(<<>>), ArrayOf(<<BigFirst, BraceNext, HalfLeft>>), ArrayOf(<<BraceThrows>>)}
Sources == {Stored(a, rows) : a \in SourceTexts, rows \in SourceArrays \cup {Undefined}}

NullGiven == Stored(Null, Undefined)

WidgetsInit ==
    /\ widget \in Elements
    /\ given \in Sources
    /\ currentPage = 1
    /\ wraps = 0

\* The author puts the widget into another one: a new card.
Wrap ==
    /\ wraps < MaxWraps
    /\ wraps' = wraps + 1
    /\ widget' \in Around(widget)
    /\ currentPage' = 1
    /\ UNCHANGED given

\* A list is on the screen: without it, no page is kept.
Mounted(data) ==
    HasList(Nesting, widget) /\ Valid(Nesting, ResolveWidgetParams(Nesting, widget, data))
Pages(data) == IF Mounted(data) THEN TotalPages(ListRows(data)) ELSE 1

\* The effect of ListWidgetRenderer on totalPages, which runs after it has drawn
Clamped(page, data) == IF page > Pages(data) THEN Pages(data) ELSE page

\* The source has other data.
Refresh ==
    /\ given' \in Sources \ {given}
    /\ currentPage' = Clamped(currentPage, given')
    /\ UNCHANGED <<widget, wraps>>

\* The buttons for the next and the previous page
Turn ==
    /\ currentPage' \in {currentPage - 1, currentPage + 1} \cap (1..Pages(given))
    /\ UNCHANGED <<widget, given, wraps>>

WidgetsNext == Wrap \/ Refresh \/ Turn

WidgetsSpec == WidgetsInit /\ [][WidgetsNext]_widgetVars

-----------------------------------------------------------------------------
WidgetsTypeOK ==
    /\ given \in Sources
    /\ wraps \in 0..MaxWraps
    /\ currentPage \in 1..Limit

\* Every text is what its author meant: an expression is evaluated once, in
\* the scope of the lists around it, and text that comes from the data or was
\* escaped is never taken for an expression, however layouts and lists nest.
\* A widget that cannot be drawn takes the layouts around it along, up to the
\* item of a list, and no other item.  The page that is shown of a list is
\* never blank while the list has items.
CardShowsData ==
    /\ LET card == ToRender(widget, given, currentPage, FALSE) IN Rendered[card] = Meant[card]
    /\ Processed(ListRows(given)) # <<>> => PageData(ListRows(given), currentPage) # <<>>

=============================================================================
