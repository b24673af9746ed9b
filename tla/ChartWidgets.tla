---------------------------- MODULE ChartWidgets ----------------------------
(***************************************************************************)
(* The charts of a card, ui-react/src/components/widgets/charts and        *)
(* shared/chart*.ts: which state a chart is in, and what it hands to       *)
(* recharts, which is external.                                            *)
(*                                                                         *)
(* Chart.Bar and Chart.Area are drawn from the same rows as Chart.Line.    *)
(* Cells are a few classes of values; a word is no date and no number.     *)
(* Left out: colors, legends, formats, and numbers that are not finite.    *)
(***************************************************************************)
EXTENDS Naturals, Sequences, SequencesExt

CONSTANT MaxRows        \* bound: rows of the data

ASSUME RowsBound == MaxRows \in Nat

VARIABLES
    chart,      \* the widget: type, encoding, declared fields
    dataset     \* its rows

chartVars == <<chart, dataset>>

-----------------------------------------------------------------------------
(***************************************************************************)
(* Cells.  A name with # is a number, one with quotes a text.              *)
(***************************************************************************)
Numbers == {"#1", "#2"}
NumberTexts == {"'2'"}
Dates == {"'2024-05-01'"}
NoCell == {"null", "undefined"}

Cell(row, field) == IF field \in DOMAIN row THEN row[field] ELSE "undefined"

\* isNumericLike
NumericLike(cell) == cell \in Numbers \cup NumberTexts

\* coerceNumericValue
CoerceNumeric(cell) ==
    CASE cell \in Numbers -> cell
      [] cell = "'2'" -> "#2"
      [] OTHER -> "null"

\* As a text: what a key of an object, or of a map, is made of
KeyOf(cell) ==
    CASE cell \in NoCell -> ""
      [] cell = "#1" -> "1"
      [] cell \in {"#2", "'2'"} -> "2"
      [] cell = "'x'" -> "x"
      [] OTHER -> cell

-----------------------------------------------------------------------------
(***************************************************************************)
(* Fields and their types                                                  *)
(***************************************************************************)
\* Mutant of InferFieldType: one number is enough.
InferFieldType_Some(cells) ==
    LET values == cells \ NoCell IN
    CASE values = {} -> ""
      [] values # {} /\ \E cell \in values : NumericLike(cell) -> "number"
      [] values # {} /\ values \subseteq Dates -> "datetime"
      [] OTHER -> "string"

\* inferFieldType
InferFieldType(cells) ==
    LET values == cells \ NoCell IN
    CASE values = {} -> ""
      [] values # {} /\ \A cell \in values : NumericLike(cell) -> "number"
      [] values # {} /\ values \subseteq Dates -> "datetime"
      [] OTHER -> "string"

\* deriveSqlFieldsFromRows
DeriveFields(rows) ==
    [name \in UNION {DOMAIN rows[k] : k \in DOMAIN rows} |->
        InferFieldType({Cell(rows[k], name) : k \in DOMAIN rows})]

\* normalizeMetadataFieldType, of the types that a driver may report here
NormalizeType(type) ==
    CASE type = "int" -> "integer"
      [] type = "timestamp" -> "datetime"
      [] type = "varchar" -> "string"
      [] OTHER -> "unknown"

\* parseChartFieldsSource
ParseFields(declared) == [name \in DOMAIN declared |-> NormalizeType(declared[name])]

\* resolveChartFieldsSource
ResolveFields(declared, rows) ==
    IF DOMAIN declared # {} THEN ParseFields(declared) ELSE DeriveFields(rows)

\* requiredChannelsFor
Required(type) ==
    CASE type = "Chart.Line" -> {"x", "y"}
      [] type = "Chart.Pie" -> {"label", "value"}
      [] OTHER -> {}

\* channelAllowsType
ChannelAllows(channel, type) ==
    IF channel \in {"y", "value"} THEN type \in {"integer", "number"}
    ELSE type \in {"datetime", "string"}

\* validateChartEncoding: whether there is no error
Validated(type, encoding, columns, fields) ==
    /\ Required(type) \subseteq DOMAIN encoding
    /\ \/ type = "Chart.Table" /\ DOMAIN fields = {}
       \/ /\ \A channel \in DOMAIN encoding :
                /\ encoding[channel] \in DOMAIN fields
                /\ ChannelAllows(channel, fields[encoding[channel]])
          /\ columns \subseteq DOMAIN fields

\* classifyChartState, as the charts call it
ChartState(rows, validated) ==
    CASE rows = <<>> -> "empty"
      [] rows # <<>> /\ ~validated -> "config_error"
      [] OTHER -> "ready"

-----------------------------------------------------------------------------
(***************************************************************************)
(* What is handed to recharts                                              *)
(***************************************************************************)
\* uniqueSeriesValues
SeriesValues(rows, field) == {KeyOf(Cell(rows[k], field)) : k \in DOMAIN rows} \ {""}

\* One row of the reduction in renderCartesianSeries, whose map has one bucket
\* for each value of x
Pivoted(buckets, row, encoding, series) ==
    LET key == KeyOf(Cell(row, encoding["x"]))
        fresh == [column \in series \cup {encoding["x"]} |->
                     IF column \in series THEN "null" ELSE Cell(row, encoding["x"])]
        existing == IF key \in DOMAIN buckets THEN buckets[key] ELSE fresh
        value == KeyOf(Cell(row, encoding["series"]))
        bucket == IF value = "" THEN existing
                  ELSE [existing EXCEPT ![value] = CoerceNumeric(Cell(row, encoding["y"]))]
    IN  [k \in DOMAIN buckets \cup {key} |-> IF k = key THEN bucket ELSE buckets[k]]

\* chartData of renderCartesianSeries
NoBuckets == [key \in {} |-> {}]
Buckets(rows, encoding, series) ==
    FoldLeft(LAMBDA acc, row : Pivoted(acc, row, encoding, series), NoBuckets, rows)

\* The points that its lines draw
Points(rows, encoding) ==
    LET series == IF "series" \in DOMAIN encoding THEN SeriesValues(rows, encoding["series"]) ELSE {}
        buckets == Buckets(rows, encoding, series)
        Drawable(points) == {p \in points : p.value # "null"}
    IN  IF series = {}
        THEN Drawable({[x |-> KeyOf(Cell(rows[k], encoding["x"])), series |-> encoding["y"],
                        value |-> CoerceNumeric(Cell(rows[k], encoding["y"]))] : k \in DOMAIN rows})
        ELSE Drawable(UNION {{[x |-> KeyOf(buckets[key][encoding["x"]]), series |-> s,
                               value |-> buckets[key][s]] : s \in series} : key \in DOMAIN buckets})

\* compareTableValues, for the cells of this model: none, numbers, texts that
\* JavaScript takes for dates ("2" among them), and words
Ordered == <<NoCell, {"#1"}, {"#2"}, {"'2'"}, Dates, {"'east'"}, {"'x'"}>>
CompareRank(cell) == CHOOSE k \in DOMAIN Ordered : cell \in Ordered[k]

\* getProcessedRows: a stable sort, and the first rows of it
ProcessedRows(rows, sort_by, limit) ==
    LET Rank(k) == CompareRank(Cell(rows[k], sort_by))
        Before(i, j) == Rank(i) < Rank(j) \/ (Rank(i) = Rank(j) /\ i < j)
        order == CHOOSE places \in [DOMAIN rows -> DOMAIN rows] :
                    \A i, j \in DOMAIN rows : i < j => Before(places[i], places[j])
    IN  [k \in 1..Min({limit, Len(rows)}) |-> rows[order[k]]]

-----------------------------------------------------------------------------
(***************************************************************************)
(* What a chart shows                                                      *)
(***************************************************************************)
StateOf(w, rows) ==
    ChartState(rows, Validated(w.type, w.encoding, w.columns, ResolveFields(w.declared, rows)))

\* ChartLine: the rows are drawn when the chart is ready.
LineShows(w, rows) == IF StateOf(w, rows) = "ready" THEN Points(rows, w.encoding) ELSE {}

\* ChartPie: values are given to recharts as they are.
PieShows(w, rows) ==
    IF StateOf(w, rows) = "ready"
    THEN {Cell(rows[k], w.encoding["value"]) : k \in DOMAIN rows} \ NoCell
    ELSE {}

\* ChartTable
TableShows(w, rows) ==
    IF StateOf(w, rows) = "ready" THEN ProcessedRows(rows, "y", w.limit) ELSE <<>>

-----------------------------------------------------------------------------
Chart(type, encoding, columns, declared) ==
    [type |-> type, encoding |-> encoding, columns |-> columns, declared |-> declared, limit |-> 1]
Undeclared == [name \in {} |-> ""]
NoEncoding == [channel \in {} |-> ""]
PlainTable == Chart("Chart.Table", NoEncoding, {"x", "y"}, Undeclared)

Charts ==
    LET Declared(y) == [name \in {"x", "y", "s"} |->
                           CASE name = "x" -> "timestamp" [] name = "y" -> y [] OTHER -> "varchar"]
        XY(y) == [channel \in {"x", "y"} |-> IF channel = "x" THEN "x" ELSE y]
        Series == [channel \in {"x", "y", "series"} |-> IF channel = "series" THEN "s" ELSE channel]
        Pie == [channel \in {"label", "value"} |-> IF channel = "label" THEN "x" ELSE "y"]
        Declarations == {Undeclared, Declared("int"), Declared("money")}
    IN  {Chart("Chart.Line", encoding, {}, declared) :
            encoding \in {XY("y"), XY("z"), Series}, declared \in Declarations}
        \cup {Chart("Chart.Pie", Pie, {}, declared) : declared \in Declarations}
        \cup {Chart("Chart.Table", NoEncoding, columns, declared) :
                  columns \in {{"x", "y"}, {"z"}}, declared \in Declarations}

\* A row of a query; its series may be missing, or have the name of a field.
QueryRows ==
    LET Row(x, y, s) == [name \in {"x", "y", "s"} |->
                            CASE name = "x" -> x [] name = "y" -> y [] OTHER -> s]
        Short(x, y) == [name \in {"x", "y"} |-> IF name = "x" THEN x ELSE y]
        Xs == {"'2024-05-01'", "'east'", "null"}
        Ys == {"#1", "'2'", "'x'", "null"}
    IN  {Row(x, y, s) : x \in Xs, y \in Ys, s \in {"'east'", "'x'", "null"}}
        \cup {Short(x, y) : x \in Xs, y \in Ys}

ChartsInit ==
    /\ chart \in Charts
    /\ dataset = <<>>

\* The source has one row more.
AddRow ==
    /\ Len(dataset) < MaxRows
    /\ \E row \in QueryRows : dataset' = Append(dataset, row)
    /\ UNCHANGED chart

ChartsSpec == ChartsInit /\ [][AddRow]_chartVars

-----------------------------------------------------------------------------
ChartsTypeOK ==
    /\ chart \in Charts
    /\ Len(dataset) <= MaxRows
    /\ \A k \in DOMAIN dataset : dataset[k] \in QueryRows

\* Where a row is drawn.  Rows of a series share a place, others do not.
Place(row) ==
    [x |-> KeyOf(Cell(row, "x")),
     series |-> IF "series" \in DOMAIN chart.encoding THEN KeyOf(Cell(row, "s")) ELSE "y"]

LastAtPlace(k) ==
    "series" \in DOMAIN chart.encoding =>
        \A j \in DOMAIN dataset : j > k => Place(dataset[j]) # Place(dataset[k])

\* The rows with a value to draw
Measured == {k \in DOMAIN dataset : Cell(dataset[k], "y") \notin NoCell}

\* A series with the name of the field of x writes over its values.
NamesField == \E k \in DOMAIN dataset : KeyOf(Cell(dataset[k], "s")) = "x"

\* The fields of a chart that is ready were inferred from its rows.
ReadyByRows ==
    chart.declared = Undeclared /\ StateOf(chart, dataset) = "ready"

\* A line chart shows every measurement at its place and as a number, the last
\* one where rows of a series have the same place, and nothing else.
LineShowsRows ==
    LET shown == LineShows(chart, dataset)
        counted == {k \in Measured : Place(dataset[k]).series # "" /\ LastAtPlace(k)}
    IN  (chart.type = "Chart.Line" /\ ReadyByRows /\ ~NamesField)
        => /\ \A k \in counted : \E p \in shown :
                 [x |-> p.x, series |-> p.series] = Place(dataset[k]) /\ p.value \in Numbers
           /\ \A p \in shown : \E k \in counted :
                 /\ Place(dataset[k]) = [x |-> p.x, series |-> p.series]
                 /\ KeyOf(Cell(dataset[k], "y")) = KeyOf(p.value)

\* The parts of a pie stand for numbers.
PieShowsNumbers ==
    (chart.type = "Chart.Pie" /\ ReadyByRows) =>
        \A cell \in PieShows(chart, dataset) : CoerceNumeric(cell) \in Numbers

\* A table that is ready shows, up to its limit, the rows that come first.
TableShowsFirst ==
    (chart.type = "Chart.Table" /\ StateOf(chart, dataset) = "ready") =>
        LET shown == TableShows(chart, dataset) IN
        /\ Len(shown) = Min({chart.limit, Len(dataset)})
        /\ \A k \in DOMAIN dataset, j \in DOMAIN shown :
              CompareRank(Cell(dataset[k], "y")) < CompareRank(Cell(shown[j], "y"))
                => \E i \in DOMAIN shown : shown[i] = dataset[k]

\* What a chart that says it is ready shows is what its rows have.
ChartsShowRows == LineShowsRows /\ PieShowsNumbers /\ TableShowsFirst

=============================================================================
