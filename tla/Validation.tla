----------------------------- MODULE Validation -----------------------------
(***************************************************************************)
(* Three readings of the user's Portfolio sheet:                           *)
(*                                                                         *)
(*   validate_portfolio      services/validation_service.py ('validate')   *)
(*   get_portfolio           services/portfolio_service.py, USD part       *)
(*   _fetch_holdings_index   services/portfolio_service.py ('top', symbol) *)
(*                                                                         *)
(* The first two go through fetch_portfolio_rows of                        *)
(* repositories/portfolio_repository.py.  Each parses the cells in its own *)
(* way, so a cell is known by how it parses:                               *)
(*                                                                         *)
(*   "positive" "zero" "negative"   a plain number                         *)
(*   "sign"       a positive number with a currency sign                   *)
(*   "nan" "infinite"   what Decimal and float read as such                *)
(*   "word"       anything else, for example #N/A                          *)
(*   "blank"                                                               *)
(*                                                                         *)
(* Commands composes this with the other sheets and has the commands that  *)
(* use the second and the third.                                           *)
(*                                                                         *)
(* A row is the record of its cells, with the number of columns up to the  *)
(* last one that is filled (the Sheets API returns no more).  Rows that a  *)
(* reading keeps are a function on their places in the sheet.              *)
(***************************************************************************)
EXTENDS Naturals, Sequences, SequencesExt, FiniteSetsExt

CONSTANTS
    RawRows,    \* rows the sheet may hold from row 2 on
    MaxRows,    \* bound: their number
    Symbols,    \* symbols, other than ""
    Folded,     \* casefold: Symbols to a common spelling
    Tickers     \* symbols of the usual format

ASSUME ValidationConstants ==
    /\ MaxRows \in Nat
    /\ \A r \in RawRows : r.columns \in Nat
    /\ Symbols \subseteq DOMAIN Folded
    /\ Tickers \subseteq Symbols

VARIABLES
    sheet,      \* the rows from row 2 on
    report      \* the last ValidationSummary, or why there is none

sheetVars == <<sheet, report>>

Fields == {"avg_cost", "shares", "current_price"}

----------------------------------------------------------------------------
(* fetch_portfolio_rows, lines 113-131. *)

IsBlank(r) == r.columns = 0
IsHeader(r) == r.columns > 0 /\ r.symbol = "symbol"
IsShort(r) == r.columns \in 1 .. 3 /\ ~IsHeader(r)
IsWide(r) == r.columns >= 4
IsComplete(r) == r.columns >= 4 /\ ~IsHeader(r)

CompleteRows(s) == RestrictValues(s, IsComplete)
SheetRowTwice(i) == i + 3
SheetRow(i) == i + 1
ShortRowsIn(s) == {SheetRow(i) : i \in {j \in DOMAIN s : IsShort(s[j])}}

----------------------------------------------------------------------------
(* validate_portfolio *)

(* Lines 131-184: what is wrong with a complete row.  A symbol is wrong if *)
(* it is empty or of an unusual format.                                    *)
FieldIssues(r) ==
    (IF r.symbol \in Tickers THEN {} ELSE {"symbol"})
        \cup {f \in Fields : r[f] \notin {"positive", "infinite"}}

(* Line 203: a comparison with NaN raises InvalidOperation, which nobody   *)
(* up to the router catches.                                               *)
Raises(rows) == \E i \in DOMAIN rows, f \in Fields : rows[i][f] = "nan"

Issue(row, kind, symbol) == [row |-> row, kind |-> kind, symbol |-> symbol]

(* Line 59: the number of a row in the report counts complete rows only. *)
UpTo(rows, i) == {j \in DOMAIN rows : j <= i}
ReportedRowZeroBased(rows, i) == Cardinality(UpTo(rows, i))
ReportedRow(rows, i) == Cardinality(UpTo(rows, i)) + 1

ShortIssues(s) == {Issue(n, "short", "UNKNOWN") : n \in ShortRowsIn(s)}

RowIssues(rows) ==
    UNION {{Issue(ReportedRow(rows, i), kind, rows[i].symbol) :
                kind \in FieldIssues(rows[i])} : i \in DOMAIN rows}

(* Lines 53-101: symbols that complete rows share but for case. *)
DuplicateKeysByCase(rows) ==
    {key \in Range(Folded) :
        \E i, j \in DOMAIN rows :
            /\ i # j
            /\ rows[i].symbol = key /\ rows[j].symbol = key}
DuplicateKeys(rows) ==
    {key \in Range(Folded) :
        \E i, j \in DOMAIN rows :
            /\ i # j
            /\ {rows[i].symbol, rows[j].symbol} \subseteq Symbols
            /\ Folded[rows[i].symbol] = key /\ Folded[rows[j].symbol] = key}
DuplicateIssuesDropped(rows) == {iss \in RowIssues(rows) : iss.row = 0}
DuplicateIssues(rows) == {Issue(0, "duplicate", key) : key \in DuplicateKeys(rows)}

Summary(s) ==
    LET rows == CompleteRows(s)
        short == Cardinality(ShortRowsIn(s))
        complete == Cardinality(DOMAIN rows)
        bad == Cardinality({i \in DOMAIN rows : FieldIssues(rows[i]) # {}})
    IN  [total   |-> short + complete,
         valid   |-> complete - bad,
         invalid |-> short + bad + Cardinality(DuplicateKeys(rows)),
         issues  |-> ShortIssues(s) \cup RowIssues(rows) \cup DuplicateIssues(rows)]

IsValid(summary) == summary.invalid = 0

(* Lines 109-123. *)
Unreadable ==
    [total |-> 0, valid |-> 0, invalid |-> 1,
     issues |-> {Issue(0, "system", "SYSTEM")}]

----------------------------------------------------------------------------
(* Lines 229-253 of get_portfolio: a row that does not parse, or has a     *)
(* negative value, is left out.  A blank symbol is not.                    *)
Listed(r) == \A f \in Fields : r[f] \in {"positive", "zero"}
PositionsOf(s) == Cardinality(DOMAIN RestrictValues(CompleteRows(s), Listed))

(* Lines 342-396: the sheet is read under its header; cells that are       *)
(* blank or missing count as zero, signs are dropped, and of two rows with *)
(* one symbol the last one is kept.                                        *)
Indexed(r) ==
    /\ r.symbol \in Symbols
    /\ r.columns >= 4
    /\ r.shares \in {"positive", "sign", "nan", "infinite"}
    /\ r.current_price \in {"positive", "sign", "nan", "infinite"}
HoldingsIndexOf(s) ==
    LET rows == RestrictValues(s, Indexed)
    IN  {Folded[rows[i].symbol] : i \in DOMAIN rows}

----------------------------------------------------------------------------
SheetInit(sheets) ==
    /\ sheet \in sheets
    /\ report = [how |-> "none"]

Validate ==
    /\ report' = IF Raises(CompleteRows(sheet)) THEN [how |-> "raised"]
                 ELSE [how |-> "answered", summary |-> Summary(sheet)]
    /\ UNCHANGED sheet

ValidateUnread ==
    /\ report' = [how |-> "answered", summary |-> Unreadable]
    /\ UNCHANGED sheet

----------------------------------------------------------------------------
Kinds == Fields \cup {"short", "symbol", "duplicate", "system"}

(* A report counts no more valid rows than it has looked at, and is the    *)
(* report of some rows or of a failed read.                                *)
SheetTypeOK ==
    /\ sheet \in Seq(RawRows) /\ Len(sheet) <= MaxRows
    /\ report.how \in {"none", "raised", "answered"}
    /\ report.how = "answered" =>
        /\ report.summary.total \in 0 .. MaxRows
        /\ report.summary.valid \in 0 .. report.summary.total
        /\ report.summary.invalid \in Nat
        /\ \A iss \in report.summary.issues :
            iss.row \in 0 .. MaxRows + 1 /\ iss.kind \in Kinds

Answered == report.how = "answered" /\ report.summary # Unreadable

(* Every row with content is counted once as valid or invalid, and each    *)
(* duplicated symbol once more as invalid.                                 *)
RowsAccounted ==
    Answered =>
        LET content == {i \in DOMAIN sheet : ~IsBlank(sheet[i]) /\ ~IsHeader(sheet[i])}
            duplicates == {iss \in report.summary.issues : iss.kind = "duplicate"}
        IN  /\ report.summary.total = Cardinality(content)
            /\ report.summary.valid + report.summary.invalid
               = report.summary.total + Cardinality(duplicates)

(* A report is valid exactly when it has nothing to report. *)
ValidMeansNoIssue ==
    report.how = "answered" =>
        (IsValid(report.summary) <=> report.summary.issues = {})

(* The sheet row that an issue names has that issue. *)
Explained(iss) ==
    \/ iss.row = 0
    \/ /\ iss.row - 1 \in DOMAIN sheet
       /\ LET r == sheet[iss.row - 1]
          IN  \/ iss.kind = "short" /\ IsShort(r)
              \/ IsComplete(r) /\ iss.kind \in FieldIssues(r)

(* As long as the sheet holds nothing but complete rows, every issue names *)
(* the row it is about.                                                    *)
RowNumbersRightInFullSheet ==
    Answered /\ (\A i \in DOMAIN sheet : IsComplete(sheet[i]))
        => \A iss \in report.summary.issues : Explained(iss)

----------------------------------------------------------------------------
(* repositories/portfolio_repository.py:112: "Range is "Portfolio!A2:D",   *)
(* so raw_data[0] is sheet row 2", and the report shows the user the row   *)
(* of every issue.  Each issue names the row it is about.                  *)
RowNumbersRight ==
    Answered => \A iss \in report.summary.issues : Explained(iss)
=============================================================================
