------------------------------ MODULE DrTotals ------------------------------
(***************************************************************************)
(* The value of a user's depositary receipts (DR), as                      *)
(* services/portfolio_service.py computes it from the tab                  *)
(* 'from Streaming-DR': three reads, one after the other, of two blocks of *)
(* that tab (repositories/portfolio_repository.py), and a merge            *)
(* (compute_dr_totals).  The user may edit the tab between the reads.      *)
(* Commands, which composes this with the other sheets, has the commands   *)
(* that start the reads and take their result.                             *)
(*                                                                         *)
(* A cell that should hold a number is a record: its number, and whether   *)
(* it is "plain", "formatted" (with a currency or percent sign) or "text". *)
(* Prices and volumes are whole numbers of some small units, amounts of    *)
(* money of the product of the two; values and costs are in hundredths of  *)
(* a baht, to which the code rounds them.  Rows that a read keeps are a    *)
(* function on their places in the block.                                  *)
(***************************************************************************)
EXTENDS Decimals, Sequences, SequencesExt, FiniteSetsExt

CONSTANTS
    Normal,     \* _normalize_dr_symbol: raw symbol cells to symbols or ""
    MainRows,   \* rows the main block may hold
    DcaRows,    \* rows the '1 Year DCA' block (section 2) may hold
    MainSize,   \* rows of the main block
    DcaSize,    \* rows of section 2
    SATANG,     \* the amount that makes a hundredth of a baht
    MaxEdits    \* bound: edits of the tab during a read

Cell == [n : Int, how : {"plain", "formatted", "nan", "text"}]

ASSUME DrTotalsConstants ==
    /\ MainSize \in Nat /\ DcaSize \in Nat /\ MaxEdits \in Nat
    /\ SATANG \in Nat \ {0}
    /\ \A r \in MainRows \cup DcaRows : r.symbol \in DOMAIN Normal
    /\ \A r \in MainRows : r.avg \in Cell /\ r.volume \in Cell /\ r.price \in Cell
    /\ \A r \in DcaRows : r.size \in Cell /\ r.avg \in Cell /\ r.price \in Cell

VARIABLES
    tab,        \* the tab exists
    main,       \* its main block
    dca,        \* its section 2
    pc,         \* the next step of the computation
    symbols,    \* what the first read returned
    costs,      \* what the second read returned
    totals,     \* DrTotals, once it is computed
    edits,
    touched     \* symbols of rows that were edited during the reads

drVars == <<tab, main, dca, pc, symbols, costs, totals, edits, touched>>

----------------------------------------------------------------------------
(* What the repository makes of a row. *)

SymbolOf(r) == Normal[r.symbol]

(* _is_positive_number cleans the cell before it parses it. *)
Positive(c) == c.how \in {"plain", "formatted"} /\ c.n > 0

(* Lines 180-185 and 224-229. *)
HeldUnnamed(r) == Positive(r.avg) /\ Positive(r.volume)
Held(r) == SymbolOf(r) # "" /\ Positive(r.avg) /\ Positive(r.volume)

(* Lines 228-231. *)
Costed(r) == Held(r) /\ r.pct # "error"

(* Lines 279-286. *)
Dca(r) ==
    /\ SymbolOf(r) # ""
    /\ Positive(r.size) /\ Positive(r.avg) /\ Positive(r.price)
    /\ r.pct # "error"

Holdings(block) ==
    LET held == RestrictValues(block, Held)
    IN  [i \in DOMAIN held |-> SymbolOf(held[i])]

----------------------------------------------------------------------------
(* compute_dr_totals *)

Zero == [value |-> 0, cost |-> 0, positions |-> 0, skipped |-> 0]
Skipped == [value |-> 0, cost |-> 0, positions |-> 0, skipped |-> 1]
Plus(t, u) ==
    [value |-> t.value + u.value, cost |-> t.cost + u.cost,
     positions |-> t.positions + u.positions, skipped |-> t.skipped + u.skipped]
Sum(parts) ==
    [value |-> SumFunction([x \in DOMAIN parts |-> parts[x].value]),
     cost |-> SumFunction([x \in DOMAIN parts |-> parts[x].cost]),
     positions |-> SumFunction([x \in DOMAIN parts |-> parts[x].positions]),
     skipped |-> SumFunction([x \in DOMAIN parts |-> parts[x].skipped])]

(* Lines 180-192 for a row of the main block: Decimal refuses a cell with  *)
(* a currency sign, which the read has let through.  Each position's value *)
(* and cost are rounded.                                                   *)
MainPosition(r) ==
    IF /\ \A c \in {r.avg, r.volume, r.price} : c.how = "plain"
       /\ r.price.n > 0
    THEN [value |-> Rounded(r.price.n * r.volume.n, SATANG),
          cost |-> Rounded(r.avg.n * r.volume.n, SATANG),
          positions |-> 1, skipped |-> 0]
    ELSE Skipped

(* Lines 140-155 and 187-192: the volume of a row of section 2 is its size *)
(* divided by its average price (taken to be exact; Decimal has 28 digits);*)
(* its cells were cleaned when they were read.                             *)
DcaPosition(r) ==
    [value |-> Rounded(r.price.n * r.size.n, r.avg.n * SATANG),
     cost |-> Rounded(r.size.n, SATANG), positions |-> 1, skipped |-> 0]

SymbolsOf(rows) == {SymbolOf(rows[i]) : i \in DOMAIN rows}
LastOf(rows, s) ==
    rows[Max({i \in DOMAIN rows : SymbolOf(rows[i]) = s})]

(* Lines 134-155: the last row of a symbol counts, section 2 before the    *)
(* main block.                                                             *)
PositionUncounted(s, costRows, dcaRows) ==
    IF s \in SymbolsOf(dcaRows) THEN DcaPosition(LastOf(dcaRows, s))
    ELSE IF s \in SymbolsOf(costRows) THEN MainPosition(LastOf(costRows, s))
    ELSE Zero
Position(s, costRows, dcaRows) ==
    IF s \in SymbolsOf(dcaRows) THEN DcaPosition(LastOf(dcaRows, s))
    ELSE IF s \in SymbolsOf(costRows) THEN MainPosition(LastOf(costRows, s))
    ELSE Skipped

(* Line 188: a comparison with NaN raises InvalidOperation, which none of  *)
(* the callers catches.                                                    *)
MergeRaises(held, costRows, dcaRows) ==
    \E s \in (Range(held) \cap SymbolsOf(costRows)) \ SymbolsOf(dcaRows) :
        LET r == LastOf(costRows, s)
        IN  r.price.how = "nan" /\ r.avg.how = "plain" /\ r.volume.how = "plain"

(* Lines 167-199: every held row of the main block, and every symbol that  *)
(* only section 2 has.                                                     *)
HeldPositions(held, costRows, dcaRows) ==
    [i \in DOMAIN held |-> Position(held[i], costRows, dcaRows)]
OtherPositions(held, costRows, dcaRows) ==
    [s \in SymbolsOf(dcaRows) \ Range(held) |-> Position(s, costRows, dcaRows)]
PositionsByRow(held, costRows) ==
    [i \in DOMAIN held |-> IF i \in DOMAIN costRows THEN MainPosition(costRows[i])
                           ELSE Skipped]
MergeMainOnly(held, costRows, dcaRows) ==
    Sum(HeldPositions(held, costRows, dcaRows))
MergeByRow(held, costRows, dcaRows) ==
    Plus(Sum(PositionsByRow(held, costRows)),
         Sum(OtherPositions(held, costRows, dcaRows)))
Merge(held, costRows, dcaRows) ==
    Plus(Sum(HeldPositions(held, costRows, dcaRows)),
         Sum(OtherPositions(held, costRows, dcaRows)))

----------------------------------------------------------------------------
DrInit(mains, dcas) ==
    /\ tab \in BOOLEAN
    /\ main \in mains
    /\ dca \in dcas
    /\ pc = "idle"
    /\ symbols = <<>> /\ costs = <<>>
    /\ totals = Zero
    /\ edits = 0 /\ touched = {}

(* A command begins its reads, and is done with them. *)
StartReads ==
    /\ pc = "idle"
    /\ pc' = "holdings"
    /\ UNCHANGED <<tab, main, dca, symbols, costs, totals, edits, touched>>

(* Another computation of the totals for the same command. *)
ReadAgain ==
    /\ pc' = "holdings"
    /\ symbols' = <<>> /\ costs' = <<>> /\ totals' = Zero /\ touched' = {}
    /\ UNCHANGED <<tab, main, dca, edits>>

EndReads ==
    /\ pc' = "idle"
    /\ symbols' = <<>> /\ costs' = <<>> /\ totals' = Zero /\ touched' = {}
    /\ UNCHANGED <<tab, main, dca, edits>>

(* fetch_dr_holdings, fetch_dr_cost_rows: a tab that does not exist has no *)
(* rows.                                                                   *)
ReadHoldings ==
    /\ pc = "holdings"
    /\ symbols' = IF tab THEN Holdings(main) ELSE <<>>
    /\ pc' = "costs"
    /\ UNCHANGED <<tab, main, dca, costs, totals, edits, touched>>

ReadCosts ==
    /\ pc = "costs"
    /\ costs' = IF tab THEN RestrictValues(main, Costed) ELSE <<>>
    /\ pc' = "section2"
    /\ UNCHANGED <<tab, main, dca, symbols, totals, edits, touched>>

(* fetch_dr_cost_rows_section2, and the merge. *)
ReadSection2 ==
    /\ pc = "section2"
    /\ LET dcaRows == IF tab THEN RestrictValues(dca, Dca) ELSE <<>>
       IN  IF MergeRaises(symbols, costs, dcaRows)
           THEN pc' = "raised" /\ UNCHANGED totals
           ELSE pc' = "done" /\ totals' = Merge(symbols, costs, dcaRows)
    /\ UNCHANGED <<tab, main, dca, symbols, costs, edits, touched>>

(* Any of the reads raises PortfolioReadError: zero totals (lines 454-456  *)
(* of get_dr_totals).                                                      *)
ReadFails ==
    /\ pc \in {"holdings", "costs", "section2"}
    /\ pc' = "unavailable"
    /\ UNCHANGED <<tab, main, dca, symbols, costs, totals, edits, touched>>

(* The user, before the next read: a row is typed over, or the rows of the *)
(* main block are sorted another way.                                      *)
Edit ==
    /\ tab /\ pc \in {"holdings", "costs", "section2"}
    /\ edits < MaxEdits
    /\ edits' = edits + 1
    /\ \/ \E i \in DOMAIN main, r \in MainRows :
            /\ r # main[i]
            /\ main' = [main EXCEPT ![i] = r]
            /\ touched' = touched \cup {SymbolOf(main[i]), SymbolOf(r)}
            /\ UNCHANGED dca
       \/ \E i \in DOMAIN dca, r \in DcaRows :
            /\ r # dca[i]
            /\ dca' = [dca EXCEPT ![i] = r]
            /\ touched' = touched \cup {SymbolOf(dca[i]), SymbolOf(r)}
            /\ UNCHANGED main
       \/ /\ main' = Reverse(main)
          /\ UNCHANGED <<dca, touched>>
    /\ UNCHANGED <<tab, pc, symbols, costs, totals>>

DrStep == ReadHoldings \/ ReadCosts \/ ReadSection2 \/ ReadFails \/ Edit

----------------------------------------------------------------------------
(* No total is negative, and no position is both counted and skipped more  *)
(* often than there are rows for it.                                       *)
DrTypeOK ==
    /\ tab \in BOOLEAN
    /\ main \in [1 .. MainSize -> MainRows]
    /\ dca \in [1 .. DcaSize -> DcaRows]
    /\ pc \in {"idle", "holdings", "costs", "section2", "done", "raised", "unavailable"}
    /\ Range(symbols) \subseteq Range(Normal) \ {""}
    /\ Range(costs) \subseteq MainRows
    /\ totals.value \in Nat /\ totals.cost \in Nat
    /\ totals.positions + totals.skipped <= MainSize + DcaSize
    /\ edits \in 0 .. MaxEdits
    /\ touched \subseteq Range(Normal)

HeldRows == RestrictValues(main, Held)
DcaValid == RestrictValues(dca, Dca)

(* The blocks list no symbol twice, in any spelling.                       *)
Distinct(held, dcaRows) ==
    /\ \A i, j \in DOMAIN held : SymbolOf(held[i]) = SymbolOf(held[j]) => i = j
    /\ \A i, j \in DOMAIN dcaRows :
        SymbolOf(dcaRows[i]) = SymbolOf(dcaRows[j]) => i = j
    /\ SymbolsOf(held) \cap SymbolsOf(dcaRows) = {}

(* The totals one would add up row by row, without a merge by symbol. *)
RowByRow(held, dcaRows) ==
    Plus(Sum([i \in DOMAIN held |->
                IF Costed(held[i]) THEN MainPosition(held[i]) ELSE Skipped]),
         Sum([i \in DOMAIN dcaRows |-> DcaPosition(dcaRows[i])]))

(* When nothing is edited meanwhile and the blocks are disjoint, as        *)
(* compute_dr_totals takes them to be, the merge by symbol is exact.       *)
ExactWhenQuiet ==
    pc = "done" /\ edits = 0 /\ tab /\ Distinct(HeldRows, DcaValid)
        => totals = RowByRow(HeldRows, DcaValid)

(* Nothing that is held goes unreported, duplicates included: every held   *)
(* row is counted or skipped, and so is every symbol of section 2 alone.   *)
Accounted ==
    pc = "done" /\ edits = 0 /\ tab
        => totals.positions + totals.skipped
           = Cardinality(DOMAIN HeldRows)
             + Cardinality(SymbolsOf(DcaValid) \ SymbolsOf(HeldRows))

(* Edits of some positions during the reads leave the others alone,        *)
(* although the reads see different tabs.  The totals are those that the   *)
(* untouched rows make row by row, and what the merge makes of the touched *)
(* symbols in what the three reads returned: an untouched position is      *)
(* neither lost nor changed, counted twice or taken for another one.       *)
OthersUndisturbed ==
    LET Calm(r) == SymbolOf(r) \notin touched
        calmHeld == RestrictValues(HeldRows, Calm)
        calmDca == RestrictValues(DcaValid, Calm)
        touchedHeld == RestrictValues(symbols, LAMBDA s : s \in touched)
        touchedDca == RestrictValues(DcaValid, LAMBDA r : ~Calm(r))
    IN  pc = "done" /\ tab /\ Distinct(calmHeld, calmDca)
            => totals = Plus(RowByRow(calmHeld, calmDca),
                             Merge(touchedHeld, costs, touchedDca))
=============================================================================
