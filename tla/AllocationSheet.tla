--------------------------- MODULE AllocationSheet ---------------------------
(***************************************************************************)
(* The AssetAllocation sheet, as get_asset_allocation of                   *)
(* services/portfolio_service.py turns it into an allocation: one entry    *)
(* per asset class, with its share of the total.  The entry of the DR      *)
(* positions is replaced by their live value.                              *)
(*                                                                         *)
(* A cell that should hold an amount is a record: its number, and whether  *)
(* it is a "number" (signs and commas included), an "error" placeholder,   *)
(* "nan" or "text".  Shares are in hundredths of a percent.                *)
(***************************************************************************)
EXTENDS Decimals, Sequences, SequencesExt, FiniteSetsExt

CONSTANTS
    AllocationRows,     \* rows the sheet may hold below its header
    MaxAllocationRows,  \* bound: their number
    Stripped,           \* name cells to names, without spaces around them
    Lowered,            \* names to names in lower case
    ErrorNames,         \* names that are error placeholders
    DR_ALLOCATION_NAME, \* in lower case
    CASH,               \* in lower case
    ALLOCATION_TOLERANCE

ASSUME AllocationSheetConstants ==
    /\ \A r \in AllocationRows : r.name \in DOMAIN Stripped /\ r.cell.n \in Int
    /\ \A r \in AllocationRows : Stripped[r.name] \in DOMAIN Lowered
    /\ MaxAllocationRows \in Nat
    /\ ALLOCATION_TOLERANCE \in Nat

Name(r) == Stripped[r.name]

----------------------------------------------------------------------------
(* get_sheet_as_dict, line 90 of sheets_service.py: of two rows under one  *)
(* name the later one gives the value and the earlier one the place, which *)
(* entries are known by from here on.                                      *)
First(rows, i) == \A j \in 1 .. i - 1 : rows[j].name # rows[i].name
LastCell(rows, name) ==
    rows[Max({i \in DOMAIN rows : rows[i].name = name})].cell
Dict(rows) ==
    [i \in {j \in DOMAIN rows : First(rows, j)} |->
        [name |-> rows[i].name, cell |-> LastCell(rows, rows[i].name)]]

(* Lines 497-513: a placeholder in either cell is an answer of its own,    *)
(* except beside a blank name; a comparison with NaN raises.               *)
Updating(r) == Name(r) \in ErrorNames \/ (Name(r) # "" /\ r.cell.how = "error")
Incomparable(r) == Name(r) \notin ErrorNames \cup {""} /\ r.cell.how = "nan"

(* The first row that ends the loop early decides how. *)
ParseEnds(rows) ==
    LET d == Dict(rows)
        ends == {i \in DOMAIN d : Updating(d[i]) \/ Incomparable(d[i])}
    IN  IF ends = {} THEN "parsed"
        ELSE IF Updating(d[Min(ends)]) THEN "updating" ELSE "raised"

(* Lines 503-514: entries without a name, a number or a sign are kept. *)
Kept(r) == Name(r) # "" /\ r.cell.how = "number" /\ r.cell.n >= 0
Parsed(rows) ==
    LET kept == RestrictValues(Dict(rows), Kept)
    IN  [i \in DOMAIN kept |-> [name |-> Name(kept[i]), value |-> kept[i].cell.n]]

----------------------------------------------------------------------------
(* _replace_dr_value *)
IsDr(e) == Lowered[e.name] = DR_ALLOCATION_NAME
ReplaceDrBySpelling(entries, dr) ==
    [i \in DOMAIN entries |->
        [name |-> entries[i].name,
         value |-> IF entries[i].name = DR_ALLOCATION_NAME THEN dr
                   ELSE entries[i].value]]
ReplaceDr(entries, dr) ==
    [i \in DOMAIN entries |->
        [name |-> entries[i].name,
         value |-> IF IsDr(entries[i]) THEN dr ELSE entries[i].value]]

Total(entries) == SumFunction([i \in DOMAIN entries |-> entries[i].value])

(* Lines 523-531. *)
Percent(value, total) == IF total = 0 THEN 0 ELSE Rounded(10000 * value, total)
AllocationOfStaleTotal(rows, dr) ==
    LET entries == ReplaceDr(Parsed(rows), dr)
        total == Total(Parsed(rows))
    IN  [i \in DOMAIN entries |->
            [name |-> entries[i].name, value |-> entries[i].value,
             percent |-> Percent(entries[i].value, total)]]
Allocation(rows, dr) ==
    LET entries == ReplaceDr(Parsed(rows), dr)
        total == Total(entries)
    IN  [i \in DOMAIN entries |->
            [name |-> entries[i].name, value |-> entries[i].value,
             percent |-> Percent(entries[i].value, total)]]

(* allocation_balance_check *)
Unbalanced(allocation) ==
    LET shares == SumFunction([i \in DOMAIN allocation |-> allocation[i].percent])
    IN  /\ DOMAIN allocation # {}
        /\ \/ shares > 10000 + ALLOCATION_TOLERANCE
           \/ shares < 10000 - ALLOCATION_TOLERANCE

(* Lines 32-35 of wealth_summary_handler.py, and get_cash_balance. *)
Cash(allocation) ==
    LET cash == {i \in DOMAIN allocation : Lowered[allocation[i].name] = CASH}
    IN  IF cash = {} THEN 0 ELSE allocation[Min(cash)].value
=============================================================================
