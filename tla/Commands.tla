------------------------------ MODULE Commands ------------------------------
(***************************************************************************)
(* What the commands on one user's spreadsheet answer:                     *)
(*                                                                         *)
(*   validate              Validation                                      *)
(*   portfolio             handlers/portfolio_handler.py, get_portfolio    *)
(*   holdings              handlers/holdings_handler.py, and the index     *)
(*                         behind it                                       *)
(*   allocation, summary   handlers/allocation_handler.py and              *)
(*                         wealth_summary_handler.py                       *)
(*                                                                         *)
(* The portfolio is made of the Portfolio sheet (in USD, times the rate in *)
(* AssetAllocation!D1) and the DR totals; the allocation of the            *)
(* AssetAllocation sheet and the DR totals.  Each makes the three DR reads *)
(* of DrTotals anew: SheetsRead, AllocationRead and ResponseCache are      *)
(* about retries, time limits and the cache.                               *)
(*                                                                         *)
(* The user edits the DR tab; the other two sheets stay as they are.       *)
(***************************************************************************)
EXTENDS Validation, DrTotals, AllocationSheet

CONSTANTS
    Rates,          \* how the rate's cell may parse
    HOLDINGS_LIMIT, \* rows that build_holdings_flex shows
    MaxReplies      \* bound: commands other than validate

ASSUME CommandsConstants == HOLDINGS_LIMIT \in Nat /\ MaxReplies \in Nat

VARIABLES
    rate,       \* how the cell AssetAllocation!D1 parses
    alloc,      \* the rows of the AssetAllocation sheet
    command,    \* the command whose DR reads are under way, or "none"
    draft,      \* a summary that waits for its count of pending DR rows
    out         \* the reply of each command that has one

vars == <<sheetVars, drVars, rate, alloc, command, draft, out>>

Replying == {"portfolio", "holdings", "allocation", "summary"}
Failed(how) == [how |-> how]
NoDraft == [how |-> "none"]

----------------------------------------------------------------------------
(* get_fx_rate_thb_per_usd, lines 310-322: a sign is dropped, and NaN is   *)
(* compared outside the except clauses.                                    *)
RateOk == rate \in {"positive", "sign", "infinite"}
RateRaises == rate = "nan"

(* Lines 229-253: an item times an infinite rate does not validate, so its *)
(* row is left out.                                                        *)
UsdPositions == IF rate = "infinite" THEN 0 ELSE PositionsOf(sheet)

(* PortfolioResult.is_empty *)
IsEmptyByUsd(us, dr) == us = 0
IsEmpty(us, dr) == us = 0 /\ dr.value = 0

(* Lines 44-58 of portfolio_handler.py. *)
PortfolioReply(us, dr) ==
    IF IsEmpty(us, dr) THEN Failed("empty")
    ELSE [how |-> "shown", us |-> us, dr |-> dr]

(* build_holdings_flex lists the first rows of the index. *)
HoldingsReply(index) ==
    [how |-> "shown",
     listed |-> Min({HOLDINGS_LIMIT, Cardinality(index)})]

(* The text of the two commands: the entries, what the allocation says of  *)
(* their sum, what the summary says of cash and of the DR rows that wait.  *)
(* read and counted tell whether the totals behind the entries and behind  *)
(* the DR rows that wait are those of the tab.                             *)
AllocationReply(c, dr, read) ==
    LET entries == Allocation(alloc, dr.value)
    IN  CASE DOMAIN entries = {} -> Failed("empty")
          [] DOMAIN entries # {} /\ c = "allocation" ->
                [how |-> "shown", entries |-> entries, read |-> read,
                 warned |-> Unbalanced(entries)]
          [] DOMAIN entries # {} /\ c = "summary" ->
                [how |-> "shown", entries |-> entries, read |-> read,
                 cash |-> Cash(entries), pending |-> dr.skipped,
                 counted |-> read]

----------------------------------------------------------------------------
InitWith(sheets, mains, dcas, rates, allocs) ==
    /\ SheetInit(sheets)
    /\ DrInit(mains, dcas)
    /\ rate \in rates
    /\ alloc \in allocs
    /\ command = "none"
    /\ draft = NoDraft
    /\ out = <<>>

Init ==
    InitWith(BoundedSeq(RawRows, MaxRows),
             [1 .. MainSize -> MainRows], [1 .. DcaSize -> DcaRows],
             Rates, BoundedSeq(AllocationRows, MaxAllocationRows))

(* Bounds: a command is answered once, and nothing is asked after an edit  *)
(* (it would find what it finds in the initial state with the edited tab). *)
Quiet == command = "none" /\ edits = 0
Free == Quiet /\ Cardinality(DOMAIN out) < MaxReplies

Reply(c, r) ==
    out' = [x \in DOMAIN out \cup {c} |-> IF x = c THEN r ELSE out[x]]

AnswerNow(c, r) ==
    /\ Reply(c, r)
    /\ UNCHANGED <<sheetVars, drVars, rate, alloc, command, draft>>

Begin(c) ==
    /\ command' = c
    /\ StartReads
    /\ UNCHANGED <<sheetVars, rate, alloc, draft, out>>

Check ==
    /\ Quiet
    /\ Validate \/ ValidateUnread
    /\ UNCHANGED <<drVars, rate, alloc, command, draft, out>>

(* The rate is read first; the read may fail whatever the cell holds.      *)
RateRefused == Free /\ AnswerNow("portfolio", Failed("rate"))
RateIsNaN == Free /\ RateRaises /\ AnswerNow("portfolio", Failed("raised"))

(* fetch_portfolio_rows raises PortfolioReadError. *)
RowsUnread == Free /\ RateOk /\ AnswerNow("portfolio", Failed("unread"))

AskPortfolio == Free /\ RateOk /\ Begin("portfolio")

(* Nothing that the index raises is caught before the router. *)
HoldingsFail == Free /\ AnswerNow("holdings", Failed("raised"))
ShowHoldings ==
    /\ Free /\ RateOk
    /\ AnswerNow("holdings", HoldingsReply(HoldingsIndexOf(sheet)))

(* SheetsReadError: the read failed, or a cell is an error placeholder. *)
AllocationUnread(c) == Free /\ AnswerNow(c, Failed("updating"))
AllocationRaises(c) ==
    Free /\ ParseEnds(alloc) = "raised" /\ AnswerNow(c, Failed("raised"))
AskAllocation(c) == Free /\ ParseEnds(alloc) = "parsed" /\ Begin(c)

(* Bounds: the user edits the tab during the first command only, not       *)
(* before its first read, and once at most while a draft waits.            *)
Reading ==
    /\ DrStep
    /\ edits' # edits =>
        /\ out = <<>> /\ report.how = "none"
        /\ IF draft.how = "none" THEN pc # "holdings" ELSE edits = 0
    /\ UNCHANGED <<sheetVars, rate, alloc, command, draft, out>>

(* get_portfolio lets no failed read pass; get_asset_allocation takes the  *)
(* totals to be zero then.                                                 *)
Outcome ==
    CASE pc = "raised" -> Failed("raised")
      [] command = "portfolio" /\ pc = "unavailable" -> Failed("unread")
      [] command = "portfolio" /\ pc = "done" ->
            PortfolioReply(UsdPositions, totals)
      [] command # "portfolio" /\ pc # "raised" ->
            AllocationReply(command, totals, pc = "done")

(* The totals have been computed, or one of their reads has failed. *)
HasTotals == pc \in {"done", "unavailable"}

(* Line 44 of wealth_summary_handler.py: the summary asks for the DR       *)
(* totals once more when its text is made, for the rows that wait.  The    *)
(* cache may have them still (Answer), or they are computed anew.          *)
Recount ==
    /\ command = "summary" /\ draft.how = "none"
    /\ HasTotals /\ Outcome.how = "shown"
    /\ draft' = Outcome
    /\ ReadAgain
    /\ UNCHANGED <<sheetVars, rate, alloc, command, out>>

Recounted ==
    IF HasTotals
    THEN [draft EXCEPT !.pending = totals.skipped, !.counted = (pc = "done")]
    ELSE Failed("raised")

Answer ==
    /\ HasTotals \/ pc = "raised"
    /\ Reply(command, IF draft.how = "none" THEN Outcome ELSE Recounted)
    /\ command' = "none" /\ draft' = NoDraft
    /\ EndReads
    /\ UNCHANGED <<sheetVars, rate, alloc>>

Next ==
    \/ Check
    \/ RateRefused \/ RateIsNaN \/ RowsUnread \/ AskPortfolio
    \/ HoldingsFail \/ ShowHoldings
    \/ \E c \in {"allocation", "summary"} :
        AllocationUnread(c) \/ AllocationRaises(c) \/ AskAllocation(c)
    \/ Reading
    \/ Recount
    \/ Answer

Spec == Init /\ [][Next]_vars

----------------------------------------------------------------------------
Hows == {"rate", "raised", "unread", "updating", "empty", "shown"}

TypeOK ==
    /\ SheetTypeOK
    /\ DrTypeOK
    /\ rate \in Rates
    /\ Range(alloc) \subseteq AllocationRows
    /\ command \in Replying \cup {"none"}
    /\ (command = "none") <=> (pc = "idle")
    /\ draft.how \in {"none", "shown"}
    /\ draft.how = "shown" => command = "summary"
    /\ DOMAIN out \subseteq Replying
    /\ \A c \in DOMAIN out : out[c].how \in Hows

Shown(c) == c \in DOMAIN out /\ out[c].how = "shown"

(* What neither the check nor the list agrees on with the portfolio: a     *)
(* cell that reads as infinity passes the check, and the portfolio refuses *)
(* it; a repeated header has words for numbers.                            *)
Ordinary ==
    /\ rate # "infinite"
    /\ \A i \in DOMAIN sheet, f \in Fields : sheet[i][f] # "infinite"
    /\ \A i \in DOMAIN sheet : ~(IsHeader(sheet[i]) /\ Indexed(sheet[i]))

(* A sheet that is reported as valid is shown whole by both the portfolio  *)
(* and the holdings commands: neither drops a row or merges two, as far as *)
(* the list goes.                                                          *)
ValidMeansShownWhole ==
    Answered /\ IsValid(report.summary) /\ Ordinary
    => /\ Shown("portfolio") => out["portfolio"].us = report.summary.total
       /\ Shown("holdings") =>
            out["holdings"].listed = Min({HOLDINGS_LIMIT, report.summary.total})

(* Rows whose position rounds to nothing, by their cells alone: those that *)
(* do not parse, and those worth half a satang at the most.                *)
Negligible(r) ==
    /\ \A c \in {r.avg, r.volume, r.price} : c.how = "plain"
    => 2 * r.price.n * r.volume.n <= SATANG
NegligibleDca(r) == 2 * r.price.n * r.size.n <= r.avg.n * SATANG

(* The user is told that the portfolio is empty only if there is nothing   *)
(* to show.  No sheet with rows that the check has called valid is called  *)
(* empty; and if the tab is untouched, of every symbol that is held, or    *)
(* listed in section 2, the row that counts (the last one, of section 2    *)
(* before the main block) is negligible.                                   *)
EmptyOnlyIfNegligible ==
    "portfolio" \in DOMAIN out /\ out["portfolio"].how = "empty"
    => /\ Answered /\ IsValid(report.summary) /\ Ordinary
            => report.summary.total = 0
       /\ edits = 0 /\ tab =>
            LET priced == RestrictValues(main, Costed)
            IN  /\ \A s \in SymbolsOf(DcaValid) :
                        NegligibleDca(LastOf(DcaValid, s))
                /\ \A s \in SymbolsOf(priced) \ SymbolsOf(DcaValid) :
                        Negligible(LastOf(priced, s))

(* Lines 113-116 and 516-518: the DR value of the allocation and the       *)
(* number of DR rows that the summary says are waiting are those of the    *)
(* portfolio, if nothing is edited and the DR reads behind each succeed.   *)
DrAgrees ==
    \A c \in {"allocation", "summary"} :
        edits = 0 /\ Shown("portfolio") /\ Shown(c)
            => /\ out[c].read =>
                    \A i \in DOMAIN out[c].entries :
                        IsDr(out[c].entries[i])
                            => out[c].entries[i].value = out["portfolio"].dr.value
               /\ c = "summary" /\ out[c].counted =>
                    out[c].pending = out["portfolio"].dr.skipped

(* The allocation's warning that its shares do not add up comes only when  *)
(* there is nothing to share: rounding alone never sets it off (up to a    *)
(* hundred entries, of half a hundredth each).                             *)
WarnedOnlyIfNothingToShare ==
    Shown("allocation") /\ out["allocation"].warned
        => Total(out["allocation"].entries) = 0
=============================================================================
