--------------------------- MODULE AllocationRead ---------------------------
(***************************************************************************)
(* services/portfolio_service.py: the cached functions behind the commands *)
(* for cash, allocation and summary, which call one another:               *)
(*                                                                         *)
(*     get_cash_balance -> get_asset_allocation -> get_dr_totals           *)
(*                                                                         *)
(* get_asset_allocation makes one logical read of its own (SheetsRead) and *)
(* get_dr_totals three in a row.  Each of the functions is @cached with a  *)
(* lifetime and a time limit of its own, and an inner one runs within the  *)
(* time limits of the outer ones.                                          *)
(*                                                                         *)
(* One user's commands, one at a time: ResponseCache is about callers that *)
(* meet.  A value is known by how long ago the fetch of each of its parts  *)
(* began: `sheet` for the AssetAllocation sheet and `dr` for the DR        *)
(* totals, which are zero after a failed read, and cached all the same.    *)
(* An expired entry is dropped from memo, for nothing tells it from one    *)
(* that is not there.                                                      *)
(*                                                                         *)
(* From the DR totals' arrival to the allocation's store nothing suspends, *)
(* but the clock goes on: their entries need not expire together.          *)
(***************************************************************************)
EXTENDS SheetsRead

CONSTANTS
    CACHE_TTL,
    FETCH_TIMEOUT

ASSUME AllocationReadConstants ==
    /\ CACHE_TTL \in Nat \ {0}
    /\ FETCH_TIMEOUT \in Nat \ {0}

VARIABLES
    goal,       \* the command that is being answered
    stage,      \* the logical read under way
    nested,     \* the DR reads run inside get_asset_allocation
    outer,      \* ticks since get_asset_allocation's fetch began
    inner,      \* ticks since get_dr_totals's fetch began
    taken,      \* the DR totals that get_asset_allocation has got
    memo,       \* _cache: entries of the three functions; partial
    out         \* the outcome of the last command

vars == <<readVars, goal, stage, nested, outer, inner, taken, memo, out>>

Goals == {"cash", "allocation", "summary"}
DrStages == {"dr1", "dr2", "dr3"}
Settling == {"total", "late"}   \* "late" once the clock has moved on
After(s) == IF s = "dr1" THEN "dr2" ELSE "dr3"

NoParts == [sheet |-> 0, dr |-> 0]

Fresh(f) == f \in DOMAIN memo

(* memo with the functions of F just stored. *)
Stored(m, F, parts) ==
    [f \in DOMAIN m \cup F |->
        IF f \in F THEN [age |-> 0, parts |-> parts] ELSE m[f]]

Init ==
    /\ ReadIdle
    /\ goal = "none" /\ stage = "idle" /\ nested = FALSE
    /\ outer = 0 /\ inner = 0 /\ taken = NoParts
    /\ memo = <<>>
    /\ out = "none"

End(outcome) ==
    /\ goal' = "none" /\ stage' = "idle" /\ nested' = FALSE
    /\ outer' = 0 /\ inner' = 0 /\ taken' = NoParts
    /\ ForgetRead
    /\ out' = outcome

Fetch(s) ==
    /\ stage' = s
    /\ StartRead
    /\ UNCHANGED out

(* A command whose functions are all in the cache, or become so from one   *)
(* that is (get_cash_balance stores what it takes from the allocation).    *)
CashFromCache ==
    /\ stage = "idle"
    /\ \/ /\ Fresh("cash")
          /\ End("value")
          /\ UNCHANGED memo
       \/ /\ ~Fresh("cash") /\ Fresh("allocation")
          /\ End("value")
          /\ memo' = Stored(memo, {"cash"}, memo["allocation"].parts)

AllocationFromCache ==
    /\ stage = "idle"
    /\ Fresh("allocation")
    /\ End("value")
    /\ UNCHANGED memo

(* WealthSummaryHandler asks for the allocation and then for the totals. *)
SummaryFromCache ==
    /\ stage = "idle"
    /\ Fresh("allocation") /\ Fresh("dr")
    /\ End("value")
    /\ UNCHANGED memo

(* get_asset_allocation misses: its sheet is read first (line 491). *)
AskSheet(g) ==
    /\ stage = "idle"
    /\ ~Fresh("allocation") /\ (g = "cash" => ~Fresh("cash"))
    /\ goal' = g
    /\ Fetch("sheet")
    /\ UNCHANGED <<nested, outer, inner, taken, memo>>

(* The summary's own call of get_dr_totals misses. *)
AskTotals ==
    /\ stage = "idle"
    /\ Fresh("allocation") /\ ~Fresh("dr")
    /\ goal' = "summary"
    /\ Fetch("dr1")
    /\ UNCHANGED <<nested, outer, inner, taken, memo>>

Reading ==
    /\ ReadStep
    /\ UNCHANGED <<goal, stage, nested, outer, inner, taken, memo, out>>

(* Line 519: get_asset_allocation has the totals p. *)
Take(p) ==
    /\ stage' = "total" /\ nested' = FALSE
    /\ inner' = 0
    /\ taken' = p
    /\ ForgetRead
    /\ UNCHANGED <<goal, outer, out>>

(* The sheet has been read and holds no error placeholder: the DR totals   *)
(* come from the cache, or are fetched within this fetch.                  *)
SheetRead ==
    /\ stage = "sheet" /\ phase = "ok"
    /\ IF Fresh("dr")
       THEN Take(memo["dr"].parts) /\ UNCHANGED memo
       ELSE /\ Fetch("dr1")
            /\ nested' = TRUE
            /\ UNCHANGED <<goal, outer, inner, taken, memo>>

(* Lines 492-505: the read raised, or a cell holds an error placeholder.   *)
SheetFails ==
    /\ stage = "sheet" /\ phase \in {"ok", "raised"}
    /\ End("SheetsReadError")
    /\ UNCHANGED memo

(* Lines 519-531: the DR value is put into the allocation, which is stored *)
(* with the cash balance taken from it if that was asked for.  The summary *)
(* asks for the totals once more.                                          *)
FinishAllocation ==
    LET parts == [taken EXCEPT !.sheet = outer]
        stored == {"allocation"} \cup (IF goal = "cash" THEN {"cash"} ELSE {})
    IN  /\ stage \in Settling
        /\ memo' = Stored(memo, stored, parts)
        /\ IF goal = "summary" /\ ~Fresh("dr")
           THEN /\ Fetch("dr1")
                /\ outer' = 0 /\ taken' = NoParts
                /\ UNCHANGED <<goal, nested, inner>>
           ELSE End("value")

(* get_dr_totals is done: its result is stored, and the caller goes on. *)
FinishTotals ==
    LET parts == [sheet |-> 0, dr |-> inner]
    IN  /\ memo' = Stored(memo, {"dr"}, parts)
        /\ IF nested THEN Take(parts) ELSE End("value")

(* One of the three DR reads has its rows; a missing sheet has none.       *)
DrRead ==
    /\ stage \in DrStages
    /\ phase = "ok" \/ (phase = "raised" /\ error = "missing")
    /\ IF stage = "dr3"
       THEN FinishTotals
       ELSE /\ Fetch(After(stage))
            /\ UNCHANGED <<goal, nested, outer, inner, taken, memo>>

(* Lines 452-457: PortfolioReadError; the totals are taken to be zero. *)
DrReadFails ==
    /\ stage \in DrStages
    /\ phase = "raised" /\ error # "missing"
    /\ FinishTotals

(* wait_for of any of the enclosing @cached functions: TimeoutError leaves *)
(* all of them, and nothing on the way to the handler catches it.          *)
FetchTimesOut ==
    /\ \/ stage = "sheet" /\ outer = FETCH_TIMEOUT
       \/ stage \in DrStages /\ nested /\ outer = FETCH_TIMEOUT
       \/ stage \in DrStages /\ inner = FETCH_TIMEOUT
    /\ End("TimeoutError")
    /\ UNCHANGED memo

(* clear_cache by an admin. *)
Refresh ==
    /\ memo # <<>> /\ stage \notin Settling
    /\ memo' = <<>>
    /\ UNCHANGED <<readVars, goal, stage, nested, outer, inner, taken, out>>

LivesTooLong(e) == e.age < CACHE_TTL
Lives(e) == e.age + 1 < CACHE_TTL
Older(e) ==
    [age |-> e.age + 1,
     parts |-> [sheet |-> e.parts.sheet + 1, dr |-> e.parts.dr + 1]]

Tick ==
    /\ ReadTick
    /\ stage # "late"
    /\ stage = "sheet" \/ nested => outer < FETCH_TIMEOUT
    /\ stage \in DrStages => inner < FETCH_TIMEOUT
    /\ stage' = IF stage = "total" THEN "late" ELSE stage
    /\ outer' = IF stage \in {"sheet", "total"} \/ nested THEN outer + 1 ELSE 0
    /\ inner' = IF stage \in DrStages THEN inner + 1 ELSE 0
    /\ taken' = IF stage = "total" THEN [taken EXCEPT !.dr = @ + 1] ELSE taken
    /\ memo' = [f \in {g \in DOMAIN memo : Lives(memo[g])} |-> Older(memo[f])]
    /\ UNCHANGED <<goal, nested, out>>

Next ==
    \/ CashFromCache \/ AllocationFromCache \/ SummaryFromCache
    \/ \E g \in Goals : AskSheet(g)
    \/ AskTotals
    \/ Reading
    \/ SheetRead \/ SheetFails \/ FinishAllocation
    \/ DrRead \/ DrReadFails
    \/ FetchTimesOut
    \/ Refresh
    \/ Tick

Spec == Init /\ [][Next]_vars

----------------------------------------------------------------------------
Oldest == 3 * CACHE_TTL + FETCH_TIMEOUT

PartsOK(p) ==
    /\ p.sheet \in 0 .. Oldest /\ p.dr \in 0 .. Oldest

TypeOK ==
    /\ ReadTypeOK
    /\ goal \in Goals \cup {"none"}
    /\ stage \in DrStages \cup Settling \cup {"idle", "sheet"}
    /\ nested \in BOOLEAN
    /\ outer \in 0 .. FETCH_TIMEOUT + 1 /\ inner \in 0 .. FETCH_TIMEOUT
    /\ PartsOK(taken)
    /\ DOMAIN memo \subseteq {"cash", "allocation", "dr"}
    /\ \A f \in DOMAIN memo : memo[f].age \in 0 .. CACHE_TTL - 1 /\ PartsOK(memo[f].parts)
    /\ out \in {"none", "value", "SheetsReadError", "TimeoutError"}

(* sheets_service.py:49-51: the retries of one read live inside the time   *)
(* limit of the fetch it is made for.  With such limits, a fetch is cut    *)
(* short only among the three reads of the DR totals.                      *)
SingleReadFits ==
    [][FetchTimesOut /\ LongestRead < FETCH_TIMEOUT => stage \in DrStages]_vars

(* The layers of the cache add up: the DR totals in an entry are no older  *)
(* than a lifetime for each layer they have come through, and one fetch;   *)
(* the sheet's own values come through one layer less.                     *)
StalenessByLayers ==
    \A f \in DOMAIN memo :
        LET p == memo[f].parts
            layers == CASE f = "dr" -> 1 [] f = "allocation" -> 2 [] OTHER -> 3
        IN  /\ p.dr < layers * CACHE_TTL + FETCH_TIMEOUT
            /\ f # "dr" => p.sheet <= (layers - 1) * CACHE_TTL + FETCH_TIMEOUT

----------------------------------------------------------------------------
(* portfolio_service.py:444-445: "Best-effort: a missing DR sheet or a DR  *)
(* read error yields zero totals so [the summary and the allocation] still *)
(* respond."  No command fails because the DR reads are slow.              *)
DrIsBestEffort == out # "TimeoutError"
=============================================================================
