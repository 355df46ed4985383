# Wealth Bot in TLA+

Wealth Bot is a LINE chat bot (FastAPI, one process, one event loop) that answers
questions about a user's portfolio, which lives in Google Sheets. This directory
holds TLA+ models of the parts of it that have state, time or concurrency, the TLC
configurations that check them, and proofs, for all values of the constants, of the
safety properties of all of them.

Paths below are relative to the repository's `src/`.

- [The system](#the-system): components, state, interactions, what is hard
- [The modules](#the-modules): which module models what, and how
- [The runs](#the-runs): what is checked, the bounds, what the runs showed
- [Fairness](#fairness)
- [The proofs](#the-proofs)
- [What is abstracted, and what is not modelled](#what-is-abstracted)
- [Plan](#plan)

## The system

    LINE --> main.line_webhook --> CommandRouter --> handlers
                 |                                     |  |
                 |                         UserMapping-+  +-- PortfolioService, ValidationService,
                 |                              |                WriteBackService, chart_service
                 +-- QuotaService               |                      |
                        |                       +----- @cached --------+
                        v                                 |
                    LINE API                       sheets_service (worker threads)
                                                          |
                                                   Google Sheets API

| component | code | state it keeps | operations | what makes it correct |
|---|---|---|---|---|
| response cache | `services/cache.py` | `_cache`, `_key_locks` | a `@cached` call, `clear_cache` | no lock is leaked or shared; no answer is older than a lifetime and a fetch; fetches of a key coalesce; every call ends |
| write-back | `services/writeback_service.py`, `repositories/validation_result_repository.py`, `sheets_service.batch_update_values` | idempotency keys in `_cache`; threads in flight; the result tab | `write_validation_result`, its save requests, retries | the tab shows one whole report; a failed report can be asked for again; a report is not written twice at once |
| Sheets client | `sheets_service._get_client`, `invalidate_client` | the global `_client` | make, bound, return, drop | every request has a time limit; no thread fails for want of a client |
| Sheets reads | `sheets_service.get_*` | a retry loop and its thread | attempt, time out, back off | a read with its retries fits into the fetch it serves |
| allocation, cash, summary | `services/portfolio_service.py`, handlers | entries of three nested cached functions | the three commands | staleness adds up to a bound; trouble with DR does not fail a command |
| DR totals | `portfolio_service.compute_dr_totals`, `portfolio_repository.fetch_dr_*` | none of its own: three reads of one tab | read, read, read, merge | every held row is counted or reported as skipped; edits between the reads do not disturb other rows |
| validation | `services/validation_service.py` and the two other parsers of the same sheet | none | `validate`, and what the portfolio and holdings commands keep | counts add up; "valid" means that nothing is dropped elsewhere; row numbers are right |
| webhook, routing, access | `main.py`, `services/command_router.py`, `handlers/`, `services/user_mapping_service.py` | the cached user mapping; a request's position in its batch | handle an event, look up a user, refuse, answer, fail | whoever is served has, or recently had, the right to be |
| FX rate, portfolio, holdings | `portfolio_service.get_fx_rate_thb_per_usd`, `get_portfolio`, `portfolio_handler.py`, `holdings_handler.py` | none: a read, a parse, then the DR reads | the two commands | nothing that counts is hidden; the commands agree with each other and with `validate` |
| sample sheet script | `scripts/setup_sample_sheets.py` | how far it has come; the spreadsheets | guard, confirm, overwrite tab by tab | only spreadsheets that a person has confirmed are overwritten, and none of production |
| quota check | `main.get_quota_status`, `services/quota_service.py` | `_last_quota_check`, `_quota_status_cache` | a throttled poll of two calls | the warning on replies is timely; a failed poll does no harm |

Components without state of their own, or that only format, are listed in
`PROJECT.json` as not modelled, with the reason.

### How the components interact

- **Calls.** A request handles the events of its batch one after the other. A handler
  calls `get_user`, a cached function, and then its service, whose functions are
  cached too and call one another.
- **Shared state.** `_cache` holds the user mapping, every result, the chart URLs and
  the idempotency keys; `refresh` and `reload` empty it under everybody's feet.
  `_client` is shared by all worker threads and dropped by `reload`.
- **Threads.** Sheet calls run in worker threads (`asyncio.to_thread`), and a read's
  attempts in threads of an executor. A time-out abandons a thread; nothing stops it.

### What is hard about it

1. *A clear, or an edit, in the middle of something.* `clear_cache` replaces the lock
   objects while tasks hold and await them, and does not reach fetches in flight.
2. *Time limits inside time limits.* Attempt 2.5 s, read 5.5 s, fetch 7 s, call 14 s,
   save 10 s, HTTP 10 s; a nested call runs within all those around it.
3. *Threads that outlive their time-out*, above all a save that goes on beside its retry.
4. *Unlocked globals* (`_client`) used by threads, line by line.
5. *Several reads that are taken for one*, and several parsers of the same sheet.
6. *Waiting without a limit.* The quota poll is awaited before the reply.
7. *Restarts.* Only the result tab survives one; the script may be run again half-way.

`PROJECT.json` lists each such place at its line under `hazards`, with the properties
that watch it or the reason why none does.

## The modules

Suspension points decide what a step is. On the event loop, everything between two
`await`s that really suspend is one action; in a worker thread, every API request,
and for `_client` every access to the global, is one.

| module | models | state and actions |
|---|---|---|
| `ResponseCache` | the wrapper of `@cached`, `clear_cache` | `cache`, `key_locks` are `_cache`, `_key_locks`; a lock object is `<<key, n>>` with `n` the number of clears before it was made; `held`, `ahead` are `asyncio.Lock`'s flag and queue, first in first out as that class says. `CallHit`, `CallMiss`, `Wake`, `Store`, `Raise`, `TimeOut`, `Clear`, `Tick`. `_cache_lock` is never held across a suspension, so it has no state. |
| `TtlMemo` | what callers of a cached function are promised: no locks, queues or time-outs | `Ask`, `Serve`, `Publish`, `Fail`, `Clear`, `Tick`. `ResponseCache` implements it: `ImplementsMemo` |
| `ResponseCacheProofs` | | theorems about `ResponseCache` |
| `WriteBack` | `write_validation_result`, the idempotency keys, the save in a thread per attempt, the tab | writers (`Begin`, `Succeed`, `SaveRaised`, `SaveTimedOut`, `Retry`), saves request by request (`Open`, `Add`, `Resize`, `ClearTab`, `Update`, `RequestRaises`, `AnswerLost`); the tab is its rows (`sheet`), its number of rows (`grid`) and whether it has the report's columns (`wide`), the world (`Refresh`, `Expire`, `Crash`) |
| `SheetsClient` | `_get_client` by lines 34, 37, 38, 40, and `invalidate_client` | `client` is `_client`; `bounded` the clients whose time-out is set; `crossed` (history) the threads that saw a reload; `maker` (history) the thread that published the latest client |
| `SheetsRead` | the retry loop of the four read functions | `Answer`, `AttemptTimesOut`, `AttemptRaises`, `NextAttempt`; used by `AllocationRead` |
| `WriteBackProofs` | | theorems about `WriteBack` |
| `SheetsClientProofs` | | theorems about `SheetsClient` |
| `AllocationRead` | the three nested cached functions, on top of `SheetsRead` | `outer` and `inner` are the time in the fetches of `get_asset_allocation` and `get_dr_totals`; entries carry how long ago the fetch of each part began |
| `AllocationReadProofs` | | theorems about `AllocationRead` |
| `Decimals` | `quantize(TWOPLACES)`: a quotient rounded half to even | an operator; used by `DrTotals` and `AllocationSheet` |
| `DrTotals` | three reads with edits between them, and `compute_dr_totals` | `StartReads`, `DrStep` (a read, a failure, an edit), `EndReads`; the merge by symbol is a set of operators; `touched` (history) the symbols edited during the reads; used by `Commands` |
| `Validation` | `validate_portfolio`, and the rows that `get_portfolio` and `_fetch_holdings_index` keep of the same sheet | a cell is known by how it parses, a row by its cells and its width; used by `Commands` |
| `AllocationSheet` | the AssetAllocation sheet: rows to entries, the DR value put in, shares, the balance check, cash | operators only; used by `Commands` |
| `Commands` (`MCCommands`) | `validate`, `portfolio`, `holdings`, `allocation` and `summary` on one user's three sheets | `Check`, `RateRefused`, `RateIsNaN`, `RowsUnread`, `AskPortfolio`, `HoldingsFail`, `ShowHoldings`, `AllocationUnread`, `AllocationRaises`, `AskAllocation`, `Reading`, `Recount`, `Answer`; `draft` is a summary that waits for its second count of DR rows, `out` what each command has answered |
| `CommandsProofs` | | theorems about `Commands`, `Validation`, `DrTotals` and `AllocationSheet` |
| `RowSums` | | lemmas about sums over finite sets, for `CommandsProofs` |
| `Quota` | `get_quota_status` and the two-call poll | `checked` is the age of `_last_quota_check`, `status` is `_quota_status_cache`; used by `Webhook` |
| `Webhook` (`MCWebhook`) | `line_webhook`, routing, access checks, the user mapping | `Arrive`, `Skip`, `Finish`, `LookupHit`, `LookupMiss`, `ReadUsers`, `LookupDone`, `AnswerOpen`, `HandlerAnswers`, `Fail`, `PollStep`, `PollDone`; `since` (history) when each role was last given; `reply` is what the step has sent |
| `WebhookProofs` | | theorems about `Webhook` and `Quota` |
| `SampleSheets` | `setup_sample_sheets.py` | `Require` (the ids), `Open`, `Confirm`, `Mistype`, then per tab `Find`, `Clear`, `Update`; `Fails` at any request, `Rerun` with other ids; `confirmed` (history) whose title was retyped in this run |
| `SampleSheetsProofs` | | theorems about `SampleSheets` |

Definitions whose name extends another one (`LeaveLocked` before `Leave`,
`TickUntimed` before `Tick`) are that definition with a plausible bug. No action uses
them. `PROJECT.json` lists under `mutants` which property fails when the bug takes the
definition's place; every property of every passing run has one.

## The runs

Every passing run checks one type invariant besides the properties named.

| run | what it asks | result |
|---|---|---|
| `cache` | three callers of one key, time-outs, cancellations, one clear, timers up to a tick late: `LockSafety`, `StalenessBounded`, `StoresCoalesced`, `ImplementsMemo`, `CallsEnd` | hold |
| `cache_refetch` | is nothing read before a clear served after it (`RefetchedAfterClear`)? | violated |
| `writeback` | two calls with two attempts each, a refresh and a restart anywhere, lost answers to every request that changes the tab: `KeyOfFailureDropped`, `OneWriterPerSummary`, `WholeUnlessOverlap`, `OkIsShownUnlessOverlap`, `WritesEnd` | hold |
| `writeback_shown` | is a report whose save succeeded on the tab (`OkIsShown`)? | violated |
| `client` | three threads and two reloads: `PublishedClientBounded`, `FailsOnlyAcrossReload`, `ClientsPerReload` | hold |
| `client_unbounded` | is every request bounded by `HTTP_TIMEOUT` (`EveryRequestBounded`)? | violated |
| `allocation` | the nested functions: `SingleReadFits`, `StalenessByLayers` | hold |
| `allocation_dr` | do commands answer however slow the DR reads are (`DrIsBestEffort`)? | violated |
| `commands` | every small content of each of a user's three sheets, with up to two edits of the DR tab between its reads, and one before the summary's second count. Of `validate`: `RowsAccounted`, `ValidMeansNoIssue`, `RowNumbersRightInFullSheet`. Of the DR totals: `ExactWhenQuiet`, `Accounted`, `OthersUndisturbed`. Across commands: `ValidMeansShownWhole`, `EmptyOnlyIfNegligible`, `DrAgrees`, `WarnedOnlyIfNothingToShare` | hold |
| `validation_rows` | does every issue name its row (`RowNumbersRight`)? | violated |
| `webhook` | two requests, an edit of the Users sheet, refreshes, quota polls: `AccessTimely`, `WarnedInTime` | hold |
| `sample_sheets` | does the script never touch a production spreadsheet (`ProductionUntouched`)? | violated |

### What the violated runs show

Each states something a comment, docstring or test says.

- **A refresh can be undone.** (`tests/test_cache.py:61`) A fetch in flight when
  `clear_cache` runs stores its older result afterwards (`services/cache.py:57`), and
  calls are served with it for a whole lifetime. `StalenessBounded` shows how far it
  goes: the answer is still no older than a lifetime and a fetch.
- **A success may not be on the tab.** (`services/sheets_service.py:277`, "one batch
  update") The save is several requests, and a timed-out attempt's thread may clear the
  tab after its retry has written it. `WholeUnlessOverlap` and `OkIsShownUnlessOverlap`
  confine this: while no save starts beside a running one, the tab is blank or shows
  one whole report, and a reported success is on it.
- **A client without a time limit.** (`services/sheets_service.py:26`, "this bounds
  every call") The client is published a line before its time-out is set.
  `PublishedClientBounded` shows that this window is the only one.
- **Best effort with a limit.** (`services/portfolio_service.py:444`) Three slow DR
  reads outlast the 7 s of their fetch, and `TimeoutError` is not caught.
  `SingleReadFits` shows that the other read of the chain always fits.
- **Wrong row numbers.** (`repositories/portfolio_repository.py:112`) The report counts
  complete rows, so each blank, short or header row shifts the numbers after it.
  `RowNumbersRightInFullSheet` holds where there is none.

- **A production spreadsheet overwritten.** (`scripts/setup_sample_sheets.py:3-6`, "never
  touches production spreadsheets") Each test id is compared with the production id of its
  own kind only. The master's id given as `TEST_SPREADSHEET_ID`, or the reverse, passes,
  and once a person has retyped its title its tabs are written: an absent tab is added, one
  that exists is cleared, and the sample rows go in. `OverwritesCrosswise` proves
  that this is the only way, and `OverwritesConfirmed` that no unconfirmed spreadsheet is
  written. (That "nothing was written", line 147, is said also when the second
  confirmation fails, after the first spreadsheet has been filled.)

### The bounds, and why they are enough

The safety properties of the passing runs are also proved for all bounds, under the
assumptions that [the proofs](#the-proofs) name; what follows is why a run meets the
interesting cases.

- *Cache.* Three tasks are the fewest with which a task is queued behind a queued one,
  so that a lock handed on, a waiter that gives up between two others and a call that loses its turn to two fetches all
  occur. One key: keys share no state but the clears. One clear gives two lock objects
  per key at once. `LOCK_WAIT_TIMEOUT` is twice `FETCH_TIMEOUT`, as in the code.
- *Write-back.* Two writers with two attempts make up to four save threads on one tab;
  summaries of one and two rows make a grid that is too small, and one that is larger
  than the report. At first the tab does not exist, or has three rows with or without the report's columns,
  so both ways of opening it occur, and a grid that is too short or too narrow.
  The code has three attempts: the third repeats the second's steps.
- *Client.* Each thread may call any number of times; `MaxClients` is never reached
  (`ClientsPerReload` says why).
- *Allocation.* Ticks of about 1.2 s keep the order of the code's limits: a read with
  its retry (5 ticks) fits into a fetch (6), two do not. The lifetime is scaled from 300 s
  to 7 ticks, still longer than a fetch. The clock may move between the store of the DR
  totals and that of the allocation made of them, a moment later: the two entries then
  expire apart and drift.
- *Commands.* The Portfolio sheet has up to three rows of ten kinds: a duplicate pair with
  a skipped row above, between or below; every kind of cell occurs in some row. The DR tab
  has two main rows and one in section 2 over three securities, one of them in two
  spellings: duplicates, an override by section 2, every kind of cell. The AssetAllocation
  sheet has up to three rows: cash and DR in two spellings each, and every kind of cell.
  Half a satang, to which an amount may round, is one unit (`SATANG` is 2), so values that
  round up, down and to nothing occur. `MCInit` takes every such content of one sheet beside a few of the other two: the
  commands join the sheets by the rate and the DR totals only. Two commands besides
  `validate` are answered, since the properties compare two; the tab is edited during the
  first only, as what comes later starts anew from an initial state, not before its first read,
  for the same reason, and once at most while a summary waits for its second count. `HOLDINGS_LIMIT` is 2,
  so that the list is cut off. `WarnedOnlyIfNothingToShare` depends on the number of
  entries: each share is rounded by at most half a hundredth of a percent, so that up to a
  hundred entries stay within the tolerance; the sheet has a handful.
- *Sample sheets.* Three ids are enough for a test id to be that of either production
  spreadsheet, or of neither. The proofs are for any number.
- *Webhook.* Two requests of up to three events; the user starts in any of three roles
  and changes it once. The quota is low from the first message on. The commands of the
  batches cover each level: open, serving, clearing.

## Fairness

Only two runs check liveness, and both assume of the code's scheduling just this:

- `ResponseCache!Fairness`: the event loop resumes a task whose lock is free (`Wake`)
  and fires due timers (`TimeOut`), and time passes (`Tick`). Nothing is assumed of the
  source: a fetch may hang for ever, and `CallsEnd` holds because of the time-outs.
- `WriteBack!FairSpec`: the timers of `wait_for` and `sleep` fire and the writer goes on
  (`WriterStep`). Nothing is assumed of the threads or of the API.

`LATE` bounds how much later than due a timer may fire. The code does not bound it:
`reply_message` (`main.py:248`) is a blocking call on the event loop. The bound on
staleness is stated relative to it.

## The proofs

`ResponseCacheProofs` proves, for any sets of tasks and keys and all values of the
limits (from `CacheConstants` alone: lifetimes and limits are positive, lateness and
bounds are naturals):

| theorem | statement |
|---|---|
| `TypeCorrect` | `Spec => []TypeOK`: also, no timer passes its limit by more than `LATE` |
| `LockSafe` | `Spec => []LockSafety` |
| `AnswersYoung` | `Spec => []StalenessBounded` |
| `Coalesced` | `Spec => StoresCoalesced` |
| `Refinement` | `Spec => ImplementsMemo`, which is `Memo!Spec` |

The inductive invariant is `CacheInv == TaskInv /\ EntryInv`. The properties are not
inductive alone, for these reasons:

- `LockSafety` needs to know that a task inside the wrapper has chosen a lock of its key
  (`LockChosen`): then what one task releases is not what another holds.
- `StalenessBounded` speaks of answers; what makes it hold is that data in a fetch is
  never older than the fetch (`DataLag`), whose timer the type invariant bounds, and that
  a stored value is older than its entry by at most one late fetch (`EntryLag`).
- `StoresCoalesced` needs that a task that fetches while the entry of its key is fresh
  does so under another lock object than the one that stored it (`EntryOfOther`). This
  holds because `Wake` and `CallMiss` look at the cache when they take the lock, and the
  lock keeps the others out until the store.

There is one lemma per action, with a step per conjunct that the action can disturb; `Refinement` maps every
action to one of `TtlMemo`'s, or to a stutter, under `CacheInv`.

### The other components

All are proved from the constants' assumptions alone, for any finite or infinite sets of
writers, requests and users (the client: any finite set of threads) and all time limits.

| module | theorems | statement |
|---|---|---|
| `WriteBackProofs` | `TypeCorrect`, `KeysOfLiveWrites`, `WritersExclusive`, `TabWhole`, `SuccessShown` | `TypeOK`, `KeyOfFailureDropped`, `OneWriterPerSummary`, `WholeUnlessOverlap`, `OkIsShownUnlessOverlap` |
| `SheetsClientProofs` | `TypeCorrect`, `PublishedBounded`, `RaisesOnlyCrossed`, `ClientsBounded` | `TypeOK`, `PublishedClientBounded`, `FailsOnlyAcrossReload`, `ClientsPerReload` |
| `AllocationReadProofs` | `TypeCorrect`, `LayersAddUp`, `RetriesFit` | `TypeOK`, `StalenessByLayers`, and `SingleReadFits` if the longest read is shorter than the limit of a fetch |
| `WebhookProofs` | `TypeCorrect`, `AccessIsTimely`, `WarningIsTimely` | `TypeOK`, `AccessTimely`, `WarnedInTime` |
| `SampleSheetsProofs` | `OverwritesConfirmed`, `OverwritesCrosswise` | `OnlyConfirmed`, `OnlyCrosswise`, which no run checks |
| `CommandsProofs` | `TypeCorrect` | `TypeOK` |
| | `ReportsAccountForRows`, `ValidHasNoIssue`, `FullSheetsAreNumbered` | `RowsAccounted`, `ValidMeansNoIssue`, `RowNumbersRightInFullSheet` |
| | `RowNumbersShift` | the row a report names is too small by the incomplete rows above it (a lemma about any sheet, which no run checks) |
| | `MergedExactly`, `HeldRowsAreReported`, `CalmPositionsCounted` | `ExactWhenQuiet`, `Accounted`, `OthersUndisturbed` |
| | `ValidSheetsShownWhole`, `EmptyIsEmpty`, `DrIsTheSameEverywhere` | `ValidMeansShownWhole`, `EmptyOnlyIfNegligible`, `DrAgrees` |
| | `RoundingGivesNoWarning` | `WarnedOnlyIfNothingToShare`, for at most `2 * ALLOCATION_TOLERANCE` entries: a hundred |

Each module proves `Invariance == Spec => []IInv` first, and the rest from it. What the
invariants add to the properties:

- `WriteBackProofs`. *Keys*: a key names its owner's summary and its owner has not failed
  (`KeysOwned`); until a refresh, whoever is at work still owns its key (`KeysKept`). *Tab*:
  while saves have not overlapped, the one that runs is the current attempt of the call
  that started last (`Alone`), found the grid as it is and updates a blank tab
  (`TabFollows`), and leaves nobody to touch the tab after it (`ThroughIsShown`).
- `SheetsClientProofs`. A published client that is not bounded is that of its `maker`, which
  is still at line 38. A thread at line 38 or 40 that would find no client has seen a
  reload (`Crossed`). The count of clients is kept by `Budget`: while there is a client,
  only threads that are already at line 35 make another, so those made and those threads
  together stay within one round of all threads per reload.
- `AllocationReadProofs`. *Entries*: how much older than its entry each part of it may be,
  layer by layer (`DrLag`, `SheetLag`). *Pace*: while the sheet is read, the time in the
  fetch is bounded by what the attempts and back-offs before this one can have taken
  (`Before`), which makes `RetriesFit` an inequality between constants.
- `WebhookProofs`. *Quota*: unless a poll has been slow, polls exclude each other, and a
  count that was not low dates from after the check (`QuotaInv`). *Flow*: a request between
  look-up and reply is at a text event, and only one that waits for the quota has a poll
  (`FlowInv`, `PollInv`). *Users*: the role a fetch has read was given no longer ago than
  the fetch has run, and that in the cache no longer than its age and a fetch (`UserInv`).
- `SampleSheetsProofs`. While it is at a spreadsheet, its id has passed its own check
  (`Checked`), and from the first tab on its title has been retyped (`Retyped`).

### The commands on the sheets

`CommandsProofs` proves the properties of the run `commands` for sheets of any length,
any cells and any number of edits. It rests on `ValidationConstants` (rows are what the
API can return), `AllocationSheetConstants` (cells are integers, names can be folded) and
`DrTotalsConstants` (cells are integers, a satang is some positive number of their units).
`MCInit` chooses some of `Init`'s states, so the theorems cover the run's. The invariant
is the conjunction of six parts.

- `SheetInv`: a report is that of the sheet as it is, or of a failed read.
- `TabInv`: types; what the reads of the DR tab have returned are rows a read can return.
- `QuietInv`: if nothing is edited, each read has returned what the tab holds.
- `CalmInv`: whatever is edited, each read has returned what the tab holds *of the symbols
  that no edit has touched*. `OthersUndisturbed` is about totals merged from three
  different tabs, so it has to be carried from read to read in this form.
- `DraftInv`: a summary that waits for its second count is right as it is; what the count
  replaces is then right by `QuietInv`.
- `AnswerInv`: a reply says what its sources say (`Right`). The properties that compare
  two commands follow from this, as both replies then have one source.

The rest is about operators. `MergeExact` turns the sum by symbol into the sum by row,
through the bijection of a symbol and its only row. `CalmMerge` splits the merged
positions into those of calm and of touched symbols: the former are those of the calm
rows one by one, the latter what the merge makes of the touched symbols alone
(`Undisturbed`), so the totals are exactly the sum of both.
`RoundedToNothing` says which positions have the value 0: those worth half a satang at the
most, which is what `EmptyIsEmpty` comes down to, as no value is negative.
`ShownWhole` shows that validation and the two other parsers keep the same rows of a
valid sheet, and that none is listed twice. `AllocationIs` shows that the row that is DR before
`ReplaceDr` is DR after it, with the value put in. `RoundingIsTolerated` bounds the sum
of the rounded shares by half a unit for each entry. That bound is why
`RoundingGivesNoWarning` has a hypothesis: with many more entries, rounding alone can
set the warning off.

Sums are `SumFunction` of the community modules, whose recursion is on finite sets. The
library's induction theorems take an operator, which the provers cannot instantiate;
`RowSums` goes around them with a *set* of good cases and the least bad one, which exists
because proper inclusion of finite sets is well-founded. From that it derives what sums
need: an element more, a bijection, termwise comparison, additivity. For the same reason
the rows that a read keeps are a function on their places in the sheet (`RestrictValues`)
and not a shorter sequence. It holds the same rows in the same order; where the code
uses a row's index in the shorter list, as the row numbers of a report do, the model
counts the kept rows up to that one (`UpTo`).

### Model-checked only

Liveness: `CallsEnd` and `WritesEnd`. Fairness and ENABLED are out of the prover's reach.

## What is abstracted

- *Time* is discrete. Timestamps are kept as ages, which stop once nothing tells them
  apart. An expired cache entry is never removed by the code; the models drop it where
  it makes no difference.
- *Values* are known by when they were read. Texts and layout are left out.
  The values and costs of DR positions and the shares of the allocation are rounded to
  hundredths as `quantize` does it (`Decimals`), since the one decides whether a portfolio
  counts as empty and the other whether a warning appears. The quotients that are rounded
  are taken as exact; Python's have 28 digits. An infinite amount in the AssetAllocation sheet is not modelled.
- *The DR and Portfolio sheets* are rows of cells, each cell known by how it parses.
- *`Commands`* reads anew for each command and keeps the Portfolio and AssetAllocation
  sheets as they are: retries, time limits and the cache are the subject of `SheetsRead`,
  `AllocationRead` and `ResponseCache`, edits that of the DR tab, which is read three times.
- *One spreadsheet* in `WriteBack`, `AllocationRead` and `Commands`: the code keeps nothing that two spreadsheets share but the client and the cache's clear.
- *`AllocationRead`* has one command at a time; callers that meet are the subject of
  `ResponseCache`. A hung attempt's abandoned thread has no effect and no state.
- *`Webhook`*: requests that miss the user mapping together each fetch it, as they may
  when a refresh falls between them; that they otherwise share one fetch is
  `ResponseCache`'s. Which message a failure becomes (`SheetsReadError` of the user
  mapping is reported by the portfolio command as a problem of the exchange rate) is
  collapsed to `failed`. The signature check is not modelled. `Quota` leaves out the turn
  of the month, at which LINE counts from zero.
- *The order of waiters* is that of `asyncio.Lock`, which is outside the repository: no property
  is about it.
- *`Validation`*: the report holds a set of issues; their order and wording are left out.

- *The quota poll* has no time limit in the code, so that the reply of the request that polls
  may wait for as long as LINE does, whatever `main.py:83` says of a failed quota read. The
  model lets a poll last for ever too; no liveness of replies is claimed.
- *`SampleSheets`*: the sample data is one value per tab, and a request has its effect or
  fails before it.

Not modelled: profits and weights of `models/portfolio.py` (arithmetic that unit tests
reach); charts, builders, configuration, logging and redaction, which keep no state;
`get_asset_breakdown` (one cached read of the kind that `AllocationRead` has, and a sum);
`check_sheets_health` (a single request whose failure is an answer; its use of the client
is that of any thread of `SheetsClient`).

## Plan

Done: the cache, on which everything rests, and its proofs; the places where threads
outlive their callers (`WriteBack`, `SheetsClient`); the nested time limits (`SheetsRead`,
`AllocationRead`); the sheets and the commands over them (`DrTotals`, `Validation`,
`AllocationSheet`, `Commands`); the way of a message (`Quota`, `Webhook`); the sample sheet
script; proofs of the safety properties of all. Next, in this order:

1. *Models*: several callers in `AllocationRead`, so that a nested fetch is awaited by two;
   `get_asset_breakdown` and `check_sheets_health`.
2. *Refinement*: `Webhook`'s user mapping, with fetches that requests share, as an instance
   of `TtlMemo`.
