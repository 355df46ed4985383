---------------------------- MODULE SampleSheets ----------------------------
(***************************************************************************)
(* scripts/setup_sample_sheets.py: it fills two test spreadsheets with     *)
(* sample data.  Two guards stand before the overwriting: the ids are      *)
(* compared with those of production (_require_test_sheet_id), and a       *)
(* person retypes the title of each spreadsheet (_confirm_destination).    *)
(*                                                                         *)
(* The script may be run again; it may fail at any request, and leaves     *)
(* behind what it has written by then.  An id that is not set is None.     *)
(***************************************************************************)
EXTENDS Naturals, Sequences

CONSTANTS
    Ids,    \* ids of spreadsheets
    Titles, \* titles of spreadsheets
    None

PortfolioTabs ==
    <<"Portfolio", "PortfolioSummary", "TodaySummary", "HoldingsBreakdown",
      "AssetAllocation">>
MasterTabs == <<"Users">>
Tabs == {PortfolioTabs[i] : i \in DOMAIN PortfolioTabs} \cup {"Users"}

VARIABLES
    settings,   \* the four ids of config.py
    title,      \* titles of the spreadsheets, as their owners have set them
    tabs,       \* what is on the tabs of each spreadsheet
    pc,         \* the script's next step
    part,       \* the spreadsheet it is at, as a field of settings
    next,       \* the tab it is at
    confirmed,  \* ids that a person has confirmed in this run (history)
    said        \* the last message of a run that ended

vars == <<settings, title, tabs, pc, part, next, confirmed, said>>

(* Settings.validate_critical_settings: if no master is set, the           *)
(* spreadsheet of the single user stands in for it.                        *)
Settings ==
    [test : Ids \cup {None}, testMaster : Ids \cup {None},
     production : Ids \cup {None}, master : Ids]

Init ==
    /\ settings \in Settings
    /\ title \in [Ids -> Titles]
    /\ tabs \in [Ids -> {[t \in Tabs |-> "own"], [t \in Tabs |-> "absent"]}]
    /\ pc = "start"
    /\ part = "test" /\ next = 1
    /\ confirmed = {}
    /\ said = "nothing"

TabsOf == [test |-> PortfolioTabs, testMaster |-> MasterTabs]
Production == [test |-> settings.production, testMaster |-> settings.master]

Destination == settings[part]
Tab == TabsOf[part][next]

Unchanged == UNCHANGED <<settings, title, confirmed>>

Exit(message) ==
    /\ pc' = "ended" /\ said' = message
    /\ UNCHANGED <<tabs, part, next>> /\ Unchanged

Goto(step) ==
    /\ pc' = step
    /\ UNCHANGED <<tabs, part, next, said>> /\ Unchanged

(* _require_test_sheet_id: each id is compared with its own counterpart.   *)
Refused(p) == settings[p] = None \/ settings[p] = Production[p]

Require ==
    /\ pc = "start"
    /\ IF Refused("test") \/ Refused("testMaster")
       THEN Exit("refused") ELSE Goto("open")

(* open_by_key *)
Open == pc = "open" /\ Goto("confirm")

(* _confirm_destination: any answer may come, or none at all. *)
Confirm ==
    /\ pc = "confirm"
    /\ \E answer \in Titles :
        /\ answer = title[Destination]
        /\ pc' = "find"
        /\ confirmed' = confirmed \cup {Destination}
        /\ UNCHANGED <<settings, title, tabs, part, next, said>>
Mistype ==
    /\ pc = "confirm"
    /\ \E answer \in Titles \cup {None} :
        /\ answer # title[Destination]
        /\ Exit(IF answer = None THEN "no input" ELSE "nothing was written")

(* _write_sheet *)
Put(content) == tabs' = [tabs EXCEPT ![Destination][Tab] = content]

Find ==
    /\ pc = "find"
    /\ pc' = "clear"
    /\ IF tabs[Destination][Tab] = "absent" THEN Put("blank") ELSE UNCHANGED tabs
    /\ UNCHANGED <<part, next, said>> /\ Unchanged

Clear ==
    /\ pc = "clear"
    /\ pc' = "update"
    /\ Put("blank")
    /\ UNCHANGED <<part, next, said>> /\ Unchanged

(* The next tab, the next spreadsheet, or the end. *)
Update ==
    /\ pc = "update"
    /\ Put("sample")
    /\ \/ /\ next < Len(TabsOf[part])
          /\ next' = next + 1 /\ pc' = "find"
          /\ UNCHANGED <<part, said>>
       \/ /\ next = Len(TabsOf[part]) /\ part = "test"
          /\ part' = "testMaster" /\ next' = 1 /\ pc' = "open"
          /\ UNCHANGED said
       \/ /\ next = Len(TabsOf[part]) /\ part = "testMaster"
          /\ pc' = "ended" /\ said' = "production was not touched"
          /\ UNCHANGED <<part, next>>
    /\ Unchanged

(* A request fails, or the person interrupts the script. *)
Fails == pc # "ended" /\ Exit("traceback")

(* It is started again, perhaps with other settings. *)
Rerun ==
    /\ pc = "ended"
    /\ pc' = "start" /\ part' = "test" /\ next' = 1 /\ said' = "nothing"
    /\ confirmed' = {}
    /\ \E test, testMaster \in Ids \cup {None} :
        settings' = [settings EXCEPT !.test = test, !.testMaster = testMaster]
    /\ UNCHANGED <<title, tabs>>

Next ==
    \/ Require \/ Open \/ Confirm \/ Mistype
    \/ Find \/ Clear \/ Update \/ Fails \/ Rerun

Spec == Init /\ [][Next]_vars

----------------------------------------------------------------------------
TypeOK ==
    /\ settings \in Settings
    /\ title \in [Ids -> Titles]
    /\ tabs \in [Ids -> [Tabs -> {"absent", "own", "blank", "sample"}]]
    /\ pc \in {"start", "open", "confirm", "find", "clear", "update", "ended"}
    /\ part \in {"test", "testMaster"}
    /\ next \in 1 .. Len(TabsOf[part])
    /\ confirmed \subseteq Ids
    /\ pc \notin {"start", "ended"} =>
        settings.test \in Ids /\ settings.testMaster \in Ids

Overwritten == {i \in Ids : tabs'[i] # tabs[i]}

(* The checkpoint of lines 133-147: a spreadsheet is overwritten only if a *)
(* person has retyped its title in the same run, however the runs before   *)
(* it went.                                                                *)
OnlyConfirmed == [][Overwritten \subseteq confirmed]_vars

(* The guard of lines 110-130 goes as far as this: a spreadsheet of        *)
(* production is overwritten only if the id of one part of it was given as *)
(* the test id of the other.                                               *)
OnlyCrosswise ==
    [][\A i \in Overwritten \cap {settings.production, settings.master} :
        \/ i = settings.test /\ i # settings.production
        \/ i = settings.testMaster /\ i # settings.master]_vars

(* Lines 3-6: "This script never touches production spreadsheets [...] If  *)
(* a test id is missing (or equals a production id), the script aborts     *)
(* before doing anything."                                                 *)
ProductionUntouched ==
    [][Overwritten \cap {settings.production, settings.master} = {}]_vars
=============================================================================
