------------------------- MODULE SampleSheetsProofs -------------------------
(***************************************************************************)
(* The two guards of the sample sheet script, for any number of            *)
(* spreadsheets and any number of runs.  While the script is at a          *)
(* spreadsheet, its id has passed its check (Checked), and from the first  *)
(* tab on its title has been retyped (Retyped).                            *)
(***************************************************************************)
EXTENDS SampleSheets, TLAPS

Parts == {"test", "testMaster"}
Contents == {"absent", "own", "blank", "sample"}
Writing == {"find", "clear", "update"}

Checked == pc \notin {"start", "ended"} => ~ Refused("test") /\ ~ Refused("testMaster")
Retyped == pc \in Writing => Destination \in confirmed

IInv == TypeOK /\ Checked /\ Retyped

(* The lists of tabs, and what the script may find on a tab.               *)
LEMMA TabNames ==
    /\ Tabs = {"Portfolio", "PortfolioSummary", "TodaySummary",
               "HoldingsBreakdown", "AssetAllocation", "Users"}
    /\ Len(TabsOf["test"]) = 5 /\ Len(TabsOf["testMaster"]) = 1
    /\ \A p \in Parts, n \in Nat : n \in 1 .. Len(TabsOf[p]) => TabsOf[p][n] \in Tabs
<1>1. DOMAIN PortfolioTabs = 1 .. 5 /\ Len(PortfolioTabs) = 5
  BY DEF PortfolioTabs
<1>2. Tabs = {"Portfolio", "PortfolioSummary", "TodaySummary",
              "HoldingsBreakdown", "AssetAllocation", "Users"}
  <2>1. 1 .. 5 = {1, 2, 3, 4, 5}
    OBVIOUS
  <2> QED
    BY <1>1, <2>1 DEF Tabs, PortfolioTabs
<1>3. Len(TabsOf["test"]) = 5 /\ Len(TabsOf["testMaster"]) = 1
  BY <1>1 DEF TabsOf, MasterTabs
<1>4. ASSUME NEW n \in 1 .. 5 PROVE TabsOf["test"][n] \in Tabs
  BY <1>1 DEF TabsOf, Tabs
<1>5. TabsOf["testMaster"][1] \in Tabs
  BY <1>2 DEF TabsOf, MasterTabs
<1> QED
  BY <1>2, <1>3, <1>4, <1>5 DEF Parts

LEMMA InitInv == Init => IInv
<1> SUFFICES ASSUME Init PROVE IInv
  OBVIOUS
<1>1. TypeOK
  BY TabNames DEF Init, TypeOK, Settings
<1> QED
  BY <1>1 DEF Init, IInv, Checked, Retyped, Writing

(* A tab that is written keeps its type. *)
LEMMA PutTyped ==
    ASSUME TypeOK, pc \in Writing, NEW c \in Contents, Put(c)
    PROVE  /\ tabs' \in [Ids -> [Tabs -> Contents]]
           /\ \A i \in Ids : tabs'[i] # tabs[i] => i = Destination
<1>1. Destination \in Ids /\ Tab \in Tabs
  BY TabNames DEF TypeOK, Writing, Destination, Tab, Parts, Settings
<1>2. tabs \in [Ids -> [Tabs -> Contents]]
  BY DEF TypeOK, Contents
<1> QED
  BY <1>1, <1>2 DEF Put

(* Every step keeps the invariant, and overwrites nothing but the          *)
(* spreadsheet that the script is at, which has been retyped and checked.  *)
LEMMA StepInv == IInv /\ [Next]_vars => IInv' /\
    (\A i \in Ids : tabs'[i] # tabs[i] => pc \in Writing /\ i = Destination)
<1> SUFFICES ASSUME IInv, [Next]_vars
             PROVE  IInv' /\ (\A i \in Ids : tabs'[i] # tabs[i]
                                => pc \in Writing /\ i = Destination)
  OBVIOUS
<1> USE DEF IInv, Checked, Retyped, Writing, Unchanged, Destination
<1>1. CASE Require
  BY <1>1 DEF Require, Refused, Production, Exit, Goto, TypeOK, Settings
<1>2. CASE Open
  BY <1>2 DEF Open, Goto, TypeOK, Refused, Production
<1>3. CASE Confirm
  BY <1>3 DEF Confirm, TypeOK, Refused, Production
<1>4. CASE Mistype
  BY <1>4 DEF Mistype, Exit, TypeOK
<1>5. CASE Find
  <2>1. tabs' = tabs \/ Put("blank")
    BY <1>5 DEF Find
  <2>2. /\ tabs' \in [Ids -> [Tabs -> Contents]]
        /\ \A i \in Ids : tabs'[i] # tabs[i] => i = Destination
    BY <1>5, <2>1, PutTyped DEF Find, Contents, TypeOK
  <2> QED
    BY <1>5, <2>2 DEF Find, TypeOK, Contents, Refused, Production
<1>6. CASE Clear
  <2>1. /\ tabs' \in [Ids -> [Tabs -> Contents]]
        /\ \A i \in Ids : tabs'[i] # tabs[i] => i = Destination
    BY <1>6, PutTyped DEF Clear, Contents
  <2> QED
    BY <1>6, <2>1 DEF Clear, TypeOK, Contents, Refused, Production
<1>7. CASE Update
  <2>1. /\ tabs' \in [Ids -> [Tabs -> Contents]]
        /\ \A i \in Ids : tabs'[i] # tabs[i] => i = Destination
    BY <1>7, PutTyped DEF Update, Contents
  <2>2. next' \in 1 .. Len(TabsOf[part']) /\ part' \in Parts
    <3>1. part \in Parts /\ next \in 1 .. Len(TabsOf[part])
      BY DEF TypeOK, Parts
    <3>2. Len(TabsOf[part]) \in Nat /\ Len(TabsOf["testMaster"]) = 1
      BY <3>1, TabNames DEF Parts
    <3>3. CASE next < Len(TabsOf[part]) /\ next' = next + 1 /\ part' = part
      BY <3>1, <3>2, <3>3
    <3>4. CASE next' = 1 /\ part' = "testMaster"
      <4>1. Len(TabsOf[part']) = 1
        BY <3>2, <3>4
      <4> QED
        BY <3>4, <4>1 DEF Parts
    <3>5. CASE next' = next /\ part' = part
      BY <3>1, <3>5
    <3> QED
      BY <1>7, <3>3, <3>4, <3>5 DEF Update
  <2> QED
    BY <1>7, <2>1, <2>2 DEF Update, TypeOK, Contents, Parts, Refused, Production
<1>8. CASE Fails
  BY <1>8 DEF Fails, Exit, TypeOK
<1>9. CASE Rerun
  <2>1. settings' \in Settings
    BY <1>9 DEF Rerun, TypeOK, Settings
  <2> QED
    BY <1>9, <2>1, TabNames DEF Rerun, TypeOK
<1>10. CASE UNCHANGED vars
  BY <1>10 DEF vars, TypeOK, Refused, Production
<1> QED
  BY <1>1, <1>2, <1>3, <1>4, <1>5, <1>6, <1>7, <1>8, <1>9, <1>10 DEF Next

(* However the runs of the script end and start again, its variables keep  *)
(* their types, and past the guard both test ids are set.                  *)
THEOREM Invariance == Spec => []IInv
BY InitInv, StepInv, PTL DEF Spec

(* A person has retyped the title of every spreadsheet that a run of the   *)
(* script overwrites (lines 133-147), whatever became of earlier runs.     *)
THEOREM OverwritesConfirmed == Spec => OnlyConfirmed
<1>1. IInv /\ [Next]_vars => [Overwritten \subseteq confirmed]_vars
  BY StepInv DEF IInv, Retyped, Overwritten
<1> QED
  BY <1>1, Invariance, PTL DEF Spec, OnlyConfirmed

(* The id checks (lines 110-130) leave one way for a production            *)
(* spreadsheet to be overwritten: its id stands as the test id of the      *)
(* other part.                                                             *)
THEOREM OverwritesCrosswise == Spec => OnlyCrosswise
<1>1. ASSUME IInv, [Next]_vars, NEW i \in Overwritten
      PROVE  \/ i = settings.test /\ i # settings.production
             \/ i = settings.testMaster /\ i # settings.master
  <2>1. pc \in Writing /\ i = Destination
    BY <1>1, StepInv DEF Overwritten
  <2> QED
    BY <1>1, <2>1 DEF IInv, Checked, TypeOK, Writing, Refused, Production, Destination
<1>2. IInv /\ [Next]_vars =>
        [\A i \in Overwritten \cap {settings.production, settings.master} :
            \/ i = settings.test /\ i # settings.production
            \/ i = settings.testMaster /\ i # settings.master]_vars
  BY <1>1
<1> QED
  BY <1>2, Invariance, PTL DEF Spec, OnlyCrosswise
=============================================================================
