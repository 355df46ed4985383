--------------------------- MODULE CommandsProofs ---------------------------
(***************************************************************************)
(* Theorems about Commands.  Every property that the run 'commands' checks *)
(* on a small spreadsheet is proved here for sheets of any length, any     *)
(* cells and any bounds.                                                   *)
(***************************************************************************)
EXTENDS Commands, RowSums

----------------------------------------------------------------------------
(* Sheets, and sets of their rows. *)

Short(s) == {i \in DOMAIN s : IsShort(s[i])}
Complete(s) == {i \in DOMAIN s : IsComplete(s[i])}
Content(s) == {i \in DOMAIN s : ~IsBlank(s[i]) /\ ~IsHeader(s[i])}
Bad(s) == {i \in Complete(s) : FieldIssues(s[i]) # {}}

LEMMA RowsOfSheet ==
    ASSUME NEW R, NEW s \in Seq(R)
    PROVE  /\ Len(s) \in Nat
           /\ DOMAIN s = 1 .. Len(s)
           /\ \A i \in DOMAIN s : s[i] \in R
OBVIOUS

(* Rows of a sheet, however chosen, are finitely many.                     *)
LEMMA RowsFinite ==
    ASSUME NEW R, NEW s \in Seq(R), NEW I \in SUBSET (DOMAIN s)
    PROVE  IsFiniteSet(I) /\ Cardinality(I) \in 0 .. Len(s)
<1>1. IsFiniteSet(1 .. Len(s)) /\ Cardinality(1 .. Len(s)) = Len(s)
    BY RowsOfSheet, FS_Interval
<1>2. IsFiniteSet(I) /\ Cardinality(I) <= Len(s)
    BY <1>1, RowsOfSheet, FS_Subset
<1>. QED BY <1>2, FS_CardinalityType, RowsOfSheet

LEMMA BoundedSheets ==
    ASSUME NEW R, NEW n \in Nat, NEW s \in BoundedSeq(R, n)
    PROVE  s \in Seq(R) /\ Len(s) <= n
BY DEF BoundedSeq, SeqOf

(* Two sets have one size if a function takes one to the other, one by one. *)
LEMMA SameSize ==
    ASSUME NEW S, NEW T, IsFiniteSet(S), NEW f \in [S -> T],
           \A x, y \in S : f[x] = f[y] => x = y,
           \A y \in T : \E x \in S : f[x] = y
    PROVE  IsFiniteSet(T) /\ Cardinality(T) = Cardinality(S)
<1>1. f \in Surjection(S, T) /\ f \in Injection(S, T)
    BY DEF Surjection, Injection, IsInjective
<1>. QED BY <1>1, FS_Surjection

----------------------------------------------------------------------------
(* validate_portfolio: what a report counts. *)

(* CompleteRows keeps the complete rows, each in its place.                *)
LEMMA CompleteRowsAre ==
    ASSUME NEW s
    PROVE  /\ DOMAIN CompleteRows(s) = Complete(s)
           /\ \A i \in Complete(s) : CompleteRows(s)[i] = s[i]
BY DEF CompleteRows, RestrictValues, Restrict, Complete

(* A row with content is either short or complete, never both.             *)
LEMMA ContentIsShortOrComplete ==
    ASSUME NEW s \in Seq(RawRows)
    PROVE  /\ Content(s) = Short(s) \cup Complete(s)
           /\ Short(s) \cap Complete(s) = {}
<1>1. \A i \in DOMAIN s : s[i].columns \in Nat
    BY ValidationConstants, RowsOfSheet
<1>. QED BY <1>1 DEF Content, Short, Complete, IsBlank, IsHeader, IsShort, IsComplete

(* The short rows a read reports are the short rows of the sheet.          *)
LEMMA ShortRowsCounted ==
    ASSUME NEW s \in Seq(RawRows)
    PROVE  /\ IsFiniteSet(ShortRowsIn(s))
           /\ Cardinality(ShortRowsIn(s)) = Cardinality(Short(s))
<1>. DEFINE f == [i \in Short(s) |-> SheetRow(i)]
<1>1. IsFiniteSet(Short(s)) /\ Short(s) \subseteq Nat
    BY RowsFinite, RowsOfSheet DEF Short
<1>2. ShortRowsIn(s) = {SheetRow(i) : i \in Short(s)}
    BY DEF ShortRowsIn, Short
<1>3. f \in [Short(s) -> ShortRowsIn(s)]
    BY <1>2
<1>4. \A i, j \in Short(s) : f[i] = f[j] => i = j
    BY <1>1 DEF SheetRow
<1>5. \A n \in ShortRowsIn(s) : \E i \in Short(s) : f[i] = n
    BY <1>2
<1>. HIDE DEF f
<1>. QED BY <1>1, <1>3, <1>4, <1>5, SameSize

(* Each duplicated key has a row of its own, the last one, say.            *)
LEMMA DuplicateKeysFinite ==
    ASSUME NEW s \in Seq(RawRows)
    PROVE  IsFiniteSet(DuplicateKeys(CompleteRows(s)))
<1>. DEFINE rows == CompleteRows(s)
            keys == DuplicateKeys(rows)
            f == [k \in keys |-> CHOOSE i \in Complete(s) : Folded[s[i].symbol] = k]
<1>1. \A k \in keys : \E i \in Complete(s) : Folded[s[i].symbol] = k
    BY CompleteRowsAre DEF DuplicateKeys
<1>2. \A k \in keys : f[k] \in Complete(s) /\ Folded[s[f[k]].symbol] = k
    BY <1>1
<1>3. f \in Injection(keys, Complete(s))
    BY <1>2 DEF Injection, IsInjective
<1>4. IsFiniteSet(Complete(s))
    BY RowsFinite DEF Complete
<1>. HIDE DEF keys, f
<1>5. IsFiniteSet(keys)
    BY <1>3, <1>4, FS_Injection
<1>. QED BY <1>5 DEF keys

(* One issue is reported for each duplicated symbol.                       *)
LEMMA DuplicatesCounted ==
    ASSUME NEW s \in Seq(RawRows)
    PROVE  LET rows == CompleteRows(s)
           IN  Cardinality(DuplicateIssues(rows)) = Cardinality(DuplicateKeys(rows))
<1>. DEFINE rows == CompleteRows(s)
            f == [k \in DuplicateKeys(rows) |-> Issue(0, "duplicate", k)]
<1>1. f \in [DuplicateKeys(rows) -> DuplicateIssues(rows)]
    BY DEF DuplicateIssues
<1>2. \A k, l \in DuplicateKeys(rows) : f[k] = f[l] => k = l
    BY DEF Issue
<1>3. \A iss \in DuplicateIssues(rows) : \E k \in DuplicateKeys(rows) : f[k] = iss
    BY DEF DuplicateIssues
<1>4. IsFiniteSet(DuplicateKeys(rows))
    BY DuplicateKeysFinite
<1>. HIDE DEF rows, f
<1>5. Cardinality(DuplicateIssues(rows)) = Cardinality(DuplicateKeys(rows))
    BY <1>1, <1>2, <1>3, <1>4, SameSize
<1>. QED BY <1>5 DEF rows

(* The counts of a report, and that they are sizes of sets of rows.        *)
(* What the numbers of a report count.                                     *)
LEMMA SummaryCounts ==
    ASSUME NEW s \in Seq(RawRows)
    PROVE  LET keys == DuplicateKeys(CompleteRows(s))
               sum == Summary(s)
           IN  /\ sum.total = Cardinality(Short(s)) + Cardinality(Complete(s))
               /\ sum.valid = Cardinality(Complete(s)) - Cardinality(Bad(s))
               /\ sum.invalid = Cardinality(Short(s)) + Cardinality(Bad(s))
                                + Cardinality(keys)
               /\ sum.issues = ShortIssues(s) \cup RowIssues(CompleteRows(s))
                                    \cup DuplicateIssues(CompleteRows(s))
               /\ sum.total = Cardinality(Content(s))
               /\ Cardinality(Short(s)) \in Nat /\ Cardinality(keys) \in Nat
               /\ Cardinality(Complete(s)) \in Nat
               /\ Cardinality(Bad(s)) \in 0 .. Cardinality(Complete(s))
<1>. DEFINE rows == CompleteRows(s)
            keys == DuplicateKeys(rows)
            sum == Summary(s)
<1>1. {i \in DOMAIN rows : FieldIssues(rows[i]) # {}} = Bad(s)
    BY CompleteRowsAre DEF Bad
<1>2. DOMAIN rows = Complete(s)
    BY CompleteRowsAre
<1>3. Cardinality(ShortRowsIn(s)) = Cardinality(Short(s))
    BY ShortRowsCounted
<1>4. /\ sum.total = Cardinality(Short(s)) + Cardinality(Complete(s))
      /\ sum.valid = Cardinality(Complete(s)) - Cardinality(Bad(s))
      /\ sum.invalid = Cardinality(Short(s)) + Cardinality(Bad(s)) + Cardinality(keys)
      /\ sum.issues = ShortIssues(s) \cup RowIssues(rows) \cup DuplicateIssues(rows)
    BY <1>1, <1>2, <1>3 DEF Summary
<1>5. /\ IsFiniteSet(Short(s)) /\ Cardinality(Short(s)) \in Nat
      /\ IsFiniteSet(Complete(s)) /\ Cardinality(Complete(s)) \in Nat
    BY RowsFinite DEF Short, Complete
<1>6. Bad(s) \subseteq Complete(s) /\ IsFiniteSet(Bad(s))
    BY <1>5, FS_Subset DEF Bad
<1>7. Cardinality(Bad(s)) \in 0 .. Cardinality(Complete(s))
    BY <1>5, <1>6, FS_Subset, FS_CardinalityType
<1>8. Cardinality(keys) \in Nat
    BY DuplicateKeysFinite, FS_CardinalityType
<1>9. Cardinality(Content(s)) = Cardinality(Short(s)) + Cardinality(Complete(s))
    <2>1. Cardinality(Short(s) \cup Complete(s))
          = Cardinality(Short(s)) + Cardinality(Complete(s)) - Cardinality({})
        BY <1>5, FS_Union, ContentIsShortOrComplete
    <2>. QED BY <2>1, <1>5, FS_EmptySet, ContentIsShortOrComplete
<1>. QED BY <1>4, <1>5, <1>7, <1>8, <1>9

(* The issues of a report, by what they are about. *)
LEMMA IssueOfShort ==
    ASSUME NEW s \in Seq(RawRows), NEW iss \in ShortIssues(s)
    PROVE  \E i \in Short(s) : iss = Issue(SheetRow(i), "short", "UNKNOWN")
BY DEF ShortIssues, ShortRowsIn, Short

LEMMA IssueOfRow ==
    ASSUME NEW s \in Seq(RawRows), NEW iss \in RowIssues(CompleteRows(s))
    PROVE  \E i \in Complete(s) : \E kind \in FieldIssues(s[i]) :
                iss = Issue(ReportedRow(CompleteRows(s), i), kind, s[i].symbol)
<1>. DEFINE rows == CompleteRows(s)
<1>1. PICK i \in DOMAIN rows : \E kind \in FieldIssues(rows[i]) :
            iss = Issue(ReportedRow(rows, i), kind, rows[i].symbol)
    BY DEF RowIssues
<1>2. i \in Complete(s) /\ rows[i] = s[i]
    BY CompleteRowsAre
<1>. QED BY <1>1, <1>2

(* An issue of a row is about its symbol or one of its fields.             *)
LEMMA FieldIssueKinds ==
    ASSUME NEW r
    PROVE  FieldIssues(r) \subseteq Fields \cup {"symbol"}
BY DEF FieldIssues

(* Where the reported number of a complete row lies; it is the row of the  *)
(* sheet if every row is complete.                                         *)
LEMMA ReportedRows ==
    ASSUME NEW s \in Seq(RawRows), NEW i \in Complete(s)
    PROVE  /\ ReportedRow(CompleteRows(s), i) \in 2 .. Len(s) + 1
           /\ Complete(s) = DOMAIN s => ReportedRow(CompleteRows(s), i) = i + 1
<1>. DEFINE before == UpTo(CompleteRows(s), i)
<1>1. before = {j \in Complete(s) : j <= i}
    BY CompleteRowsAre DEF UpTo
<1>2. i \in 1 .. Len(s) /\ DOMAIN s = 1 .. Len(s) /\ Len(s) \in Nat
    BY RowsOfSheet DEF Complete
<1>3. before \in SUBSET (DOMAIN s) /\ i \in before
    BY <1>1, <1>2 DEF Complete
<1>4. IsFiniteSet(before) /\ Cardinality(before) \in 0 .. Len(s)
    BY <1>3, RowsFinite
<1>5. Cardinality(before) # 0
    BY <1>3, <1>4, FS_EmptySet
<1>6. Complete(s) = DOMAIN s => before = 1 .. i
    BY <1>1, <1>2
<1>7. Cardinality(1 .. i) = i
    BY <1>2, FS_Interval
<1>. HIDE DEF before
<1>8. ReportedRow(CompleteRows(s), i) = Cardinality(before) + 1
    BY DEF ReportedRow, before
<1>. QED BY <1>2, <1>4, <1>5, <1>6, <1>7, <1>8

(* The row that a report names for a complete row is too small by the       *)
(* number of blank, short and header rows above it, and by nothing else.   *)
THEOREM RowNumbersShift ==
    ASSUME NEW s \in Seq(RawRows), NEW i \in Complete(s)
    PROVE  ReportedRow(CompleteRows(s), i)
           + Cardinality({j \in DOMAIN s : j < i /\ ~IsComplete(s[j])}) = SheetRow(i)
<1>1. PICK before : before = UpTo(CompleteRows(s), i)
    OBVIOUS
<1>2. PICK other : other = {j \in DOMAIN s : j < i /\ ~IsComplete(s[j])}
    OBVIOUS
<1>3. i \in 1 .. Len(s) /\ DOMAIN s = 1 .. Len(s) /\ Len(s) \in Nat /\ IsComplete(s[i])
    BY RowsOfSheet DEF Complete
<1>4. before = {j \in DOMAIN s : j <= i /\ IsComplete(s[j])}
    BY <1>1, CompleteRowsAre DEF UpTo, Complete
<1>5. before \cup other = 1 .. i /\ before \cap other = {}
    <2>1. before \subseteq 1 .. i /\ other \subseteq 1 .. i
        BY <1>2, <1>3, <1>4
    <2>2. \A j \in 1 .. i : j \in DOMAIN s /\ (j < i \/ j = i)
        BY <1>3
    <2>3. 1 .. i \subseteq before \cup other
        BY <1>2, <1>3, <1>4, <2>2
    <2>. QED BY <1>2, <1>4, <2>1, <2>3
<1>6. /\ IsFiniteSet(before) /\ Cardinality(before) \in Nat
      /\ IsFiniteSet(other) /\ Cardinality(other) \in Nat
    <2>1. before \in SUBSET (DOMAIN s) /\ other \in SUBSET (DOMAIN s)
        BY <1>2, <1>4
    <2>2. IsFiniteSet(before) /\ IsFiniteSet(other)
        BY <2>1, RowsFinite
    <2>. QED BY <2>2, FS_CardinalityType
<1>7. Cardinality(before \cup other)
      = Cardinality(before) + Cardinality(other) - Cardinality(before \cap other)
    BY <1>6, FS_Union
<1>8. Cardinality(1 .. i) = i
    BY <1>3, FS_Interval
<1>9. Cardinality(before) + Cardinality(other) = i
    <2>1. Cardinality(before \cup other) = i
        BY <1>5, <1>8
    <2>2. PICK none : none = Cardinality(before \cap other)
        OBVIOUS
    <2>3. none = 0
        BY <1>5, <2>2, FS_EmptySet, Zenon
    <2>4. Cardinality(before \cup other) = Cardinality(before) + Cardinality(other) - none
        BY <1>7, <2>2
    <2>. QED BY <1>6, <2>1, <2>3, <2>4
<1>10. ReportedRow(CompleteRows(s), i) = Cardinality(before) + 1
    BY <1>1 DEF ReportedRow
<1>. QED BY <1>2, <1>3, <1>6, <1>9, <1>10 DEF SheetRow

(* An issue names no row beyond the sheet.                                 *)
LEMMA IssuesTyped ==
    ASSUME NEW s \in Seq(RawRows), Len(s) <= MaxRows, NEW iss \in Summary(s).issues
    PROVE  iss.row \in 0 .. MaxRows + 1 /\ iss.kind \in Kinds
<1>1. Len(s) \in Nat /\ MaxRows \in Nat /\ DOMAIN s = 1 .. Len(s)
    BY RowsOfSheet, ValidationConstants
<1>2. CASE iss \in ShortIssues(s)
    <2>1. PICK i \in Short(s) : iss = Issue(SheetRow(i), "short", "UNKNOWN")
        BY <1>2, IssueOfShort
    <2>2. i \in 1 .. Len(s)
        BY <1>1 DEF Short
    <2>. QED BY <1>1, <2>1, <2>2 DEF Issue, SheetRow, Kinds
<1>3. CASE iss \in RowIssues(CompleteRows(s))
    <2>1. PICK i \in Complete(s) : \E kind \in FieldIssues(s[i]) :
            iss = Issue(ReportedRow(CompleteRows(s), i), kind, s[i].symbol)
        BY <1>3, IssueOfRow
    <2>2. iss.row = ReportedRow(CompleteRows(s), i) /\ iss.kind \in FieldIssues(s[i])
        BY <2>1 DEF Issue
    <2>3. ReportedRow(CompleteRows(s), i) \in 2 .. Len(s) + 1
        BY ReportedRows
    <2>4. iss.kind \in Kinds
        BY <2>2, FieldIssueKinds DEF Kinds
    <2>. QED BY <1>1, <2>2, <2>3, <2>4
<1>4. CASE iss \in DuplicateIssues(CompleteRows(s))
    <2>1. iss.row = 0 /\ iss.kind = "duplicate"
        BY <1>4 DEF DuplicateIssues, Issue
    <2>2. iss.row \in 0 .. MaxRows + 1
        BY <1>1, <2>1
    <2>3. iss.kind \in Kinds
        BY <2>1 DEF Kinds
    <2>. QED BY <2>2, <2>3
<1>. QED BY <1>2, <1>3, <1>4, SummaryCounts

(* Only duplicates are called so. *)
LEMMA DuplicatesApart ==
    ASSUME NEW s \in Seq(RawRows)
    PROVE  {iss \in Summary(s).issues : iss.kind = "duplicate"}
            = DuplicateIssues(CompleteRows(s))
<1>1. \A iss \in ShortIssues(s) : iss.kind # "duplicate"
    BY IssueOfShort DEF Issue
<1>2. ASSUME NEW iss \in RowIssues(CompleteRows(s))
      PROVE  iss.kind # "duplicate"
    <2>1. PICK i \in Complete(s) : \E kind \in FieldIssues(s[i]) :
            iss = Issue(ReportedRow(CompleteRows(s), i), kind, s[i].symbol)
        BY IssueOfRow
    <2>2. iss.kind \in FieldIssues(s[i])
        BY <2>1 DEF Issue
    <2>. QED BY <2>2, FieldIssueKinds DEF Fields
<1>3. \A iss \in DuplicateIssues(CompleteRows(s)) : iss.kind = "duplicate"
    BY DEF DuplicateIssues, Issue
<1>. QED BY <1>1, <1>2, <1>3, SummaryCounts

(* A report without invalid rows has no issue, and the reverse.            *)
LEMMA NoIssueIfValid ==
    ASSUME NEW s \in Seq(RawRows)
    PROVE  /\ IsValid(Summary(s)) <=> Summary(s).issues = {}
           /\ IsValid(Summary(s)) =>
                /\ Short(s) = {} /\ Bad(s) = {}
                /\ DuplicateKeys(CompleteRows(s)) = {}
<1>. DEFINE rows == CompleteRows(s)
            keys == DuplicateKeys(rows)
<1>1. IsValid(Summary(s)) <=> /\ Cardinality(Short(s)) = 0
                              /\ Cardinality(Bad(s)) = 0
                              /\ Cardinality(keys) = 0
    <2>1. Summary(s).invalid = Cardinality(Short(s)) + Cardinality(Bad(s)) + Cardinality(keys)
        BY SummaryCounts
    <2>2. Cardinality(Bad(s)) \in Nat
        <3>1. IsFiniteSet(Bad(s))
            BY RowsFinite DEF Bad, Complete
        <3>. QED BY <3>1, FS_CardinalityType
    <2>3. Cardinality(Short(s)) \in Nat /\ Cardinality(keys) \in Nat
        BY SummaryCounts
    <2>. HIDE DEF keys
    <2>. QED BY <2>1, <2>2, <2>3 DEF IsValid
<1>2. IsFiniteSet(Short(s)) /\ IsFiniteSet(Bad(s)) /\ IsFiniteSet(keys)
    BY RowsFinite, DuplicateKeysFinite DEF Short, Bad, Complete
<1>3. IsValid(Summary(s)) <=> Short(s) = {} /\ Bad(s) = {} /\ keys = {}
    BY <1>1, <1>2, FS_EmptySet
<1>4. ShortIssues(s) = {} <=> Short(s) = {}
    BY DEF ShortIssues, ShortRowsIn, Short
<1>5. RowIssues(rows) = {} <=> Bad(s) = {}
    <2>1. ASSUME NEW i \in Bad(s)
          PROVE  RowIssues(rows) # {}
        <3>1. i \in DOMAIN rows /\ rows[i] = s[i] /\ FieldIssues(s[i]) # {}
            BY CompleteRowsAre DEF Bad
        <3>2. PICK kind \in FieldIssues(rows[i]) : TRUE
            BY <3>1
        <3>3. Issue(ReportedRow(rows, i), kind, rows[i].symbol) \in RowIssues(rows)
            BY <3>1, <3>2 DEF RowIssues
        <3>. QED BY <3>3
    <2>2. ASSUME NEW iss \in RowIssues(rows)
          PROVE  Bad(s) # {}
        BY IssueOfRow DEF Bad
    <2>. QED BY <2>1, <2>2
<1>6. DuplicateIssues(rows) = {} <=> keys = {}
    BY DEF DuplicateIssues
<1>7. Summary(s).issues = ShortIssues(s) \cup RowIssues(rows) \cup DuplicateIssues(rows)
    BY SummaryCounts
<1>. QED BY <1>3, <1>4, <1>5, <1>6, <1>7
----------------------------------------------------------------------------
(* The other two readings of the sheet: what a valid sheet leaves of them. *)

(* Of a valid sheet, portfolio and holdings keep every row that validate   *)
(* counted, unless a cell is infinite or a header is repeated with         *)
(* numbers.                                                                *)
LEMMA ShownWhole ==
    ASSUME NEW s \in Seq(RawRows), IsValid(Summary(s)),
           \A i \in DOMAIN s, f \in Fields : s[i][f] # "infinite",
           \A i \in DOMAIN s : ~(IsHeader(s[i]) /\ Indexed(s[i]))
    PROVE  /\ PositionsOf(s) = Summary(s).total
           /\ Cardinality(HoldingsIndexOf(s)) = Summary(s).total
<1>. DEFINE rows == CompleteRows(s)
<1>1. /\ Short(s) = {} /\ Bad(s) = {} /\ DuplicateKeys(rows) = {}
    BY NoIssueIfValid
<1>2. Summary(s).total = Cardinality(Complete(s))
    <2>1. Summary(s).total = Cardinality(Short(s)) + Cardinality(Complete(s))
        BY SummaryCounts
    <2>2. Cardinality(Complete(s)) \in Nat
        BY SummaryCounts
    <2>3. Cardinality(Short(s)) = 0
        BY <1>1, FS_EmptySet
    <2>. QED BY <2>1, <2>2, <2>3
<1>3. ASSUME NEW i \in Complete(s)
      PROVE  /\ i \in DOMAIN s /\ s[i].columns >= 4
             /\ s[i].symbol \in Symbols
             /\ \A f \in Fields : s[i][f] = "positive"
    <2>1. i \in DOMAIN s /\ s[i].columns >= 4
        BY DEF Complete, IsComplete
    <2>2. FieldIssues(s[i]) = {}
        BY <1>1 DEF Bad
    <2>3. s[i].symbol \in Tickers
        BY <2>2 DEF FieldIssues
    <2>4. \A f \in Fields : s[i][f] \in {"positive", "infinite"}
        BY <2>2 DEF FieldIssues
    <2>. QED BY <2>1, <2>3, <2>4, ValidationConstants
<1>4. DOMAIN RestrictValues(rows, Listed) = Complete(s)
    <2>1. DOMAIN RestrictValues(rows, Listed) = {i \in Complete(s) : Listed(s[i])}
        BY CompleteRowsAre DEF RestrictValues, Restrict
    <2>2. \A i \in Complete(s) : Listed(s[i])
        BY <1>3 DEF Listed
    <2>. QED BY <2>1, <2>2
<1>5. /\ DOMAIN RestrictValues(s, Indexed) = Complete(s)
      /\ \A i \in Complete(s) : RestrictValues(s, Indexed)[i] = s[i]
    <2>1. \A i \in Complete(s) : Indexed(s[i])
        BY <1>3 DEF Indexed, Fields
    <2>2. \A i \in DOMAIN s : Indexed(s[i]) => i \in Complete(s)
        BY DEF Indexed, Complete, IsComplete
    <2>3. {i \in DOMAIN s : Indexed(s[i])} = Complete(s)
        BY <2>1, <2>2 DEF Complete
    <2>. QED BY <2>3 DEF RestrictValues, Restrict
<1>. DEFINE key == [i \in Complete(s) |-> Folded[s[i].symbol]]
            index == HoldingsIndexOf(s)
<1>6. index = {Folded[s[i].symbol] : i \in Complete(s)}
    BY <1>5 DEF HoldingsIndexOf
<1>7. key \in [Complete(s) -> index]
    BY <1>6
<1>8. ASSUME NEW i \in Complete(s), NEW j \in Complete(s), key[i] = key[j]
      PROVE  i = j
    <2>1. key[i] \in Range(Folded) /\ {s[i].symbol, s[j].symbol} \subseteq Symbols
        BY <1>3, ValidationConstants DEF Range
    <2>2. i # j => key[i] \in DuplicateKeys(rows)
        BY <1>8, <2>1, CompleteRowsAre DEF DuplicateKeys
    <2>. QED BY <1>1, <2>2
<1>9. \A k \in index : \E i \in Complete(s) : key[i] = k
    BY <1>6
<1>10. IsFiniteSet(Complete(s))
    BY RowsFinite DEF Complete
<1>11. Cardinality(index) = Cardinality(Complete(s))
    <2>. HIDE DEF key, index
    <2>. QED BY <1>7, <1>8, <1>9, <1>10, SameSize
<1>. QED BY <1>2, <1>4, <1>11 DEF PositionsOf

----------------------------------------------------------------------------
(* Rounding. *)

(* quantize errs by half a unit at most. *)
LEMMA RoundedIsNear ==
    ASSUME NEW n \in Nat, NEW d \in Nat, d > 0
    PROVE  /\ Rounded(n, d) \in Nat
           /\ (2 * d) * Rounded(n, d) <= 2 * n + d
           /\ 2 * n - d <= (2 * d) * Rounded(n, d)
<1>1. PICK q : q = n \div d
    OBVIOUS
<1>2. PICK r : r = n % d
    OBVIOUS
<1>3. q \in Nat /\ r \in Nat /\ r < d /\ n = d * q + r
    <2>1. /\ n \div d \in Int /\ n % d \in 0 .. d - 1 /\ n = d * (n \div d) + (n % d)
        OBVIOUS
    <2>2. q \in Int /\ r \in 0 .. d - 1 /\ n = d * q + r
        BY <1>1, <1>2, <2>1
    <2>3. q >= 0
        <3>1. d * q > -d
            BY <2>2
        <3>2. \A k \in Int : k < 0 => d * k <= -d
            OBVIOUS
        <3>. QED BY <2>2, <3>1, <3>2
    <2>. QED BY <2>2, <2>3
<1>4. CASE 2 * r > d \/ (2 * r = d /\ q % 2 = 1)
    <2>1. Rounded(n, d) = q + 1
        BY <1>1, <1>2, <1>4 DEF Rounded
    <2>2. (2 * d) * (q + 1) = 2 * (d * q) + 2 * d
        BY <1>3
    <2>3. d * q \in Nat
        BY <1>3
    <2>4. 2 * r >= d
        BY <1>3, <1>4
    <2>. QED BY <1>3, <2>1, <2>2, <2>3, <2>4
<1>5. CASE ~(2 * r > d \/ (2 * r = d /\ q % 2 = 1))
    <2>1. Rounded(n, d) = q
        BY <1>1, <1>2, <1>5 DEF Rounded
    <2>2. (2 * d) * q = 2 * (d * q)
        BY <1>3
    <2>3. d * q \in Nat
        BY <1>3
    <2>4. 2 * r <= d
        BY <1>3, <1>5
    <2>. QED BY <1>3, <2>1, <2>2, <2>3, <2>4
<1>. QED BY <1>4, <1>5

(* A positive factor cancels.                                              *)
LEMMA Cancel ==
    ASSUME NEW t \in Nat, t > 0, NEW a \in Int, NEW b \in Int, t * a <= t * b
    PROVE  a <= b
<1>1. ASSUME a > b PROVE FALSE
    <2>1. t * (a - b) > 0
        BY <1>1
    <2>2. t * (a - b) = t * a - t * b
        OBVIOUS
    <2>. QED BY <2>1, <2>2
<1>. QED BY <1>1

(* Less than half a unit rounds to nothing, and only that. *)
LEMMA RoundedToNothing ==
    ASSUME NEW n \in Nat, NEW d \in Nat, d > 0, Rounded(n, d) = 0
    PROVE  2 * n <= d
<1>1. 2 * n - d <= (2 * d) * Rounded(n, d)
    BY RoundedIsNear
<1>2. (2 * d) * Rounded(n, d) = 0
    OBVIOUS
<1>. QED BY <1>1, <1>2

----------------------------------------------------------------------------
(* compute_dr_totals: positions. *)

(* What one position adds to the totals: it is counted or skipped, once.   *)
IsPart(t) ==
    /\ t.value \in Nat /\ t.cost \in Nat
    /\ t.positions \in {0, 1} /\ t.skipped \in {0, 1}
    /\ t.positions + t.skipped = 1

(* Rows as the second and the third read return them. *)
CostRows(rows) ==
    /\ DOMAIN rows \subseteq 1 .. MainSize
    /\ \A i \in DOMAIN rows : rows[i] \in MainRows /\ Costed(rows[i])
Section2Rows(rows) ==
    /\ DOMAIN rows \subseteq 1 .. DcaSize
    /\ \A i \in DOMAIN rows : rows[i] \in DcaRows /\ Dca(rows[i])

(* Places in a block are finitely many.                                    *)
LEMMA UptoFinite ==
    ASSUME NEW n \in Nat, NEW I \in SUBSET (1 .. n)
    PROVE  IsFiniteSet(I) /\ Cardinality(I) \in 0 .. n /\ I \subseteq Int
<1>1. IsFiniteSet(1 .. n) /\ Cardinality(1 .. n) = n
    BY FS_Interval
<1>2. IsFiniteSet(I) /\ Cardinality(I) <= n
    BY <1>1, FS_Subset
<1>. QED BY <1>2, FS_CardinalityType

(* The last row of a symbol is one of its rows.                            *)
LEMMA LastOfIsOne ==
    ASSUME NEW rows, NEW n \in Nat, DOMAIN rows \subseteq 1 .. n,
           NEW s \in SymbolsOf(rows)
    PROVE  \E i \in DOMAIN rows : SymbolOf(rows[i]) = s /\ LastOf(rows, s) = rows[i]
<1>. DEFINE I == {i \in DOMAIN rows : SymbolOf(rows[i]) = s}
<1>1. I # {} /\ I \in SUBSET (1 .. n)
    BY DEF SymbolsOf
<1>. HIDE DEF I
<1>2. \E x \in I : \A y \in I : x >= y
    BY <1>1, UptoFinite, LargestExists
<1>3. Max(I) \in I
    BY <1>2 DEF Max
<1>4. LastOf(rows, s) = rows[Max(I)]
    BY DEF LastOf, I
<1>. QED BY <1>3, <1>4 DEF I

(* The cells of a row that is kept, and the amounts that they make.        *)
LEMMA CostedCells ==
    ASSUME NEW r \in MainRows, Costed(r)
    PROVE  /\ r.avg.n \in Nat /\ r.volume.n \in Nat /\ r.price.n \in Int
           /\ r.avg.n * r.volume.n \in Nat
           /\ r.price.n > 0 => r.price.n * r.volume.n \in Nat
<1>1. /\ r.avg \in Cell /\ r.volume \in Cell /\ r.price \in Cell
      /\ r.avg.n > 0 /\ r.volume.n > 0
    BY DrTotalsConstants DEF Costed, Held, Positive
<1>2. r.avg.n \in Int /\ r.volume.n \in Int /\ r.price.n \in Int
    BY <1>1 DEF Cell
<1>3. \A m, n \in Int : m > 0 /\ n > 0 => m * n \in Nat
    OBVIOUS
<1>. QED BY <1>1, <1>2, <1>3

LEMMA DcaCells ==
    ASSUME NEW r \in DcaRows, Dca(r)
    PROVE  /\ r.size.n \in Nat /\ r.price.n * r.size.n \in Nat
           /\ r.avg.n * SATANG \in Nat /\ r.avg.n * SATANG > 0
<1>1. /\ r.size \in Cell /\ r.avg \in Cell /\ r.price \in Cell
      /\ r.size.n > 0 /\ r.avg.n > 0 /\ r.price.n > 0
    BY DrTotalsConstants DEF Dca, Positive
<1>2. r.size.n \in Int /\ r.avg.n \in Int /\ r.price.n \in Int
    BY <1>1 DEF Cell
<1>3. SATANG \in Int /\ SATANG > 0
    BY DrTotalsConstants
<1>4. \A m, n \in Int : m > 0 /\ n > 0 => m * n \in Nat /\ m * n > 0
    OBVIOUS
<1>. QED BY <1>1, <1>2, <1>3, <1>4

(* A position of the main block adds amounts that are naturals, and one to *)
(* positions or to skipped.                                                *)
LEMMA MainPositionIsPart ==
    ASSUME NEW r \in MainRows, Costed(r)
    PROVE  IsPart(MainPosition(r))
<1>1. CASE (\A c \in {r.avg, r.volume, r.price} : c.how = "plain") /\ r.price.n > 0
    <2>1. MainPosition(r) = [value |-> Rounded(r.price.n * r.volume.n, SATANG),
                             cost |-> Rounded(r.avg.n * r.volume.n, SATANG),
                             positions |-> 1, skipped |-> 0]
        BY <1>1 DEF MainPosition
    <2>2. r.price.n * r.volume.n \in Nat /\ r.avg.n * r.volume.n \in Nat
        BY <1>1, CostedCells
    <2>3. SATANG \in Nat /\ SATANG > 0
        BY DrTotalsConstants
    <2>4. /\ Rounded(r.price.n * r.volume.n, SATANG) \in Nat
          /\ Rounded(r.avg.n * r.volume.n, SATANG) \in Nat
        BY <2>2, <2>3, RoundedIsNear
    <2>. QED BY <2>1, <2>4 DEF IsPart
<1>2. CASE ~((\A c \in {r.avg, r.volume, r.price} : c.how = "plain") /\ r.price.n > 0)
    BY <1>2 DEF MainPosition, IsPart, Skipped
<1>. QED BY <1>1, <1>2

(* So does a position of section 2.                                        *)
LEMMA DcaPositionIsPart ==
    ASSUME NEW r \in DcaRows, Dca(r)
    PROVE  IsPart(DcaPosition(r))
<1>1. SATANG \in Nat /\ SATANG > 0
    BY DrTotalsConstants
<1>2. /\ Rounded(r.price.n * r.size.n, r.avg.n * SATANG) \in Nat
      /\ Rounded(r.size.n, SATANG) \in Nat
    BY <1>1, DcaCells, RoundedIsNear
<1>. QED BY <1>2 DEF DcaPosition, IsPart

(* So does the position of a symbol, wherever it is taken from.            *)
LEMMA PositionIsPart ==
    ASSUME NEW c, CostRows(c), NEW d, Section2Rows(d), NEW s
    PROVE  IsPart(Position(s, c, d))
<1>0. MainSize \in Nat /\ DcaSize \in Nat
    BY DrTotalsConstants
<1>1. CASE s \in SymbolsOf(d)
    <2>1. PICK i \in DOMAIN d : LastOf(d, s) = d[i]
        BY <1>0, <1>1, LastOfIsOne DEF Section2Rows
    <2>2. IsPart(DcaPosition(d[i]))
        BY DcaPositionIsPart DEF Section2Rows
    <2>. QED BY <1>1, <2>1, <2>2 DEF Position
<1>2. CASE s \notin SymbolsOf(d) /\ s \in SymbolsOf(c)
    <2>1. PICK i \in DOMAIN c : LastOf(c, s) = c[i]
        BY <1>0, <1>2, LastOfIsOne DEF CostRows
    <2>2. IsPart(MainPosition(c[i]))
        BY MainPositionIsPart DEF CostRows
    <2>. QED BY <1>2, <2>1, <2>2 DEF Position
<1>3. CASE s \notin SymbolsOf(d) /\ s \notin SymbolsOf(c)
    BY <1>3 DEF Position, IsPart, Skipped
<1>. QED BY <1>1, <1>2, <1>3

(* Sums of such parts, over all rows of a block. *)
LEMMA SumOfParts ==
    ASSUME NEW parts, IsFiniteSet(DOMAIN parts), \A x \in DOMAIN parts : IsPart(parts[x])
    PROVE  /\ Sum(parts).value \in Nat /\ Sum(parts).cost \in Nat
           /\ Sum(parts).positions \in Nat /\ Sum(parts).skipped \in Nat
           /\ Sum(parts).positions + Sum(parts).skipped = Cardinality(DOMAIN parts)
           /\ \A x \in DOMAIN parts : parts[x].value <= Sum(parts).value
           /\ Sum(parts).value = 0 => \A x \in DOMAIN parts : parts[x].value = 0
<1>1. PICK S : S = DOMAIN parts
    OBVIOUS
<1>2. PICK v : v = [x \in S |-> parts[x].value]
    OBVIOUS
<1>3. PICK c : c = [x \in S |-> parts[x].cost]
    OBVIOUS
<1>4. PICK p : p = [x \in S |-> parts[x].positions]
    OBVIOUS
<1>5. PICK k : k = [x \in S |-> parts[x].skipped]
    OBVIOUS
<1>6. PICK one : one = [x \in S |-> 1]
    OBVIOUS
<1>7. IsFiniteSet(S)
    BY <1>1
<1>8. /\ \A x \in S : v[x] \in Nat /\ c[x] \in Nat /\ p[x] \in Nat /\ k[x] \in Nat
      /\ \A x \in S : p[x] + k[x] = one[x] /\ one[x] = 1
      /\ \A x \in S : v[x] = parts[x].value
    BY <1>1, <1>2, <1>3, <1>4, <1>5, <1>6 DEF IsPart
<1>9. /\ Sum(parts).value = SumFunctionOnSet(v, S)
      /\ Sum(parts).cost = SumFunctionOnSet(c, S)
      /\ Sum(parts).positions = SumFunctionOnSet(p, S)
      /\ Sum(parts).skipped = SumFunctionOnSet(k, S)
    BY <1>1, <1>2, <1>3, <1>4, <1>5 DEF Sum, SumFunction
<1>10. /\ SumFunctionOnSet(v, S) \in Nat
       /\ \A x \in S : v[x] <= SumFunctionOnSet(v, S)
    BY <1>7, <1>8, SumOfNaturals
<1>11. SumFunctionOnSet(c, S) \in Nat
    BY <1>7, <1>8, SumOfNaturals
<1>12. SumFunctionOnSet(p, S) \in Nat
    BY <1>7, <1>8, SumOfNaturals
<1>13. SumFunctionOnSet(k, S) \in Nat
    BY <1>7, <1>8, SumOfNaturals
<1>14. SumFunctionOnSet(one, S) = SumFunctionOnSet(p, S) + SumFunctionOnSet(k, S)
    <2>1. \A x \in S : p[x] \in Int /\ k[x] \in Int /\ one[x] = p[x] + k[x]
        BY <1>8
    <2>. QED BY <1>7, <2>1, SumOfSums
<1>15. SumFunctionOnSet(one, S) = Cardinality(S)
    BY <1>7, <1>8, SumOfOnes
<1>16. SumFunctionOnSet(v, S) = 0 => \A x \in S : v[x] = 0
    BY <1>8, <1>10
<1>. QED BY <1>1, <1>8, <1>9, <1>10, <1>11, <1>12, <1>13, <1>14, <1>15, <1>16

(* A block has no more symbols than rows. *)
LEMMA SymbolsFinite ==
    ASSUME NEW rows, NEW n \in Nat, DOMAIN rows \subseteq 1 .. n
    PROVE  /\ IsFiniteSet(SymbolsOf(rows))
           /\ \A S \in SUBSET SymbolsOf(rows) :
                IsFiniteSet(S) /\ Cardinality(S) \in 0 .. n
<1>1. PICK f : f = [i \in DOMAIN rows |-> SymbolOf(rows[i])]
    OBVIOUS
<1>2. f \in Surjection(DOMAIN rows, SymbolsOf(rows))
    BY <1>1 DEF Surjection, SymbolsOf
<1>3. IsFiniteSet(DOMAIN rows) /\ Cardinality(DOMAIN rows) \in 0 .. n
    BY UptoFinite
<1>4. IsFiniteSet(SymbolsOf(rows)) /\ Cardinality(SymbolsOf(rows)) <= n
    <2>1. /\ IsFiniteSet(SymbolsOf(rows))
          /\ Cardinality(SymbolsOf(rows)) <= Cardinality(DOMAIN rows)
        BY <1>2, <1>3, FS_Surjection
    <2>. QED BY <1>3, <2>1, FS_CardinalityType
<1>5. ASSUME NEW S \in SUBSET SymbolsOf(rows)
      PROVE  IsFiniteSet(S) /\ Cardinality(S) \in 0 .. n
    <2>1. IsFiniteSet(S) /\ Cardinality(S) <= Cardinality(SymbolsOf(rows))
        BY <1>4, FS_Subset
    <2>. QED BY <1>4, <2>1, FS_CardinalityType
<1>. QED BY <1>4, <1>5

(* The merge counts or skips every held row and every symbol of section 2  *)
(* alone, once.                                                            *)
LEMMA MergeIs ==
    ASSUME NEW held, DOMAIN held \subseteq 1 .. MainSize,
           NEW c, CostRows(c), NEW d, Section2Rows(d)
    PROVE  LET m == Merge(held, c, d)
               others == SymbolsOf(d) \ Range(held)
           IN  /\ m.value \in Nat /\ m.cost \in Nat
               /\ m.positions \in Nat /\ m.skipped \in Nat
               /\ m.positions + m.skipped
                  = Cardinality(DOMAIN held) + Cardinality(others)
               /\ m.positions + m.skipped <= MainSize + DcaSize
               /\ m.value = 0 =>
                    /\ \A i \in DOMAIN held : Position(held[i], c, d).value = 0
                    /\ \A s \in others : Position(s, c, d).value = 0
<1>1. PICK p : p = HeldPositions(held, c, d)
    OBVIOUS
<1>2. PICK q : q = OtherPositions(held, c, d)
    OBVIOUS
<1>3. PICK others : others = SymbolsOf(d) \ Range(held)
    OBVIOUS
<1>4. MainSize \in Nat /\ DcaSize \in Nat
    BY DrTotalsConstants
<1>5. /\ DOMAIN p = DOMAIN held /\ DOMAIN q = others
      /\ \A i \in DOMAIN held : p[i] = Position(held[i], c, d)
      /\ \A s \in others : q[s] = Position(s, c, d)
    BY <1>1, <1>2, <1>3 DEF HeldPositions, OtherPositions
<1>6. IsFiniteSet(DOMAIN p) /\ Cardinality(DOMAIN p) \in 0 .. MainSize
    BY <1>4, <1>5, UptoFinite
<1>7. IsFiniteSet(DOMAIN q) /\ Cardinality(DOMAIN q) \in 0 .. DcaSize
    BY <1>3, <1>4, <1>5, SymbolsFinite DEF Section2Rows
<1>8. \A i \in DOMAIN p : IsPart(p[i])
    BY <1>5, PositionIsPart
<1>9. \A s \in DOMAIN q : IsPart(q[s])
    BY <1>5, PositionIsPart
<1>10. PICK t : t = Sum(p)
    OBVIOUS
<1>11. PICK u : u = Sum(q)
    OBVIOUS
<1>12. /\ t.value \in Nat /\ t.cost \in Nat /\ t.positions \in Nat /\ t.skipped \in Nat
       /\ t.positions + t.skipped = Cardinality(DOMAIN p)
       /\ t.value = 0 => \A i \in DOMAIN p : p[i].value = 0
    BY <1>6, <1>8, <1>10, SumOfParts
<1>13. /\ u.value \in Nat /\ u.cost \in Nat /\ u.positions \in Nat /\ u.skipped \in Nat
       /\ u.positions + u.skipped = Cardinality(DOMAIN q)
       /\ u.value = 0 => \A s \in DOMAIN q : q[s].value = 0
    BY <1>7, <1>9, <1>11, SumOfParts
<1>14. PICK m : m = Merge(held, c, d)
    OBVIOUS
<1>15. /\ m.value = t.value + u.value /\ m.cost = t.cost + u.cost
       /\ m.positions = t.positions + u.positions /\ m.skipped = t.skipped + u.skipped
    BY <1>1, <1>2, <1>10, <1>11, <1>14 DEF Merge, Plus
<1>16. /\ m.value \in Nat /\ m.cost \in Nat /\ m.positions \in Nat /\ m.skipped \in Nat
       /\ m.positions + m.skipped = Cardinality(DOMAIN p) + Cardinality(DOMAIN q)
       /\ m.positions + m.skipped <= MainSize + DcaSize
    BY <1>4, <1>6, <1>7, <1>12, <1>13, <1>15
<1>17. m.value = 0 => t.value = 0 /\ u.value = 0
    BY <1>12, <1>13, <1>15
<1>18. m.value = 0 =>
        /\ \A i \in DOMAIN held : Position(held[i], c, d).value = 0
        /\ \A s \in others : Position(s, c, d).value = 0
    BY <1>5, <1>12, <1>13, <1>17
<1>. QED BY <1>3, <1>5, <1>14, <1>16, <1>18

(* What the three reads keep of the blocks. *)
LEMMA RowsKept ==
    ASSUME NEW m \in [1 .. MainSize -> MainRows], NEW e \in [1 .. DcaSize -> DcaRows]
    PROVE  /\ DOMAIN RestrictValues(m, Held) = {i \in 1 .. MainSize : Held(m[i])}
           /\ \A i \in DOMAIN RestrictValues(m, Held) : RestrictValues(m, Held)[i] = m[i]
           /\ DOMAIN Holdings(m) = DOMAIN RestrictValues(m, Held)
           /\ \A i \in DOMAIN Holdings(m) : Holdings(m)[i] = SymbolOf(m[i])
           /\ Range(Holdings(m)) = SymbolsOf(RestrictValues(m, Held))
           /\ Range(Holdings(m)) \subseteq Range(Normal) \ {""}
           /\ DOMAIN RestrictValues(m, Costed) = {i \in 1 .. MainSize : Costed(m[i])}
           /\ \A i \in DOMAIN RestrictValues(m, Costed) : RestrictValues(m, Costed)[i] = m[i]
           /\ CostRows(RestrictValues(m, Costed))
           /\ DOMAIN RestrictValues(e, Dca) = {i \in 1 .. DcaSize : Dca(e[i])}
           /\ \A i \in DOMAIN RestrictValues(e, Dca) : RestrictValues(e, Dca)[i] = e[i]
           /\ Section2Rows(RestrictValues(e, Dca))
<1>1. /\ DOMAIN RestrictValues(m, Held) = {i \in 1 .. MainSize : Held(m[i])}
      /\ \A i \in DOMAIN RestrictValues(m, Held) : RestrictValues(m, Held)[i] = m[i]
    BY DEF RestrictValues, Restrict
<1>2. /\ DOMAIN RestrictValues(m, Costed) = {i \in 1 .. MainSize : Costed(m[i])}
      /\ \A i \in DOMAIN RestrictValues(m, Costed) : RestrictValues(m, Costed)[i] = m[i]
    BY DEF RestrictValues, Restrict
<1>3. /\ DOMAIN RestrictValues(e, Dca) = {i \in 1 .. DcaSize : Dca(e[i])}
      /\ \A i \in DOMAIN RestrictValues(e, Dca) : RestrictValues(e, Dca)[i] = e[i]
    BY DEF RestrictValues, Restrict
<1>4. /\ DOMAIN Holdings(m) = DOMAIN RestrictValues(m, Held)
      /\ \A i \in DOMAIN Holdings(m) : Holdings(m)[i] = SymbolOf(RestrictValues(m, Held)[i])
    BY DEF Holdings
<1>5. \A i \in DOMAIN Holdings(m) : Holdings(m)[i] = SymbolOf(m[i])
    BY <1>1, <1>4
<1>6. Range(Holdings(m)) = SymbolsOf(RestrictValues(m, Held))
    BY <1>4 DEF Range, SymbolsOf
<1>7. ASSUME NEW i \in DOMAIN Holdings(m)
      PROVE  Holdings(m)[i] \in Range(Normal) \ {""}
    <2>1. i \in 1 .. MainSize /\ Held(m[i]) /\ m[i] \in MainRows
        BY <1>1, <1>4
    <2>2. m[i].symbol \in DOMAIN Normal
        BY <2>1, DrTotalsConstants
    <2>. QED BY <1>5, <2>1, <2>2 DEF Held, SymbolOf, Range
<1>8. Range(Holdings(m)) \subseteq Range(Normal) \ {""}
    BY <1>7 DEF Range
<1>9. CostRows(RestrictValues(m, Costed))
    BY <1>2 DEF CostRows
<1>10. Section2Rows(RestrictValues(e, Dca))
    BY <1>3 DEF Section2Rows
<1>. QED BY <1>1, <1>2, <1>3, <1>4, <1>5, <1>6, <1>8, <1>9, <1>10

(* A symbol that one row has is taken from that row.                       *)
LEMMA OnlyOneOf ==
    ASSUME NEW rows, NEW i \in DOMAIN rows,
           \A j \in DOMAIN rows : SymbolOf(rows[j]) = SymbolOf(rows[i]) => j = i,
           i \in Int
    PROVE  LastOf(rows, SymbolOf(rows[i])) = rows[i]
<1>1. {j \in DOMAIN rows : SymbolOf(rows[j]) = SymbolOf(rows[i])} = {i}
    OBVIOUS
<1>2. Max({i}) = i
    BY DEF Max
<1>. QED BY <1>1, <1>2 DEF LastOf

(* Parts listed another way add up to the same totals.                     *)
LEMMA PartsReindexed ==
    ASSUME NEW p, NEW q, IsFiniteSet(DOMAIN p), NEW b \in Bijection(DOMAIN q, DOMAIN p),
           \A x \in DOMAIN p : IsPart(p[x]),
           \A x \in DOMAIN q : q[x] = p[b[x]]
    PROVE  Sum(q) = Sum(p)
<1>1. \A x \in DOMAIN q : b[x] \in DOMAIN p
    BY DEF Bijection, Injection
<1>2. ASSUME NEW k \in {"value", "cost", "positions", "skipped"}
      PROVE  SumFunction([x \in DOMAIN q |-> q[x][k]]) = SumFunction([x \in DOMAIN p |-> p[x][k]])
    <2>1. PICK f : f = [x \in DOMAIN p |-> p[x][k]]
        OBVIOUS
    <2>2. PICK g : g = [x \in DOMAIN q |-> q[x][k]]
        OBVIOUS
    <2>3. \A x \in DOMAIN p : p[x][k] \in Nat
        <3>1. \A x \in DOMAIN p : p[x].value \in Nat /\ p[x].cost \in Nat
                                   /\ p[x].positions \in Nat /\ p[x].skipped \in Nat
            BY DEF IsPart
        <3>. QED BY <1>2, <3>1
    <2>4. \A x \in DOMAIN p : f[x] \in Nat
        BY <2>1, <2>3
    <2>5. \A x \in DOMAIN q : g[x] = f[b[x]]
        BY <1>1, <2>1, <2>2
    <2>6. SumFunctionOnSet(g, DOMAIN q) = SumFunctionOnSet(f, DOMAIN p)
        BY <2>4, <2>5, SumReindexed
    <2>. QED BY <2>1, <2>2, <2>6 DEF SumFunction
<1>. QED BY <1>2 DEF Sum

(* The merge by symbol is the sum row by row, if no symbol is in two rows. *)
LEMMA MergeExact ==
    ASSUME NEW m \in [1 .. MainSize -> MainRows], NEW e \in [1 .. DcaSize -> DcaRows],
           Distinct(RestrictValues(m, Held), RestrictValues(e, Dca))
    PROVE  Merge(Holdings(m), RestrictValues(m, Costed), RestrictValues(e, Dca))
           = RowByRow(RestrictValues(m, Held), RestrictValues(e, Dca))
<1>1. PICK h : h = RestrictValues(m, Held)
    OBVIOUS
<1>2. PICK c : c = RestrictValues(m, Costed)
    OBVIOUS
<1>3. PICK d : d = RestrictValues(e, Dca)
    OBVIOUS
<1>4. PICK held : held = Holdings(m)
    OBVIOUS
<1>5. /\ DOMAIN h = {i \in 1 .. MainSize : Held(m[i])} /\ DOMAIN held = DOMAIN h
      /\ \A i \in DOMAIN h : h[i] = m[i] /\ held[i] = SymbolOf(h[i])
      /\ Range(held) = SymbolsOf(h)
    BY <1>1, <1>4, RowsKept
<1>6. /\ DOMAIN c = {i \in 1 .. MainSize : Costed(m[i])}
      /\ \A i \in DOMAIN c : c[i] = m[i]
      /\ CostRows(c)
    BY <1>2, RowsKept
<1>7. DOMAIN d \subseteq 1 .. DcaSize /\ Section2Rows(d)
    BY <1>3, RowsKept
<1>8. /\ \A i, j \in DOMAIN h : SymbolOf(h[i]) = SymbolOf(h[j]) => i = j
      /\ \A i, j \in DOMAIN d : SymbolOf(d[i]) = SymbolOf(d[j]) => i = j
      /\ SymbolsOf(h) \cap SymbolsOf(d) = {}
    BY <1>1, <1>3 DEF Distinct
<1>9. MainSize \in Nat /\ DcaSize \in Nat
    BY DrTotalsConstants
<1>10. ASSUME NEW i \in DOMAIN h
       PROVE  Position(held[i], c, d) = IF Costed(h[i]) THEN MainPosition(h[i]) ELSE Skipped
    <2>1. held[i] = SymbolOf(h[i]) /\ h[i] = m[i] /\ i \in 1 .. MainSize
        BY <1>5
    <2>2. held[i] \in SymbolsOf(h) /\ held[i] \notin SymbolsOf(d)
        BY <1>8, <2>1 DEF SymbolsOf
    <2>3. ASSUME NEW j \in DOMAIN c, SymbolOf(c[j]) = SymbolOf(h[i])
          PROVE  j = i
        <3>1. j \in 1 .. MainSize /\ Costed(m[j]) /\ c[j] = m[j]
            BY <1>6
        <3>2. j \in DOMAIN h /\ h[j] = c[j]
            BY <1>5, <3>1 DEF Costed
        <3>. QED BY <1>8, <2>3, <3>2
    <2>4. CASE Costed(h[i])
        <3>1. i \in DOMAIN c /\ c[i] = h[i]
            BY <1>6, <2>1, <2>4
        <3>2. i \in Int
            BY <1>9, <2>1
        <3>3. \A j \in DOMAIN c : SymbolOf(c[j]) = SymbolOf(c[i]) => j = i
            BY <2>3, <3>1
        <3>4. LastOf(c, SymbolOf(c[i])) = c[i]
            BY <3>1, <3>2, <3>3, OnlyOneOf
        <3>5. held[i] \in SymbolsOf(c)
            BY <2>1, <3>1 DEF SymbolsOf
        <3>. QED BY <2>1, <2>2, <2>4, <3>1, <3>4, <3>5 DEF Position
    <2>5. CASE ~Costed(h[i])
        <3>1. i \notin DOMAIN c
            BY <1>6, <2>1, <2>5
        <3>2. held[i] \notin SymbolsOf(c)
            BY <2>1, <2>3, <3>1 DEF SymbolsOf
        <3>. QED BY <2>2, <2>5, <3>2 DEF Position
    <2>. QED BY <2>4, <2>5
<1>11. HeldPositions(held, c, d)
       = [i \in DOMAIN h |-> IF Costed(h[i]) THEN MainPosition(h[i]) ELSE Skipped]
    BY <1>5, <1>10 DEF HeldPositions
<1>12. PICK p : p = OtherPositions(held, c, d)
    OBVIOUS
<1>13. PICK q : q = [i \in DOMAIN d |-> DcaPosition(d[i])]
    OBVIOUS
<1>14. DOMAIN p = SymbolsOf(d) /\ \A s \in DOMAIN p : p[s] = Position(s, c, d)
    BY <1>5, <1>8, <1>12 DEF OtherPositions
<1>15. PICK b : b = [i \in DOMAIN d |-> SymbolOf(d[i])]
    OBVIOUS
<1>16. b \in Bijection(DOMAIN q, DOMAIN p)
    <2>1. b \in [DOMAIN q -> DOMAIN p]
        BY <1>13, <1>14, <1>15 DEF SymbolsOf
    <2>2. \A i, j \in DOMAIN q : b[i] = b[j] => i = j
        BY <1>8, <1>13, <1>15
    <2>3. \A s \in DOMAIN p : \E i \in DOMAIN q : b[i] = s
        BY <1>13, <1>14, <1>15 DEF SymbolsOf
    <2>. QED BY <2>1, <2>2, <2>3 DEF Bijection, Injection, Surjection, IsInjective
<1>17. ASSUME NEW i \in DOMAIN q
       PROVE  q[i] = p[b[i]]
    <2>1. i \in DOMAIN d /\ q[i] = DcaPosition(d[i]) /\ b[i] = SymbolOf(d[i]) /\ i \in Int
        BY <1>7, <1>9, <1>13, <1>15
    <2>2. b[i] \in SymbolsOf(d)
        BY <2>1 DEF SymbolsOf
    <2>3. LastOf(d, SymbolOf(d[i])) = d[i]
        BY <1>8, <2>1, OnlyOneOf
    <2>. QED BY <1>14, <2>1, <2>2, <2>3 DEF Position
<1>18. IsFiniteSet(DOMAIN p)
    BY <1>7, <1>9, <1>14, SymbolsFinite
<1>19. \A s \in DOMAIN p : IsPart(p[s])
    BY <1>6, <1>7, <1>14, PositionIsPart
<1>20. Sum(q) = Sum(p)
    BY <1>16, <1>17, <1>18, <1>19, PartsReindexed
<1>21. Merge(held, c, d) = Plus(Sum(HeldPositions(held, c, d)), Sum(p))
    BY <1>12 DEF Merge
<1>22. RowByRow(h, d)
       = Plus(Sum([i \in DOMAIN h |-> IF Costed(h[i]) THEN MainPosition(h[i]) ELSE Skipped]),
              Sum(q))
    BY <1>13 DEF RowByRow
<1>. QED BY <1>1, <1>2, <1>3, <1>4, <1>11, <1>20, <1>21, <1>22

----------------------------------------------------------------------------
(* compute_dr_totals on a tab that is edited during the reads. *)

(* Parts that are split in two add up to the totals of the two.            *)
LEMMA PartsSplit ==
    ASSUME NEW p, NEW q, NEW r, IsFiniteSet(DOMAIN p), \A x \in DOMAIN p : IsPart(p[x]),
           \A x : x \in DOMAIN q <=> x \in DOMAIN p /\ x \notin DOMAIN r,
           \A x \in DOMAIN q : q[x] = p[x],
           \A x \in DOMAIN r : x \in DOMAIN p /\ r[x] = p[x]
    PROVE  Sum(p) = Plus(Sum(q), Sum(r))
<1>0. DOMAIN p = DOMAIN q \cup DOMAIN r /\ DOMAIN q \cap DOMAIN r = {}
    OBVIOUS
<1>1. IsFiniteSet(DOMAIN q) /\ IsFiniteSet(DOMAIN r)
    BY <1>0, FS_Subset
<1>2. \A x \in DOMAIN p : /\ p[x].value \in Int /\ p[x].cost \in Int
                           /\ p[x].positions \in Int /\ p[x].skipped \in Int
    BY DEF IsPart
<1>3. ASSUME NEW k \in {"value", "cost", "positions", "skipped"}
      PROVE  SumFunction([x \in DOMAIN p |-> p[x][k]])
             = SumFunction([x \in DOMAIN q |-> q[x][k]])
               + SumFunction([x \in DOMAIN r |-> r[x][k]])
    <2>1. PICK f : f = [x \in DOMAIN p |-> p[x][k]]
        OBVIOUS
    <2>2. PICK g : g = [x \in DOMAIN q |-> q[x][k]]
        OBVIOUS
    <2>3. PICK h : h = [x \in DOMAIN r |-> r[x][k]]
        OBVIOUS
    <2>4. \A x \in DOMAIN q \cup DOMAIN r : f[x] \in Int
        BY <1>0, <1>2, <1>3, <2>1
    <2>5. SumFunctionOnSet(f, DOMAIN q \cup DOMAIN r)
          = SumFunctionOnSet(f, DOMAIN q) + SumFunctionOnSet(f, DOMAIN r)
        BY <1>0, <1>1, <2>4, SumOfUnion
    <2>6. SumFunctionOnSet(f, DOMAIN q) = SumFunctionOnSet(g, DOMAIN q)
        <3>1. \A x \in DOMAIN q : f[x] \in Int /\ f[x] = g[x]
            BY <2>1, <2>2, <2>4
        <3>. QED BY <1>1, <3>1, SumEqual
    <2>7. SumFunctionOnSet(f, DOMAIN r) = SumFunctionOnSet(h, DOMAIN r)
        <3>1. \A x \in DOMAIN r : f[x] \in Int /\ f[x] = h[x]
            BY <2>1, <2>3, <2>4
        <3>. QED BY <1>1, <3>1, SumEqual
    <2>8. /\ SumFunction(f) = SumFunctionOnSet(f, DOMAIN q \cup DOMAIN r)
          /\ SumFunction(g) = SumFunctionOnSet(g, DOMAIN q)
          /\ SumFunction(h) = SumFunctionOnSet(h, DOMAIN r)
        BY <1>0, <2>1, <2>2, <2>3 DEF SumFunction
    <2>9. SumFunction(f) = SumFunction(g) + SumFunction(h)
        BY <2>5, <2>6, <2>7, <2>8
    <2>. QED BY <2>1, <2>2, <2>3, <2>9
<1>. QED BY <1>3 DEF Sum, Plus

(* Totals of totals may be added in another order.                         *)
Amounts(t) ==
    t.value \in Int /\ t.cost \in Int /\ t.positions \in Int /\ t.skipped \in Int

LEMMA PlusRegrouped ==
    ASSUME NEW t, NEW u, NEW v, NEW w, Amounts(t), Amounts(u), Amounts(v), Amounts(w)
    PROVE  Plus(Plus(t, u), Plus(v, w)) = Plus(Plus(t, v), Plus(u, w))
BY DEF Plus, Amounts

(* The last row of a symbol, if only rows of other symbols are left out.   *)
LEMMA LastOfPart ==
    ASSUME NEW rows, NEW n \in Nat, DOMAIN rows \subseteq 1 .. n,
           NEW part, DOMAIN part \subseteq DOMAIN rows,
           \A i \in DOMAIN part : part[i] = rows[i],
           NEW s, \A i \in DOMAIN rows : SymbolOf(rows[i]) = s => i \in DOMAIN part
    PROVE  /\ s \in SymbolsOf(part) <=> s \in SymbolsOf(rows)
           /\ s \in SymbolsOf(rows) => LastOf(part, s) = LastOf(rows, s)
<1>1. PICK I : I = {i \in DOMAIN rows : SymbolOf(rows[i]) = s}
    OBVIOUS
<1>2. I = {i \in DOMAIN part : SymbolOf(part[i]) = s}
    BY <1>1
<1>3. (s \in SymbolsOf(part) <=> I # {}) /\ (s \in SymbolsOf(rows) <=> I # {})
    BY <1>1, <1>2 DEF SymbolsOf
<1>4. ASSUME I # {}
      PROVE  LastOf(part, s) = LastOf(rows, s)
    <2>1. \E x \in I : \A y \in I : x >= y
        BY <1>1, <1>4, UptoFinite, LargestExists
    <2>2. Max(I) \in I
        BY <2>1 DEF Max
    <2>3. LastOf(part, s) = part[Max(I)] /\ LastOf(rows, s) = rows[Max(I)]
        BY <1>1, <1>2 DEF LastOf
    <2>. QED BY <1>2, <2>2, <2>3
<1>. QED BY <1>3, <1>4

(* What a block holds of one symbol.                                       *)
HeldIn(m, s) == \E i \in DOMAIN m : Held(m[i]) /\ SymbolOf(m[i]) = s
CostedIn(m, s) ==
    {m[i] : i \in {j \in DOMAIN m : Costed(m[j]) /\ SymbolOf(m[j]) = s}}
OnceIn(m, s) ==
    \A i, j \in DOMAIN m :
        Held(m[i]) /\ SymbolOf(m[i]) = s /\ Held(m[j]) /\ SymbolOf(m[j]) = s => i = j
RowsOf(rows, s) == {rows[i] : i \in {j \in DOMAIN rows : SymbolOf(rows[j]) = s}}

(* What two reads returned is what the tab now holds, of calm symbols.     *)
HoldingsCalm(held, m, calm) ==
    \A s \in calm :
        /\ s \in Range(held) <=> HeldIn(m, s)
        /\ OnceIn(m, s) => \A k, l \in DOMAIN held : held[k] = s /\ held[l] = s => k = l
CostsCalm(c, m, calm) == \A s \in calm : RowsOf(c, s) = CostedIn(m, s)

(* An edit of a row changes nothing for a symbol it neither had nor gets.  *)
LEMMA RowTypedOver ==
    ASSUME NEW m \in [1 .. MainSize -> MainRows], NEW k \in DOMAIN m, NEW r,
           NEW s, s # SymbolOf(m[k]), s # SymbolOf(r)
    PROVE  /\ HeldIn([m EXCEPT ![k] = r], s) <=> HeldIn(m, s)
           /\ CostedIn([m EXCEPT ![k] = r], s) = CostedIn(m, s)
           /\ OnceIn([m EXCEPT ![k] = r], s) <=> OnceIn(m, s)
<1>1. PICK n : n = [m EXCEPT ![k] = r]
    OBVIOUS
<1>2. DOMAIN n = DOMAIN m /\ n[k] = r /\ \A j \in DOMAIN m : j # k => n[j] = m[j]
    BY <1>1
<1>3. HeldIn(n, s) <=> HeldIn(m, s)
    BY <1>2 DEF HeldIn
<1>4. \A j \in DOMAIN m : (Costed(n[j]) /\ SymbolOf(n[j]) = s)
                            <=> (Costed(m[j]) /\ SymbolOf(m[j]) = s)
    BY <1>2
<1>5. CostedIn(n, s) = CostedIn(m, s)
    BY <1>2, <1>4 DEF CostedIn
<1>6. \A j \in DOMAIN m : (Held(n[j]) /\ SymbolOf(n[j]) = s)
                            <=> (Held(m[j]) /\ SymbolOf(m[j]) = s)
    BY <1>2
<1>7. OnceIn(n, s) <=> OnceIn(m, s)
    BY <1>2, <1>6 DEF OnceIn
<1>. QED BY <1>1, <1>3, <1>5, <1>7

(* Neither does sorting the block.                                         *)
LEMMA RowsSorted ==
    ASSUME NEW m \in [1 .. MainSize -> MainRows]
    PROVE  /\ Reverse(m) \in [1 .. MainSize -> MainRows]
           /\ \A s : /\ HeldIn(Reverse(m), s) <=> HeldIn(m, s)
                     /\ CostedIn(Reverse(m), s) = CostedIn(m, s)
                     /\ OnceIn(Reverse(m), s) <=> OnceIn(m, s)
<1>1. MainSize \in Nat
    BY DrTotalsConstants
<1>2. Len(m) = MainSize
    BY <1>1
<1>3. PICK n : n = Reverse(m)
    OBVIOUS
<1>4. DOMAIN n = 1 .. MainSize /\ \A i \in 1 .. MainSize : n[i] = m[MainSize - i + 1]
    BY <1>2, <1>3 DEF Reverse
<1>5. n \in [1 .. MainSize -> MainRows]
    <2>1. \A i \in 1 .. MainSize : n[i] \in MainRows
        BY <1>1, <1>4
    <2>2. n = [i \in 1 .. MainSize |-> m[MainSize - i + 1]]
        BY <1>2, <1>3 DEF Reverse
    <2>. QED BY <1>1, <2>1, <2>2
<1>6. \A i \in 1 .. MainSize : MainSize - i + 1 \in 1 .. MainSize
    BY <1>1
<1>7. \A i \in DOMAIN m : \E j \in DOMAIN n : n[j] = m[i]
    <2>1. ASSUME NEW i \in 1 .. MainSize PROVE n[MainSize - i + 1] = m[i]
        <3>1. MainSize - (MainSize - i + 1) + 1 = i
            BY <1>1
        <3>. QED BY <1>4, <1>6, <3>1
    <2>. QED BY <1>4, <1>6, <2>1
<1>8. \A i \in DOMAIN n : \E j \in DOMAIN m : m[j] = n[i]
    BY <1>4, <1>6
<1>9. ASSUME NEW s
      PROVE  /\ HeldIn(n, s) <=> HeldIn(m, s)
             /\ CostedIn(n, s) = CostedIn(m, s)
             /\ OnceIn(n, s) <=> OnceIn(m, s)
    <2>1. HeldIn(n, s) <=> HeldIn(m, s)
        BY <1>7, <1>8 DEF HeldIn
    <2>2. \A r : r \in CostedIn(n, s) <=> r \in CostedIn(m, s)
        <3>1. \A r : r \in CostedIn(n, s)
                        <=> \E i \in DOMAIN n : n[i] = r /\ Costed(r) /\ SymbolOf(r) = s
            BY DEF CostedIn
        <3>2. \A r : r \in CostedIn(m, s)
                        <=> \E i \in DOMAIN m : m[i] = r /\ Costed(r) /\ SymbolOf(r) = s
            BY DEF CostedIn
        <3>. QED BY <1>7, <1>8, <3>1, <3>2
    <2>3. CostedIn(n, s) = CostedIn(m, s)
        BY <2>2
    <2>4. ASSUME OnceIn(m, s) PROVE OnceIn(n, s)
        <3>1. ASSUME NEW i \in DOMAIN n, NEW j \in DOMAIN n,
                     Held(n[i]), SymbolOf(n[i]) = s, Held(n[j]), SymbolOf(n[j]) = s
              PROVE  i = j
            <4>1. PICK k : k = MainSize - i + 1
                OBVIOUS
            <4>2. PICK l : l = MainSize - j + 1
                OBVIOUS
            <4>3. k \in DOMAIN m /\ l \in DOMAIN m /\ n[i] = m[k] /\ n[j] = m[l]
                BY <1>4, <1>6, <3>1, <4>1, <4>2
            <4>4. k = l
                BY <2>4, <3>1, <4>3 DEF OnceIn
            <4>5. i \in Int /\ j \in Int
                BY <1>4, <3>1
            <4>. QED BY <1>1, <4>1, <4>2, <4>4, <4>5
        <3>. QED BY <3>1 DEF OnceIn
    <2>5. ASSUME OnceIn(n, s) PROVE OnceIn(m, s)
        <3>1. ASSUME NEW i \in DOMAIN m, NEW j \in DOMAIN m,
                     Held(m[i]), SymbolOf(m[i]) = s, Held(m[j]), SymbolOf(m[j]) = s
              PROVE  i = j
            <4>1. i \in 1 .. MainSize /\ j \in 1 .. MainSize
                BY <3>1
            <4>2. PICK k : k = MainSize - i + 1
                OBVIOUS
            <4>3. PICK l : l = MainSize - j + 1
                OBVIOUS
            <4>4. k \in DOMAIN n /\ l \in DOMAIN n /\ n[k] = m[MainSize - k + 1]
                  /\ n[l] = m[MainSize - l + 1]
                BY <1>4, <1>6, <4>1, <4>2, <4>3
            <4>5. MainSize - k + 1 = i /\ MainSize - l + 1 = j
                BY <1>1, <4>1, <4>2, <4>3
            <4>6. k = l
                BY <2>5, <3>1, <4>4, <4>5 DEF OnceIn
            <4>. QED BY <4>5, <4>6
        <3>. QED BY <3>1 DEF OnceIn
    <2>. QED BY <2>1, <2>3, <2>4, <2>5
<1>. QED BY <1>3, <1>5, <1>9

(* What the first two reads return is what the tab holds.                  *)
LEMMA ReadsAreCalm ==
    ASSUME NEW m \in [1 .. MainSize -> MainRows], NEW calm
    PROVE  /\ HoldingsCalm(Holdings(m), m, calm)
           /\ CostsCalm(RestrictValues(m, Costed), m, calm)
<1>1. /\ DOMAIN Holdings(m) = {i \in 1 .. MainSize : Held(m[i])}
      /\ \A i \in DOMAIN Holdings(m) : Holdings(m)[i] = SymbolOf(m[i])
    BY DEF Holdings, RestrictValues, Restrict
<1>2. /\ DOMAIN RestrictValues(m, Costed) = {i \in 1 .. MainSize : Costed(m[i])}
      /\ \A i \in DOMAIN RestrictValues(m, Costed) : RestrictValues(m, Costed)[i] = m[i]
    BY DEF RestrictValues, Restrict
<1>3. HoldingsCalm(Holdings(m), m, calm)
    <2>1. ASSUME NEW s
          PROVE  s \in Range(Holdings(m)) <=> HeldIn(m, s)
        BY <1>1 DEF HeldIn, Range
    <2>2. ASSUME NEW s, OnceIn(m, s), NEW k \in DOMAIN Holdings(m), NEW l \in DOMAIN Holdings(m),
                 Holdings(m)[k] = s, Holdings(m)[l] = s
          PROVE  k = l
        <3>1. /\ k \in DOMAIN m /\ Held(m[k]) /\ SymbolOf(m[k]) = s
              /\ l \in DOMAIN m /\ Held(m[l]) /\ SymbolOf(m[l]) = s
            BY <1>1, <2>2
        <3>. QED BY <2>2, <3>1 DEF OnceIn
    <2>. QED BY <2>1, <2>2 DEF HoldingsCalm
<1>4. PICK c : c = RestrictValues(m, Costed)
    OBVIOUS
<1>5. ASSUME NEW s
      PROVE  RowsOf(c, s) = CostedIn(m, s)
    <2>1. DOMAIN m = 1 .. MainSize
        OBVIOUS
    <2>2. \A j : j \in DOMAIN c <=> j \in DOMAIN m /\ Costed(m[j])
        BY <1>2, <1>4, <2>1
    <2>3. \A j \in DOMAIN c : c[j] = m[j]
        BY <1>2, <1>4
    <2>4. \A r : r \in RowsOf(c, s) <=> \E j \in DOMAIN c : c[j] = r /\ SymbolOf(c[j]) = s
        BY DEF RowsOf
    <2>5. \A r : r \in CostedIn(m, s)
                    <=> \E j \in DOMAIN m : m[j] = r /\ Costed(m[j]) /\ SymbolOf(m[j]) = s
        BY DEF CostedIn
    <2>6. \A r : r \in RowsOf(c, s) <=> r \in CostedIn(m, s)
        BY <2>2, <2>3, <2>4, <2>5
    <2>. QED BY <2>6 DEF RowsOf, CostedIn
<1>. QED BY <1>3, <1>4, <1>5 DEF CostsCalm

(* What the tab holds of the symbols outside T. *)
CalmMain(m, T) ==
    [i \in {j \in DOMAIN m : Held(m[j]) /\ SymbolOf(m[j]) \notin T} |-> m[i]]
CalmSection2(e, T) ==
    [i \in {j \in DOMAIN e : Dca(e[j]) /\ SymbolOf(e[j]) \notin T} |-> e[i]]

(* What the reads returned of the others.                                  *)
TouchedHeld(held, T) == [k \in {l \in DOMAIN held : held[l] \in T} |-> held[k]]
TouchedSection2(e, T) ==
    [i \in {j \in DOMAIN e : Dca(e[j]) /\ SymbolOf(e[j]) \in T} |-> e[i]]
Undisturbed(m, e, T, held, c, t) ==
    Distinct(CalmMain(m, T), CalmSection2(e, T))
        => t = Plus(RowByRow(CalmMain(m, T), CalmSection2(e, T)),
                    Merge(TouchedHeld(held, T), c, TouchedSection2(e, T)))

(* The merge is what the untouched rows make one by one, and what it makes *)
(* of the touched symbols alone.                                           *)
LEMMA CalmMerge ==
    ASSUME NEW m \in [1 .. MainSize -> MainRows], NEW e \in [1 .. DcaSize -> DcaRows],
           NEW T, NEW held, DOMAIN held \subseteq 1 .. MainSize,
           Range(held) \subseteq Range(Normal), NEW c, CostRows(c),
           HoldingsCalm(held, m, Range(Normal) \ T), CostsCalm(c, m, Range(Normal) \ T)
    PROVE  Undisturbed(m, e, T, held, c, Merge(held, c, RestrictValues(e, Dca)))
<1>. DEFINE h == CalmMain(m, T)
            g == CalmSection2(e, T)
            th == TouchedHeld(held, T)
            tg == TouchedSection2(e, T)
<1>. SUFFICES ASSUME Distinct(h, g)
              PROVE  Merge(held, c, RestrictValues(e, Dca))
                        = Plus(RowByRow(h, g), Merge(th, c, tg))
    BY DEF Undisturbed
<1>a. /\ DOMAIN h = {i \in 1 .. MainSize : Held(m[i]) /\ SymbolOf(m[i]) \notin T}
      /\ \A i \in DOMAIN h : h[i] = m[i]
    BY DEF CalmMain
<1>b. /\ DOMAIN g = {i \in 1 .. DcaSize : Dca(e[i]) /\ SymbolOf(e[i]) \notin T}
      /\ \A i \in DOMAIN g : g[i] = e[i]
    BY DEF CalmSection2
<1>c. /\ DOMAIN th = {k \in DOMAIN held : held[k] \in T}
      /\ \A k \in DOMAIN th : th[k] = held[k]
    BY DEF TouchedHeld
<1>d. /\ DOMAIN tg = {i \in 1 .. DcaSize : Dca(e[i]) /\ SymbolOf(e[i]) \in T}
      /\ \A i \in DOMAIN tg : tg[i] = e[i]
    BY DEF TouchedSection2
<1>. HIDE DEF h, g, th, tg
<1>. USE <1>a, <1>b, <1>c, <1>d
<1>1. PICK d : d = RestrictValues(e, Dca)
    OBVIOUS
<1>2. /\ DOMAIN d = {i \in 1 .. DcaSize : Dca(e[i])} /\ \A i \in DOMAIN d : d[i] = e[i]
      /\ Section2Rows(d)
    BY <1>1, RowsKept
<1>3. MainSize \in Nat /\ DcaSize \in Nat
    BY DrTotalsConstants
<1>4. /\ \A i, j \in DOMAIN h : SymbolOf(h[i]) = SymbolOf(h[j]) => i = j
      /\ \A i, j \in DOMAIN g : SymbolOf(g[i]) = SymbolOf(g[j]) => i = j
      /\ SymbolsOf(h) \cap SymbolsOf(g) = {}
    BY DEF Distinct
<1>5. ASSUME NEW i \in 1 .. MainSize
      PROVE  SymbolOf(m[i]) \in Range(Normal)
    <2>1. m[i].symbol \in DOMAIN Normal
        BY DrTotalsConstants
    <2>. QED BY <2>1 DEF SymbolOf, Range
<1>6. ASSUME NEW i \in 1 .. DcaSize
      PROVE  SymbolOf(e[i]) \in Range(Normal)
    <2>1. e[i].symbol \in DOMAIN Normal
        BY DrTotalsConstants
    <2>. QED BY <2>1 DEF SymbolOf, Range
<1>7. \A s : s \notin T /\ s \in SymbolsOf(d) => s \in SymbolsOf(g)
    <2>1. \A i \in DOMAIN d : SymbolOf(d[i]) \notin T => i \in DOMAIN g /\ g[i] = d[i]
        BY <1>2
    <2>. QED BY <2>1 DEF SymbolsOf
<1>8. \A s \in Range(Normal) \ T : s \in Range(held) => s \in SymbolsOf(h)
    <2>1. ASSUME NEW s \in Range(Normal) \ T, s \in Range(held)
          PROVE  s \in SymbolsOf(h)
        <3>1. HeldIn(m, s)
            BY <2>1 DEF HoldingsCalm
        <3>2. PICK i \in 1 .. MainSize : Held(m[i]) /\ SymbolOf(m[i]) = s
            BY <3>1 DEF HeldIn
        <3>3. i \in DOMAIN h /\ SymbolOf(h[i]) = s
            BY <3>2
        <3>. QED BY <3>3 DEF SymbolsOf
    <2>. QED BY <2>1

<1>9. ASSUME NEW s \in T
      PROVE  /\ s \in SymbolsOf(tg) <=> s \in SymbolsOf(d)
             /\ Position(s, c, tg) = Position(s, c, d)
    <2>1. DOMAIN tg \subseteq DOMAIN d /\ \A i \in DOMAIN tg : tg[i] = d[i]
        BY <1>2
    <2>2. \A i \in DOMAIN d : SymbolOf(d[i]) = s => i \in DOMAIN tg
        BY <1>2
    <2>3. /\ s \in SymbolsOf(tg) <=> s \in SymbolsOf(d)
          /\ s \in SymbolsOf(d) => LastOf(tg, s) = LastOf(d, s)
        BY <1>2, <1>3, <2>1, <2>2, LastOfPart
    <2>. QED BY <2>3 DEF Position

(* Held rows: the calm ones (y), which are those of h, and the touched.    *)
<1>10. PICK p : p = HeldPositions(held, c, d)
    OBVIOUS
<1>11. PICK q : q = [i \in DOMAIN h |-> IF Costed(h[i]) THEN MainPosition(h[i]) ELSE Skipped]
    OBVIOUS
<1>12. DOMAIN p = DOMAIN held /\ \A k \in DOMAIN p : p[k] = Position(held[k], c, d)
    BY <1>10 DEF HeldPositions
<1>13. \A i \in DOMAIN h : \E k \in DOMAIN held : held[k] = SymbolOf(h[i])
    <2>1. ASSUME NEW i \in DOMAIN h
          PROVE  \E k \in DOMAIN held : held[k] = SymbolOf(h[i])
        <3>1. i \in 1 .. MainSize /\ Held(m[i]) /\ h[i] = m[i] /\ SymbolOf(m[i]) \notin T
            OBVIOUS
        <3>2. SymbolOf(m[i]) \in Range(Normal) \ T
            BY <1>5, <3>1
        <3>3. HeldIn(m, SymbolOf(m[i]))
            BY <3>1 DEF HeldIn
        <3>4. SymbolOf(m[i]) \in Range(held)
            BY <3>2, <3>3 DEF HoldingsCalm
        <3>. QED BY <3>1, <3>4 DEF Range
    <2>. QED BY <2>1
<1>14. PICK y : y = [k \in {l \in DOMAIN held : held[l] \notin T} |-> p[k]]
    OBVIOUS
<1>15. /\ DOMAIN y = {l \in DOMAIN held : held[l] \notin T}
       /\ \A k \in DOMAIN y : y[k] = p[k]
    BY <1>14
<1>16. PICK b : b = [i \in DOMAIN h |-> CHOOSE k \in DOMAIN held : held[k] = SymbolOf(h[i])]
    OBVIOUS
<1>17. \A i \in DOMAIN h : b[i] \in DOMAIN y /\ held[b[i]] = SymbolOf(h[i])
    <2>1. \A i \in DOMAIN h : b[i] \in DOMAIN held /\ held[b[i]] = SymbolOf(h[i])
        BY <1>13, <1>16
    <2>2. \A i \in DOMAIN h : SymbolOf(h[i]) \notin T
        OBVIOUS
    <2>. QED BY <1>15, <2>1, <2>2
<1>18. b \in Bijection(DOMAIN q, DOMAIN y)
    <2>1. b \in [DOMAIN q -> DOMAIN y]
        BY <1>11, <1>16, <1>17
    <2>2. \A i, j \in DOMAIN q : b[i] = b[j] => i = j
        BY <1>4, <1>11, <1>17
    <2>3. ASSUME NEW k \in DOMAIN y
          PROVE  \E i \in DOMAIN q : b[i] = k
        <3>1. PICK s : s = held[k]
            OBVIOUS
        <3>2. k \in DOMAIN held /\ s \in Range(held) /\ s \in Range(Normal) \ T
            BY <1>15, <3>1 DEF Range
        <3>3. s \in SymbolsOf(h)
            BY <1>8, <3>2
        <3>4. PICK i \in DOMAIN h : SymbolOf(h[i]) = s
            BY <3>3 DEF SymbolsOf
        <3>5. OnceIn(m, s)
            <4>1. \A j \in DOMAIN m : Held(m[j]) /\ SymbolOf(m[j]) = s
                                            => j \in DOMAIN h /\ h[j] = m[j]
                BY <3>2
            <4>. QED BY <1>4, <4>1 DEF OnceIn
        <3>6. b[i] \in DOMAIN held /\ held[b[i]] = s
            BY <1>15, <1>17, <3>4
        <3>7. b[i] = k
            BY <3>1, <3>2, <3>5, <3>6 DEF HoldingsCalm
        <3>. QED BY <1>11, <3>7
    <2>. QED BY <2>1, <2>2, <2>3 DEF Bijection, Injection, Surjection, IsInjective
<1>19. ASSUME NEW i \in DOMAIN q
       PROVE  q[i] = y[b[i]]
    <2>1. i \in DOMAIN h /\ i \in 1 .. MainSize /\ Held(m[i]) /\ h[i] = m[i]
          /\ SymbolOf(m[i]) \notin T
        BY <1>11
    <2>2. PICK s : s = SymbolOf(m[i])
        OBVIOUS
    <2>3. s \in Range(Normal) \ T /\ s \in SymbolsOf(h)
        BY <1>5, <2>1, <2>2 DEF SymbolsOf
    <2>4. s \notin SymbolsOf(d)
        BY <1>4, <1>7, <2>3
    <2>5. y[b[i]] = Position(s, c, d)
        BY <1>12, <1>15, <1>17, <2>1, <2>2
    <2>6. CASE Costed(h[i])
        <3>1. CostedIn(m, s) = {m[i]}
            <4>1. ASSUME NEW j \in 1 .. MainSize, Costed(m[j]), SymbolOf(m[j]) = s
                  PROVE  j = i
                <5>1. j \in DOMAIN h /\ h[j] = m[j]
                    BY <2>3, <4>1 DEF Costed
                <5>. QED BY <1>4, <2>1, <2>2, <4>1, <5>1
            <4>. QED BY <2>1, <2>2, <2>6, <4>1 DEF CostedIn
        <3>2. RowsOf(c, s) = {m[i]}
            BY <2>3, <3>1 DEF CostsCalm
        <3>3. s \in SymbolsOf(c)
            BY <3>2 DEF RowsOf, SymbolsOf
        <3>4. PICK k \in DOMAIN c : SymbolOf(c[k]) = s /\ LastOf(c, s) = c[k]
            BY <1>3, <3>3, LastOfIsOne DEF CostRows
        <3>5. c[k] = m[i]
            <4>1. c[k] \in RowsOf(c, s)
                BY <3>4 DEF RowsOf
            <4>. QED BY <3>2, <4>1
        <3>6. Position(s, c, d) = MainPosition(m[i])
            BY <2>4, <3>3, <3>4, <3>5 DEF Position
        <3>7. q[i] = MainPosition(m[i])
            BY <1>11, <2>1, <2>6
        <3>. QED BY <2>5, <3>6, <3>7
    <2>7. CASE ~Costed(h[i])
        <3>1. CostedIn(m, s) = {}
            <4>1. ASSUME NEW j \in 1 .. MainSize, Costed(m[j]), SymbolOf(m[j]) = s
                  PROVE  FALSE
                <5>1. j \in DOMAIN h /\ h[j] = m[j]
                    BY <2>3, <4>1 DEF Costed
                <5>2. j = i
                    BY <1>4, <2>1, <2>2, <4>1, <5>1
                <5>. QED BY <2>7, <4>1, <5>1, <5>2
            <4>. QED BY <4>1 DEF CostedIn
        <3>2. RowsOf(c, s) = {}
            BY <2>3, <3>1 DEF CostsCalm
        <3>3. s \notin SymbolsOf(c)
            BY <3>2 DEF RowsOf, SymbolsOf
        <3>. QED BY <1>11, <2>1, <2>4, <2>5, <2>7, <3>3 DEF Position
    <2>. QED BY <2>6, <2>7
<1>20. IsFiniteSet(DOMAIN p) /\ \A k \in DOMAIN p : IsPart(p[k])
    <2>1. IsFiniteSet(DOMAIN p)
        BY <1>3, <1>12, UptoFinite
    <2>2. \A k \in DOMAIN p : IsPart(p[k])
        BY <1>2, <1>12, PositionIsPart
    <2>. QED BY <2>1, <2>2
<1>21. IsFiniteSet(DOMAIN y) /\ \A k \in DOMAIN y : IsPart(y[k])
    <2>1. DOMAIN y \subseteq DOMAIN p
        BY <1>12, <1>15
    <2>. QED BY <1>15, <1>20, <2>1, FS_Subset
<1>22. Sum(q) = Sum(y)
    BY <1>18, <1>19, <1>21, PartsReindexed
<1>23. PICK r : r = HeldPositions(th, c, tg)
    OBVIOUS
<1>24. DOMAIN r = DOMAIN th /\ \A k \in DOMAIN r : r[k] = p[k]
    <2>1. DOMAIN r = DOMAIN th /\ \A k \in DOMAIN r : r[k] = Position(th[k], c, tg)
        BY <1>23 DEF HeldPositions
    <2>2. \A k \in DOMAIN th : Position(th[k], c, tg) = Position(held[k], c, d)
        BY <1>9
    <2>. QED BY <1>12, <2>1, <2>2
<1>25. /\ \A k : k \in DOMAIN y <=> k \in DOMAIN p /\ k \notin DOMAIN r
       /\ \A k \in DOMAIN r : k \in DOMAIN p /\ r[k] = p[k]
       /\ DOMAIN r \subseteq DOMAIN p
    BY <1>12, <1>15, <1>24
<1>26. Sum(p) = Plus(Sum(q), Sum(r))
    <2>1. Sum(p) = Plus(Sum(y), Sum(r))
        BY <1>15, <1>20, <1>25, PartsSplit
    <2>. QED BY <1>22, <2>1
<1>27. Amounts(Sum(q)) /\ Amounts(Sum(r))
    <2>1. Amounts(Sum(y))
        BY <1>21, SumOfParts DEF Amounts
    <2>2. IsFiniteSet(DOMAIN r) /\ \A k \in DOMAIN r : IsPart(r[k])
        BY <1>20, <1>25, FS_Subset
    <2>3. Amounts(Sum(r))
        BY <2>2, SumOfParts DEF Amounts
    <2>. QED BY <1>22, <2>1, <2>3

(* Symbols of section 2: the calm ones (z), which are those of g, and the  *)
(* touched.                                                                *)
<1>30. PICK u : u = OtherPositions(held, c, d)
    OBVIOUS
<1>31. PICK v : v = [i \in DOMAIN g |-> DcaPosition(g[i])]
    OBVIOUS
<1>32. DOMAIN u = SymbolsOf(d) \ Range(held) /\ \A s \in DOMAIN u : u[s] = Position(s, c, d)
    BY <1>30 DEF OtherPositions
<1>33. PICK a : a = [i \in DOMAIN g |-> SymbolOf(g[i])]
    OBVIOUS
<1>34. PICK z : z = [s \in {t \in DOMAIN u : t \notin T} |-> u[s]]
    OBVIOUS
<1>35. DOMAIN z = {t \in DOMAIN u : t \notin T} /\ \A s \in DOMAIN z : z[s] = u[s]
    BY <1>34
<1>36. ASSUME NEW i \in DOMAIN g
       PROVE  i \in DOMAIN d /\ d[i] = g[i] /\ a[i] \in DOMAIN z
    <2>1. i \in 1 .. DcaSize /\ Dca(e[i]) /\ g[i] = e[i] /\ SymbolOf(e[i]) \notin T
        OBVIOUS
    <2>2. i \in DOMAIN d /\ d[i] = g[i] /\ a[i] = SymbolOf(g[i])
        BY <1>2, <1>33, <2>1
    <2>3. a[i] \in SymbolsOf(d) /\ a[i] \in SymbolsOf(g)
        BY <2>2 DEF SymbolsOf
    <2>4. a[i] \in Range(Normal) \ T
        BY <1>6, <2>1, <2>2
    <2>5. a[i] \notin Range(held)
        BY <1>4, <1>8, <2>3, <2>4
    <2>. QED BY <1>32, <1>35, <2>2, <2>3, <2>4, <2>5
<1>37. a \in Bijection(DOMAIN v, DOMAIN z)
    <2>1. a \in [DOMAIN v -> DOMAIN z]
        BY <1>31, <1>33, <1>36
    <2>2. \A i, j \in DOMAIN v : a[i] = a[j] => i = j
        BY <1>4, <1>31, <1>33
    <2>3. ASSUME NEW s \in DOMAIN z
          PROVE  \E i \in DOMAIN v : a[i] = s
        <3>1. s \in SymbolsOf(g)
            BY <1>7, <1>32, <1>35
        <3>. QED BY <1>31, <1>33, <3>1 DEF SymbolsOf
    <2>. QED BY <2>1, <2>2, <2>3 DEF Bijection, Injection, Surjection, IsInjective
<1>38. ASSUME NEW i \in DOMAIN v
       PROVE  v[i] = z[a[i]]
    <2>1. i \in DOMAIN g /\ v[i] = DcaPosition(g[i]) /\ a[i] = SymbolOf(g[i])
        BY <1>31, <1>33
    <2>2. i \in DOMAIN d /\ d[i] = g[i] /\ a[i] \in DOMAIN z
        BY <1>36, <2>1
    <2>3. ASSUME NEW j \in DOMAIN d, SymbolOf(d[j]) = SymbolOf(d[i])
          PROVE  j = i
        <3>1. j \in DOMAIN g /\ g[j] = d[j]
            BY <1>2, <2>1, <2>2, <2>3
        <3>. QED BY <1>4, <2>1, <2>2, <2>3, <3>1
    <2>4. i \in Int
        BY <1>2, <1>3, <2>2
    <2>5. LastOf(d, a[i]) = g[i]
        BY <2>1, <2>2, <2>3, <2>4, OnlyOneOf
    <2>6. a[i] \in SymbolsOf(d) /\ z[a[i]] = Position(a[i], c, d)
        BY <1>32, <1>35, <2>2
    <2>. QED BY <2>1, <2>5, <2>6 DEF Position
<1>39. IsFiniteSet(DOMAIN u) /\ \A s \in DOMAIN u : IsPart(u[s])
    <2>1. DOMAIN d \subseteq 1 .. DcaSize
        BY <1>2
    <2>2. IsFiniteSet(DOMAIN u)
        BY <1>3, <1>32, <2>1, SymbolsFinite
    <2>3. \A s \in DOMAIN u : IsPart(u[s])
        BY <1>2, <1>32, PositionIsPart
    <2>. QED BY <2>2, <2>3
<1>40. IsFiniteSet(DOMAIN z) /\ \A s \in DOMAIN z : IsPart(z[s])
    <2>1. DOMAIN z \subseteq DOMAIN u
        BY <1>35
    <2>. QED BY <1>35, <1>39, <2>1, FS_Subset
<1>41. Sum(v) = Sum(z)
    BY <1>37, <1>38, <1>40, PartsReindexed
<1>42. PICK w : w = OtherPositions(th, c, tg)
    OBVIOUS
<1>43. DOMAIN w = {s \in DOMAIN u : s \in T} /\ \A s \in DOMAIN w : w[s] = u[s]
    <2>1. /\ DOMAIN w = SymbolsOf(tg) \ Range(th)
          /\ \A s \in DOMAIN w : w[s] = Position(s, c, tg)
        BY <1>42 DEF OtherPositions
    <2>2. Range(th) = Range(held) \cap T
        BY DEF Range
    <2>3. SymbolsOf(tg) \subseteq T
        BY DEF SymbolsOf
    <2>4. SymbolsOf(tg) = SymbolsOf(d) \cap T
        BY <1>9, <2>3
    <2>5. DOMAIN w = {s \in DOMAIN u : s \in T}
        BY <1>32, <2>1, <2>2, <2>4
    <2>. QED BY <1>9, <1>32, <2>1, <2>5
<1>44. /\ \A s : s \in DOMAIN z <=> s \in DOMAIN u /\ s \notin DOMAIN w
       /\ \A s \in DOMAIN w : s \in DOMAIN u /\ w[s] = u[s]
       /\ DOMAIN w \subseteq DOMAIN u
    BY <1>35, <1>43
<1>45. Sum(u) = Plus(Sum(v), Sum(w))
    <2>1. Sum(u) = Plus(Sum(z), Sum(w))
        BY <1>35, <1>39, <1>44, PartsSplit
    <2>. QED BY <1>41, <2>1
<1>46. Amounts(Sum(v)) /\ Amounts(Sum(w))
    <2>1. Amounts(Sum(z))
        BY <1>40, SumOfParts DEF Amounts
    <2>2. IsFiniteSet(DOMAIN w) /\ \A s \in DOMAIN w : IsPart(w[s])
        BY <1>39, <1>44, FS_Subset
    <2>3. Amounts(Sum(w))
        BY <2>2, SumOfParts DEF Amounts
    <2>. QED BY <1>41, <2>1, <2>3

<1>50. Merge(held, c, d) = Plus(Plus(Sum(q), Sum(r)), Plus(Sum(v), Sum(w)))
    BY <1>10, <1>26, <1>30, <1>45 DEF Merge
<1>51. Merge(th, c, tg) = Plus(Sum(r), Sum(w)) /\ RowByRow(h, g) = Plus(Sum(q), Sum(v))
    BY <1>11, <1>23, <1>31, <1>42 DEF Merge, RowByRow
<1>52. Plus(Plus(Sum(q), Sum(r)), Plus(Sum(v), Sum(w)))
       = Plus(Plus(Sum(q), Sum(v)), Plus(Sum(r), Sum(w)))
    BY <1>27, <1>46, PlusRegrouped
<1>. QED BY <1>1, <1>50, <1>51, <1>52

----------------------------------------------------------------------------
(* get_asset_allocation: the entries and their shares. *)

(* Entries of the allocation are at places of rows, with natural values.   *)
LEMMA ParsedIs ==
    ASSUME NEW rows \in Seq(AllocationRows)
    PROVE  /\ DOMAIN Parsed(rows) \subseteq DOMAIN rows
           /\ \A i \in DOMAIN Parsed(rows) : Parsed(rows)[i].value \in Nat
<1>1. PICK d : d = Dict(rows)
    OBVIOUS
<1>2. DOMAIN d \subseteq DOMAIN rows
    BY <1>1 DEF Dict
<1>3. /\ DOMAIN RestrictValues(d, Kept) = {i \in DOMAIN d : Kept(d[i])}
      /\ \A i \in DOMAIN RestrictValues(d, Kept) : RestrictValues(d, Kept)[i] = d[i]
    BY DEF RestrictValues, Restrict
<1>4. /\ DOMAIN Parsed(rows) = {i \in DOMAIN d : Kept(d[i])}
      /\ \A i \in DOMAIN Parsed(rows) : Parsed(rows)[i].value = d[i].cell.n
    BY <1>1, <1>3 DEF Parsed
<1>5. ASSUME NEW i \in DOMAIN d
      PROVE  d[i].cell.n \in Int
    <2>1. d[i].cell = LastCell(rows, rows[i].name)
        BY <1>1 DEF Dict
    <2>2. PICK J : J = {j \in DOMAIN rows : rows[j].name = rows[i].name}
        OBVIOUS
    <2>3. J \in SUBSET (1 .. Len(rows)) /\ J # {} /\ Len(rows) \in Nat
        BY <1>2, <2>2, RowsOfSheet
    <2>4. \E j \in J : \A k \in J : j >= k
        BY <2>3, UptoFinite, LargestExists
    <2>5. Max(J) \in J
        BY <2>4 DEF Max
    <2>6. LastCell(rows, rows[i].name) = rows[Max(J)].cell
        BY <2>2 DEF LastCell
    <2>7. rows[Max(J)] \in AllocationRows
        BY <2>2, <2>5, RowsOfSheet
    <2>. QED BY <2>1, <2>6, <2>7, AllocationSheetConstants
<1>6. \A i \in DOMAIN Parsed(rows) : d[i].cell.n \in Nat
    <2>1. ASSUME NEW i \in DOMAIN Parsed(rows)
          PROVE  d[i].cell.n \in Nat
        <3>1. i \in DOMAIN d /\ Kept(d[i])
            BY <1>4
        <3>2. d[i].cell.n >= 0
            BY <3>1 DEF Kept
        <3>. QED BY <1>5, <3>1, <3>2
    <2>. QED BY <2>1
<1>. QED BY <1>2, <1>4, <1>6

(* Each entry has its share of the total, and the DR entries the DR value. *)
LEMMA AllocationIs ==
    ASSUME NEW rows \in Seq(AllocationRows), NEW v \in Nat
    PROVE  LET A == Allocation(rows, v)
           IN  /\ DOMAIN A \subseteq DOMAIN rows
               /\ \A i \in DOMAIN A :
                    /\ A[i].value \in Nat
                    /\ A[i].percent = Percent(A[i].value, Total(A))
                    /\ IsDr(A[i]) => A[i].value = v
<1>1. PICK p : p = Parsed(rows)
    OBVIOUS
<1>2. DOMAIN p \subseteq DOMAIN rows /\ \A i \in DOMAIN p : p[i].value \in Nat
    BY <1>1, ParsedIs
<1>3. PICK e : e = ReplaceDr(p, v)
    OBVIOUS
<1>4. /\ DOMAIN e = DOMAIN p
      /\ \A i \in DOMAIN p :
            /\ e[i].name = p[i].name
            /\ e[i].value = IF IsDr(p[i]) THEN v ELSE p[i].value
    BY <1>3 DEF ReplaceDr
<1>5. PICK A : A = Allocation(rows, v)
    OBVIOUS
<1>6. A = [i \in DOMAIN e |-> [name |-> e[i].name, value |-> e[i].value,
                               percent |-> Percent(e[i].value, Total(e))]]
    BY <1>1, <1>3, <1>5 DEF Allocation
<1>7. /\ DOMAIN A = DOMAIN e
      /\ \A i \in DOMAIN e : /\ A[i].name = e[i].name /\ A[i].value = e[i].value
                             /\ A[i].percent = Percent(e[i].value, Total(e))
    BY <1>6
<1>8. [i \in DOMAIN A |-> A[i].value] = [i \in DOMAIN e |-> e[i].value]
    BY <1>7
<1>9. Total(A) = Total(e)
    BY <1>8 DEF Total
<1>10. \A i \in DOMAIN A : IsDr(A[i]) <=> IsDr(p[i])
    BY <1>4, <1>7 DEF IsDr
<1>11. \A i \in DOMAIN A : A[i].value \in Nat /\ (IsDr(A[i]) => A[i].value = v)
    BY <1>2, <1>4, <1>7, <1>10
<1>. QED BY <1>2, <1>4, <1>5, <1>7, <1>9, <1>11

(* Rounding moves each share by half a hundredth at most, so that many     *)
(* entries are needed before it moves the sum out of the tolerance.        *)
LEMMA RoundingIsTolerated ==
    ASSUME MaxAllocationRows <= 2 * ALLOCATION_TOLERANCE,
           NEW rows \in Seq(AllocationRows), Len(rows) <= MaxAllocationRows,
           NEW v \in Nat, Unbalanced(Allocation(rows, v))
    PROVE  Total(Allocation(rows, v)) = 0
<1>1. PICK A : A = Allocation(rows, v)
    OBVIOUS
<1>2. PICK S : S = DOMAIN A
    OBVIOUS
<1>3. PICK t : t = Total(A)
    OBVIOUS
<1>4. /\ S \subseteq DOMAIN rows
      /\ \A i \in S : A[i].value \in Nat /\ A[i].percent = Percent(A[i].value, t)
    BY <1>1, <1>2, <1>3, AllocationIs
<1>5. IsFiniteSet(S) /\ Cardinality(S) \in 0 .. Len(rows)
    BY <1>4, RowsFinite
<1>6. PICK val : val = [i \in S |-> A[i].value]
    OBVIOUS
<1>7. t = SumFunctionOnSet(val, S)
    BY <1>2, <1>3, <1>6 DEF Total, SumFunction
<1>8. \A i \in S : val[i] \in Nat
    BY <1>4, <1>6
<1>9. t \in Nat
    BY <1>5, <1>7, <1>8, SumOfNaturals
<1>10. SUFFICES ASSUME t > 0 PROVE FALSE
    BY <1>1, <1>3, <1>9
<1>11. PICK pct : pct = [i \in S |-> A[i].percent]
    OBVIOUS
<1>12. PICK shares : shares = SumFunctionOnSet(pct, S)
    OBVIOUS
<1>13. PICK N : N = Cardinality(S)
    OBVIOUS
<1>14. ASSUME NEW i \in S
       PROVE  /\ pct[i] \in Nat
              /\ (2 * t) * pct[i] <= 20000 * val[i] + t
              /\ 20000 * val[i] - t <= (2 * t) * pct[i]
    <2>1. pct[i] = Rounded(10000 * val[i], t)
        BY <1>4, <1>6, <1>9, <1>10, <1>11 DEF Percent
    <2>. DEFINE n == 10000 * val[i]
    <2>3. n \in Nat /\ 2 * n = 20000 * val[i]
        BY <1>8
    <2>4. pct[i] = Rounded(n, t)
        BY <2>1
    <2>. HIDE DEF n
    <2>5. /\ Rounded(n, t) \in Nat
          /\ (2 * t) * Rounded(n, t) <= 2 * n + t
          /\ 2 * n - t <= (2 * t) * Rounded(n, t)
        <3>1. n \in Nat /\ t \in Nat /\ t > 0
            BY <1>9, <1>10, <2>3
        <3>. QED BY <3>1, RoundedIsNear, Zenon
    <2>. QED BY <2>3, <2>4, <2>5
<1>15. PICK one : one = [i \in S |-> 1]
    OBVIOUS
<1>16. PICK err : err = [i \in S |-> t * one[i]]
    OBVIOUS
<1>17. SumFunctionOnSet(err, S) = t * N
    <2>1. SumFunctionOnSet(one, S) = N
        BY <1>5, <1>13, <1>15, SumOfOnes
    <2>2. \A i \in S : one[i] \in Int /\ err[i] = t * one[i]
        BY <1>15, <1>16
    <2>3. SumFunctionOnSet(err, S) = t * SumFunctionOnSet(one, S)
        BY <1>5, <1>9, <2>2, SumOfMultiples
    <2>. QED BY <2>1, <2>3
<1>. DEFINE exact == [i \in S |-> 20000 * val[i]]
<1>18. \A i \in S : exact[i] = 20000 * val[i]
    OBVIOUS
<1>. HIDE DEF exact
<1>19. SumFunctionOnSet(exact, S) = 20000 * t
    <2>1. \A i \in S : val[i] \in Int /\ exact[i] = 20000 * val[i]
        BY <1>8, <1>18
    <2>. QED BY <1>5, <1>7, <2>1, SumOfMultiples
<1>20. PICK scaled : scaled = [i \in S |-> (2 * t) * pct[i]]
    OBVIOUS
<1>21. SumFunctionOnSet(scaled, S) = (2 * t) * shares
    <2>1. \A i \in S : pct[i] \in Int /\ scaled[i] = (2 * t) * pct[i]
        BY <1>14, <1>20
    <2>2. 2 * t \in Int
        BY <1>9
    <2>. QED BY <1>5, <1>12, <2>1, <2>2, SumOfMultiples
<1>22. \A i \in S : /\ scaled[i] \in Int /\ exact[i] \in Int /\ err[i] \in Int
                    /\ scaled[i] <= exact[i] + err[i]
                    /\ exact[i] <= scaled[i] + err[i]
    <2>1. ASSUME NEW i \in S
          PROVE  /\ scaled[i] = (2 * t) * pct[i] /\ exact[i] = 20000 * val[i] /\ err[i] = t
                 /\ scaled[i] \in Int /\ exact[i] \in Int
        <3>1. err[i] = t * 1 /\ t * 1 = t
            BY <1>9, <1>15, <1>16
        <3>2. (2 * t) * pct[i] \in Int /\ 20000 * val[i] \in Int
            BY <1>8, <1>9, <1>14
        <3>. QED BY <1>18, <1>20, <3>1, <3>2
    <2>. QED BY <1>9, <1>14, <2>1
<1>23. PICK above : above = [i \in S |-> exact[i] + err[i]]
    OBVIOUS
<1>24. PICK under : under = [i \in S |-> scaled[i] + err[i]]
    OBVIOUS
<1>25. (2 * t) * shares <= 20000 * t + t * N
    <2>1. SumFunctionOnSet(above, S) = SumFunctionOnSet(exact, S) + SumFunctionOnSet(err, S)
        BY <1>5, <1>22, <1>23, SumOfSums
    <2>2. \A i \in S : scaled[i] \in Int /\ above[i] \in Int /\ scaled[i] <= above[i]
        BY <1>22, <1>23
    <2>3. SumFunctionOnSet(scaled, S) <= SumFunctionOnSet(above, S)
        BY <1>5, <2>2, SumAtMost
    <2>. QED BY <1>17, <1>19, <1>21, <2>1, <2>3
<1>26. 20000 * t <= (2 * t) * shares + t * N
    <2>1. SumFunctionOnSet(under, S) = SumFunctionOnSet(scaled, S) + SumFunctionOnSet(err, S)
        BY <1>5, <1>22, <1>24, SumOfSums
    <2>2. \A i \in S : exact[i] \in Int /\ under[i] \in Int /\ exact[i] <= under[i]
        BY <1>22, <1>24
    <2>3. SumFunctionOnSet(exact, S) <= SumFunctionOnSet(under, S)
        BY <1>5, <2>2, SumAtMost
    <2>. QED BY <1>17, <1>19, <1>21, <2>1, <2>3
<1>27. shares \in Nat /\ N \in Nat /\ N <= MaxAllocationRows /\ MaxAllocationRows \in Nat
    <2>1. shares \in Nat
        BY <1>5, <1>12, <1>14, SumOfNaturals
    <2>2. MaxAllocationRows \in Nat
        BY AllocationSheetConstants
    <2>3. Len(rows) \in Nat /\ Len(rows) <= MaxAllocationRows
        BY RowsOfSheet
    <2>. QED BY <1>5, <1>13, <2>1, <2>2, <2>3
<1>28. 2 * shares <= 20000 + N
    <2>1. t * (2 * shares) = (2 * t) * shares /\ t * (20000 + N) = 20000 * t + t * N
        BY <1>9, <1>27
    <2>2. t * (2 * shares) <= t * (20000 + N)
        BY <1>25, <2>1
    <2>. QED BY <1>9, <1>10, <1>27, <2>2, Cancel
<1>29. 20000 <= 2 * shares + N
    <2>1. t * (2 * shares + N) = (2 * t) * shares + t * N /\ t * 20000 = 20000 * t
        BY <1>9, <1>27
    <2>2. t * 20000 <= t * (2 * shares + N)
        BY <1>26, <2>1
    <2>. QED BY <1>9, <1>10, <1>27, <2>2, Cancel
<1>30. shares > 10000 + ALLOCATION_TOLERANCE \/ shares < 10000 - ALLOCATION_TOLERANCE
    BY <1>1, <1>2, <1>11, <1>12 DEF Unbalanced, SumFunction
<1>31. ALLOCATION_TOLERANCE \in Nat
    BY AllocationSheetConstants
<1>. QED BY <1>27, <1>28, <1>29, <1>30, <1>31

----------------------------------------------------------------------------
(* The inductive invariant. *)

(* What the three reads would return of the tab as it is, and the totals.  *)
HeldNow == IF tab THEN Holdings(main) ELSE <<>>
CostsNow == IF tab THEN RestrictValues(main, Costed) ELSE <<>>
DcaNow == IF tab THEN RestrictValues(dca, Dca) ELSE <<>>
DrNow == Merge(HeldNow, CostsNow, DcaNow)

(* A report is the report of the sheet as it is, or of a failed read.      *)
SheetInv ==
    /\ sheet \in Seq(RawRows) /\ Len(sheet) <= MaxRows
    /\ report.how \in {"none", "raised", "answered"}
    /\ report.how = "answered" =>
            report.summary = Unreadable \/ report.summary = Summary(sheet)

Totals(t) ==
    /\ t.value \in Nat /\ t.cost \in Nat /\ t.positions \in Nat /\ t.skipped \in Nat
    /\ t.positions + t.skipped <= MainSize + DcaSize

TabInv ==
    /\ tab \in BOOLEAN
    /\ main \in [1 .. MainSize -> MainRows]
    /\ dca \in [1 .. DcaSize -> DcaRows]
    /\ pc \in {"idle", "holdings", "costs", "section2", "done", "raised", "unavailable"}
    /\ DOMAIN symbols \subseteq 1 .. MainSize
    /\ Range(symbols) \subseteq Range(Normal) \ {""}
    /\ CostRows(costs)
    /\ Totals(totals)
    /\ edits \in 0 .. MaxEdits
    /\ touched \subseteq Range(Normal)

(* Nothing being edited, each read has returned what is in the tab.        *)
QuietInv ==
    edits = 0 =>
        /\ pc \in {"costs", "section2", "done"} => symbols = HeldNow
        /\ pc \in {"section2", "done"} => costs = CostsNow
        /\ pc = "done" => totals = DrNow

(* Whatever is edited, each read has returned what is in the tab of the    *)
(* symbols that no edit touched.                                           *)
CalmInv ==
    tab =>
        /\ pc \in {"costs", "section2"} =>
                HoldingsCalm(symbols, main, Range(Normal) \ touched)
        /\ pc = "section2" => CostsCalm(costs, main, Range(Normal) \ touched)
        /\ pc = "done" => Undisturbed(main, dca, touched, symbols, costs, totals)

(* A reply says what its sources say, of DR as long as nothing is edited.  *)
Right(c, r, us, listed, rows, edited, dr) ==
    /\ r.how \in Hows
    /\ c = "portfolio" /\ r.how = "shown" => r.us = us /\ (edited = 0 => r.dr = dr)
    /\ c = "portfolio" /\ r.how = "empty" => us = 0 /\ (edited = 0 => dr.value = 0)
    /\ c = "holdings" /\ r.how = "shown" => r.listed = listed
    /\ c \in {"allocation", "summary"} /\ r.how = "shown" =>
            /\ \E v \in Nat : r.entries = Allocation(rows, v)
            /\ edited = 0 /\ r.read => r.entries = Allocation(rows, dr.value)
            /\ c = "summary" /\ edited = 0 /\ r.counted => r.pending = dr.skipped
            /\ c = "allocation" /\ r.warned => Unbalanced(r.entries)

ListedNow == Min({HOLDINGS_LIMIT, Cardinality(HoldingsIndexOf(sheet))})

AnswerInv ==
    /\ rate \in Rates
    /\ alloc \in Seq(AllocationRows) /\ Len(alloc) <= MaxAllocationRows
    /\ command \in {"none", "portfolio", "allocation", "summary"}
    /\ (command = "none") <=> (pc = "idle")
    /\ DOMAIN out \subseteq Replying
    /\ \A c \in DOMAIN out :
            Right(c, out[c], UsdPositions, ListedNow, alloc, edits, DrNow)

(* A summary that waits for its count is right but for the count.          *)
IsDraft(d) ==
    d = [how |-> "shown", entries |-> d.entries, read |-> d.read, cash |-> d.cash,
         pending |-> d.pending, counted |-> d.counted]
DraftInv ==
    /\ draft.how \in {"none", "shown"}
    /\ draft.how = "shown" =>
            /\ command = "summary" /\ IsDraft(draft)
            /\ Right("summary", draft, UsdPositions, ListedNow, alloc, edits, DrNow)

IInv == SheetInv /\ TabInv /\ QuietInv /\ CalmInv /\ AnswerInv /\ DraftInv

LEMMA NoRows == CostRows(<<>>) /\ Section2Rows(<<>>)
                    /\ DOMAIN <<>> = {} /\ Range(<<>>) = {}
BY DEF CostRows, Section2Rows, Range

LEMMA ZeroTotals == Totals(Zero)
BY DrTotalsConstants DEF Totals, Zero

(* The invariant holds at first.                                           *)
LEMMA InitInv == Init => IInv
<1>. SUFFICES ASSUME Init PROVE IInv
    OBVIOUS
<1>1. /\ sheet \in BoundedSeq(RawRows, MaxRows) /\ report = [how |-> "none"]
      /\ rate \in Rates /\ alloc \in BoundedSeq(AllocationRows, MaxAllocationRows)
      /\ command = "none" /\ draft = NoDraft /\ out = <<>>
    BY DEF Init, InitWith, SheetInit
<1>2. /\ tab \in BOOLEAN /\ main \in [1 .. MainSize -> MainRows]
      /\ dca \in [1 .. DcaSize -> DcaRows] /\ pc = "idle" /\ symbols = <<>> /\ costs = <<>>
      /\ totals = Zero /\ edits = 0 /\ touched = {}
    BY DEF Init, InitWith, DrInit
<1>3. SheetInv
    BY <1>1, ValidationConstants, BoundedSheets DEF SheetInv
<1>4. TabInv
    <2>1. MaxEdits \in Nat
        BY DrTotalsConstants
    <2>2. DOMAIN symbols \subseteq 1 .. MainSize /\ Range(symbols) = {} /\ CostRows(costs)
        BY <1>2, NoRows
    <2>3. Totals(totals)
        BY <1>2, ZeroTotals
    <2>4. edits \in 0 .. MaxEdits
        BY <1>2, <2>1
    <2>5. touched \subseteq Range(Normal) /\ Range(symbols) \subseteq Range(Normal) \ {""}
        BY <1>2, <2>2
    <2>. QED BY <1>2, <2>2, <2>3, <2>4, <2>5 DEF TabInv
<1>5. QuietInv
    BY <1>2 DEF QuietInv
<1>6. CalmInv
    BY <1>2 DEF CalmInv
<1>7. AnswerInv
    <2>1. MaxAllocationRows \in Nat
        BY AllocationSheetConstants
    <2>2. alloc \in Seq(AllocationRows) /\ Len(alloc) <= MaxAllocationRows
        BY <1>1, <2>1, BoundedSheets
    <2>3. DOMAIN out = {}
        BY <1>1, NoRows
    <2>. QED BY <1>1, <1>2, <2>2, <2>3 DEF AnswerInv
<1>8. DraftInv
    BY <1>1 DEF DraftInv, NoDraft
<1>. QED BY <1>3, <1>4, <1>5, <1>6, <1>7, <1>8 DEF IInv

----------------------------------------------------------------------------
(* The steps of the DR reads. *)

(* What a read would return is what a read can return.                     *)
LEMMA NowTyped ==
    ASSUME TabInv
    PROVE  /\ DOMAIN HeldNow \subseteq 1 .. MainSize
           /\ Range(HeldNow) \subseteq Range(Normal) \ {""}
           /\ CostRows(CostsNow) /\ Section2Rows(DcaNow)
<1>1. main \in [1 .. MainSize -> MainRows] /\ dca \in [1 .. DcaSize -> DcaRows]
    BY DEF TabInv
<1>2. CASE tab
    BY <1>1, <1>2, RowsKept DEF HeldNow, CostsNow, DcaNow
<1>3. CASE ~tab
    BY <1>3, NoRows DEF HeldNow, CostsNow, DcaNow
<1>. QED BY <1>2, <1>3

(* What a step that neither edits nor reads keeps.                         *)
LEMMA TabKept ==
    ASSUME TabInv, QuietInv, CalmInv,
           UNCHANGED <<tab, main, dca, symbols, costs, totals, edits, touched>>,
           pc' \in {pc, "holdings", "unavailable", "raised"}
    PROVE  TabInv' /\ QuietInv' /\ CalmInv'
<1>1. TabInv'
    BY DEF TabInv
<1>2. QuietInv'
    BY DEF QuietInv, HeldNow, CostsNow, DrNow, DcaNow
<1>3. CalmInv'
    BY DEF CalmInv
<1>. QED BY <1>1, <1>2, <1>3

(* The first read returns the holdings of the tab.                         *)
LEMMA ReadHoldingsStep ==
    ASSUME TabInv, QuietInv, CalmInv, ReadHoldings
    PROVE  TabInv' /\ QuietInv' /\ CalmInv'
<1>1. /\ pc = "holdings" /\ pc' = "costs" /\ symbols' = HeldNow
      /\ UNCHANGED <<tab, main, dca, costs, totals, edits, touched>>
    BY DEF ReadHoldings, HeldNow
<1>2. HeldNow' = HeldNow
    BY <1>1 DEF HeldNow
<1>3. TabInv'
    BY <1>1, NowTyped DEF TabInv
<1>4. QuietInv'
    BY <1>1, <1>2 DEF QuietInv
<1>5. CalmInv'
    <2>1. CASE tab
        <3>1. symbols' = Holdings(main)
            BY <1>1, <2>1 DEF HeldNow
        <3>2. HoldingsCalm(Holdings(main), main, Range(Normal) \ touched)
            BY ReadsAreCalm DEF TabInv
        <3>3. HoldingsCalm(symbols, main, Range(Normal) \ touched)'
            BY <1>1, <3>1, <3>2
        <3>. QED BY <1>1, <3>3 DEF CalmInv
    <2>2. CASE ~tab
        BY <1>1, <2>2 DEF CalmInv
    <2>. QED BY <2>1, <2>2
<1>. QED BY <1>3, <1>4, <1>5

(* The second read returns the costs of the tab as it is by then.          *)
LEMMA ReadCostsStep ==
    ASSUME TabInv, QuietInv, CalmInv, ReadCosts
    PROVE  TabInv' /\ QuietInv' /\ CalmInv'
<1>1. /\ pc = "costs" /\ pc' = "section2" /\ costs' = CostsNow
      /\ UNCHANGED <<tab, main, dca, symbols, totals, edits, touched>>
    BY DEF ReadCosts, CostsNow
<1>2. HeldNow' = HeldNow /\ CostsNow' = CostsNow
    BY <1>1 DEF HeldNow, CostsNow
<1>3. TabInv'
    BY <1>1, NowTyped DEF TabInv
<1>4. QuietInv'
    BY <1>1, <1>2 DEF QuietInv
<1>5. CalmInv'
    <2>1. CASE tab
        <3>1. costs' = RestrictValues(main, Costed)
            BY <1>1, <2>1 DEF CostsNow
        <3>2. CostsCalm(RestrictValues(main, Costed), main, Range(Normal) \ touched)
            BY ReadsAreCalm DEF TabInv
        <3>3. CostsCalm(costs, main, Range(Normal) \ touched)'
            BY <1>1, <3>1, <3>2
        <3>4. HoldingsCalm(symbols, main, Range(Normal) \ touched)'
            BY <1>1, <2>1 DEF CalmInv
        <3>. QED BY <1>1, <3>3, <3>4 DEF CalmInv
    <2>2. CASE ~tab
        BY <1>1, <2>2 DEF CalmInv
    <2>. QED BY <2>1, <2>2
<1>. QED BY <1>3, <1>4, <1>5

(* The third read ends the computation: the merge of three tabs.           *)
LEMMA ReadSection2Step ==
    ASSUME TabInv, QuietInv, CalmInv, ReadSection2
    PROVE  TabInv' /\ QuietInv' /\ CalmInv'
<1>1. /\ pc = "section2" /\ UNCHANGED <<tab, main, dca, symbols, costs, edits, touched>>
      /\ \/ pc' = "raised" /\ UNCHANGED totals
         \/ pc' = "done" /\ totals' = Merge(symbols, costs, DcaNow)
    BY DEF ReadSection2, DcaNow
<1>2. CASE pc' = "raised" /\ UNCHANGED totals
    BY <1>1, <1>2, TabKept
<1>3. CASE pc' = "done" /\ totals' = Merge(symbols, costs, DcaNow)
    <2>1. HeldNow' = HeldNow /\ CostsNow' = CostsNow /\ DcaNow' = DcaNow
        BY <1>1 DEF HeldNow, CostsNow, DcaNow
    <2>2. /\ DOMAIN symbols \subseteq 1 .. MainSize /\ CostRows(costs)
          /\ Section2Rows(DcaNow)
        BY NowTyped DEF TabInv
    <2>3. Totals(Merge(symbols, costs, DcaNow))
        BY <2>2, MergeIs DEF Totals
    <2>4. TabInv'
        BY <1>1, <1>3, <2>3 DEF TabInv
    <2>5. QuietInv'
        <3>1. ASSUME edits = 0
              PROVE  symbols = HeldNow /\ costs = CostsNow
            BY <1>1, <3>1 DEF QuietInv
        <3>2. DrNow' = DrNow
            BY <2>1 DEF DrNow
        <3>3. ASSUME edits = 0 PROVE totals' = DrNow
            BY <1>3, <3>1, <3>3 DEF DrNow
        <3>. QED BY <1>1, <1>3, <2>1, <3>1, <3>2, <3>3 DEF QuietInv
    <2>6. CalmInv'
        <3>1. CASE tab
            <4>1. DcaNow = RestrictValues(dca, Dca)
                BY <3>1 DEF DcaNow
            <4>2. /\ HoldingsCalm(symbols, main, Range(Normal) \ touched)
                  /\ CostsCalm(costs, main, Range(Normal) \ touched)
                BY <1>1, <3>1 DEF CalmInv
            <4>3. main \in [1 .. MainSize -> MainRows] /\ dca \in [1 .. DcaSize -> DcaRows]
                BY DEF TabInv
            <4>4. Range(symbols) \subseteq Range(Normal)
                BY DEF TabInv
            <4>5. Undisturbed(main, dca, touched, symbols, costs,
                              Merge(symbols, costs, RestrictValues(dca, Dca)))
                BY <2>2, <4>2, <4>3, <4>4, CalmMerge
            <4>6. Undisturbed(main, dca, touched, symbols, costs, totals)'
                BY <1>1, <1>3, <4>1, <4>5
            <4>. QED BY <1>3, <4>6 DEF CalmInv
        <3>2. CASE ~tab
            BY <1>1, <3>2 DEF CalmInv
        <3>. QED BY <3>1, <3>2
    <2>. QED BY <2>4, <2>5, <2>6
<1>. QED BY <1>1, <1>2, <1>3

(* Symbols are compared in their normal form.                              *)
LEMMA SymbolsNormal ==
    /\ \A r \in MainRows : SymbolOf(r) \in Range(Normal)
    /\ \A r \in DcaRows : SymbolOf(r) \in Range(Normal)
BY DrTotalsConstants DEF SymbolOf, Range

(* An edit disturbs the symbols it touches and no other.                   *)
LEMMA EditStep ==
    ASSUME TabInv, QuietInv, CalmInv, Edit
    PROVE  TabInv' /\ QuietInv' /\ CalmInv'
<1>1. /\ tab /\ pc \in {"holdings", "costs", "section2"} /\ edits < MaxEdits /\ edits' = edits + 1
      /\ UNCHANGED <<tab, pc, symbols, costs, totals>>
    BY DEF Edit
<1>2. /\ main \in [1 .. MainSize -> MainRows] /\ dca \in [1 .. DcaSize -> DcaRows]
      /\ edits \in 0 .. MaxEdits /\ touched \subseteq Range(Normal) /\ MaxEdits \in Nat
    BY DrTotalsConstants DEF TabInv
<1>3. edits' \in 0 .. MaxEdits /\ edits' # 0
    BY <1>1, <1>2
<1>4. QuietInv'
    BY <1>3 DEF QuietInv
(* What every edit leaves alone of the symbols that it does not touch.     *)
<1>5. SUFFICES /\ main' \in [1 .. MainSize -> MainRows] /\ dca' \in [1 .. DcaSize -> DcaRows]
               /\ touched' \subseteq Range(Normal) /\ touched \subseteq touched'
               /\ \A s \in Range(Normal) \ touched' :
                    /\ HeldIn(main', s) <=> HeldIn(main, s)
                    /\ CostedIn(main', s) = CostedIn(main, s)
                    /\ OnceIn(main', s) <=> OnceIn(main, s)
    <2>1. TabInv'
        BY <1>1, <1>3, <1>5 DEF TabInv
    <2>2. pc # "holdings" => HoldingsCalm(symbols, main, Range(Normal) \ touched)'
        <3>1. pc # "holdings" => HoldingsCalm(symbols, main, Range(Normal) \ touched)
            BY <1>1 DEF CalmInv
        <3>2. pc # "holdings" =>
                \A s \in Range(Normal) \ touched' :
                    /\ s \in Range(symbols) <=> HeldIn(main', s)
                    /\ OnceIn(main', s) =>
                        \A k, l \in DOMAIN symbols : symbols[k] = s /\ symbols[l] = s => k = l
            BY <1>5, <3>1 DEF HoldingsCalm
        <3>. QED BY <1>1, <3>2 DEF HoldingsCalm
    <2>3. pc = "section2" => CostsCalm(costs, main, Range(Normal) \ touched)'
        <3>1. pc = "section2" => CostsCalm(costs, main, Range(Normal) \ touched)
            BY <1>1 DEF CalmInv
        <3>2. pc = "section2" =>
                \A s \in Range(Normal) \ touched' : RowsOf(costs, s) = CostedIn(main', s)
            BY <1>5, <3>1 DEF CostsCalm
        <3>. QED BY <1>1, <3>2 DEF CostsCalm
    <2>4. CalmInv'
        BY <1>1, <2>2, <2>3 DEF CalmInv
    <2>. QED BY <1>4, <2>1, <2>4
<1>6. CASE \E i \in DOMAIN main : \E r \in MainRows :
                /\ main' = [main EXCEPT ![i] = r]
                /\ touched' = touched \cup {SymbolOf(main[i]), SymbolOf(r)}
                /\ UNCHANGED dca
    <2>1. PICK i \in DOMAIN main : \E r \in MainRows :
                /\ main' = [main EXCEPT ![i] = r]
                /\ touched' = touched \cup {SymbolOf(main[i]), SymbolOf(r)}
                /\ UNCHANGED dca
        BY <1>6
    <2>2. PICK r \in MainRows :
                /\ main' = [main EXCEPT ![i] = r]
                /\ touched' = touched \cup {SymbolOf(main[i]), SymbolOf(r)}
                /\ UNCHANGED dca
        BY <2>1
    <2>3. main[i] \in MainRows
        BY <1>2, <2>1
    <2>4. \A s \in Range(Normal) \ touched' :
                /\ HeldIn(main', s) <=> HeldIn(main, s)
                /\ CostedIn(main', s) = CostedIn(main, s)
                /\ OnceIn(main', s) <=> OnceIn(main, s)
        BY <1>2, <2>2, RowTypedOver
    <2>5. main' \in [1 .. MainSize -> MainRows]
        BY <1>2, <2>2
    <2>. QED BY <1>2, <2>2, <2>3, <2>4, <2>5, SymbolsNormal
<1>7. CASE \E i \in DOMAIN dca : \E r \in DcaRows :
                /\ dca' = [dca EXCEPT ![i] = r]
                /\ touched' = touched \cup {SymbolOf(dca[i]), SymbolOf(r)}
                /\ UNCHANGED main
    <2>1. PICK i \in DOMAIN dca : \E r \in DcaRows :
                /\ dca' = [dca EXCEPT ![i] = r]
                /\ touched' = touched \cup {SymbolOf(dca[i]), SymbolOf(r)}
                /\ UNCHANGED main
        BY <1>7
    <2>2. PICK r \in DcaRows :
                /\ dca' = [dca EXCEPT ![i] = r]
                /\ touched' = touched \cup {SymbolOf(dca[i]), SymbolOf(r)}
                /\ UNCHANGED main
        BY <2>1
    <2>3. dca[i] \in DcaRows
        BY <1>2, <2>1
    <2>4. dca' \in [1 .. DcaSize -> DcaRows]
        BY <1>2, <2>2
    <2>5. \A s : /\ HeldIn(main', s) <=> HeldIn(main, s)
                 /\ CostedIn(main', s) = CostedIn(main, s)
                 /\ OnceIn(main', s) <=> OnceIn(main, s)
        BY <2>2
    <2>. QED BY <1>2, <2>2, <2>3, <2>4, <2>5, SymbolsNormal
<1>8. CASE main' = Reverse(main) /\ UNCHANGED <<dca, touched>>
    BY <1>2, <1>8, RowsSorted
<1>. QED BY <1>6, <1>7, <1>8 DEF Edit

LEMMA DrStepKeeps ==
    ASSUME TabInv, QuietInv, CalmInv, DrStep
    PROVE  TabInv' /\ QuietInv' /\ CalmInv'
<1>1. CASE ReadFails
    BY <1>1, TabKept DEF ReadFails
<1>. QED BY <1>1, ReadHoldingsStep, ReadCostsStep, ReadSection2Step, EditStep DEF DrStep

----------------------------------------------------------------------------
(* The replies. *)

(* A reply stays right while its sources stay.                             *)
LEMMA RightKept ==
    ASSUME NEW c, NEW r, Right(c, r, UsdPositions, ListedNow, alloc, edits, DrNow),
           UNCHANGED <<sheet, rate, alloc>>,
           edits' = 0 => edits = 0 /\ DrNow' = DrNow
    PROVE  Right(c, r, UsdPositions', ListedNow', alloc', edits', DrNow')
<1>1. UsdPositions' = UsdPositions /\ ListedNow' = ListedNow
    BY DEF UsdPositions, ListedNow
<1>2. CASE edits' = 0
    BY <1>1, <1>2
<1>3. CASE edits' # 0
    BY <1>1, <1>3 DEF Right
<1>. QED BY <1>2, <1>3

LEMMA AnswersKept ==
    ASSUME AnswerInv, UNCHANGED <<sheet, rate, alloc, out>>,
           edits' = 0 => edits = 0 /\ DrNow' = DrNow
    PROVE  \A c \in DOMAIN out' :
                Right(c, out'[c], UsdPositions', ListedNow', alloc', edits', DrNow')
<1>1. \A c \in DOMAIN out : Right(c, out[c], UsdPositions, ListedNow, alloc, edits, DrNow)
    BY DEF AnswerInv
<1>2. \A c \in DOMAIN out : Right(c, out[c], UsdPositions', ListedNow', alloc', edits', DrNow')
    BY <1>1, RightKept
<1>. QED BY <1>2

LEMMA DraftKept ==
    ASSUME DraftInv, UNCHANGED <<sheet, rate, alloc, draft, command>>,
           edits' = 0 => edits = 0 /\ DrNow' = DrNow
    PROVE  DraftInv'
<1>1. draft'.how \in {"none", "shown"}
    BY DEF DraftInv
<1>2. ASSUME draft.how = "shown"
      PROVE  /\ command' = "summary" /\ IsDraft(draft)
             /\ Right("summary", draft, UsdPositions', ListedNow', alloc', edits', DrNow')
    BY <1>2, RightKept DEF DraftInv
<1>3. draft' = draft
    OBVIOUS
<1>. QED BY <1>1, <1>2, <1>3 DEF DraftInv, IsDraft

(* What a step does to the draft that leaves it alone, or drops it.        *)
LEMMA NoDraftNow ==
    ASSUME IInv, pc = "idle"
    PROVE  draft.how = "none"
BY DEF IInv, AnswerInv, DraftInv

(* A reply that is right joins those that are.                             *)
LEMMA Replied ==
    ASSUME AnswerInv, UNCHANGED <<sheet, rate, alloc, tab, main, dca, edits>>,
           NEW c \in Replying, NEW r, Reply(c, r),
           Right(c, r, UsdPositions, ListedNow, alloc, edits, DrNow)
    PROVE  /\ DOMAIN out' \subseteq Replying
           /\ \A x \in DOMAIN out' :
                Right(x, out'[x], UsdPositions', ListedNow', alloc', edits', DrNow')
<1>1. /\ DOMAIN out' = DOMAIN out \cup {c}
      /\ out'[c] = r
      /\ \A x \in DOMAIN out : x # c => out'[x] = out[x]
    BY DEF Reply
<1>2. /\ DOMAIN out \subseteq Replying
      /\ \A x \in DOMAIN out : Right(x, out[x], UsdPositions, ListedNow, alloc, edits, DrNow)
    BY DEF AnswerInv
<1>3. UsdPositions' = UsdPositions /\ ListedNow' = ListedNow /\ DrNow' = DrNow
    BY DEF UsdPositions, ListedNow, DrNow, HeldNow, CostsNow, DcaNow
<1>4. DOMAIN out' \subseteq Replying
    BY <1>1, <1>2
<1>5. ASSUME NEW x \in DOMAIN out'
      PROVE  Right(x, out'[x], UsdPositions, ListedNow, alloc, edits, DrNow)
    BY <1>1, <1>2
<1>. QED BY <1>3, <1>4, <1>5

(* A reply that a command failed says nothing of the sheets.               *)
LEMMA FailureIsRight ==
    ASSUME NEW c, NEW how \in {"rate", "raised", "unread", "updating"},
           NEW us, NEW listed, NEW rows, NEW edited, NEW dr
    PROVE  Right(c, Failed(how), us, listed, rows, edited, dr)
BY DEF Right, Failed, Hows

LEMMA AllocationReplyIsRight ==
    ASSUME NEW c \in {"allocation", "summary"}, NEW d, d.value \in Nat, NEW read \in BOOLEAN,
           NEW us, NEW listed, NEW edited, NEW dr, edited = 0 /\ read => d = dr
    PROVE  Right(c, AllocationReply(c, d, read), us, listed, alloc, edited, dr)
<1>1. PICK entries : entries = Allocation(alloc, d.value)
    OBVIOUS
<1>2. PICK r : r = AllocationReply(c, d, read)
    OBVIOUS
<1>3. CASE DOMAIN entries = {}
    <2>1. r = Failed("empty")
        BY <1>1, <1>2, <1>3 DEF AllocationReply
    <2>. QED BY <1>2, <2>1 DEF Right, Failed, Hows
<1>4. CASE DOMAIN entries # {} /\ c = "allocation"
    <2>1. r = [how |-> "shown", entries |-> entries, read |-> read,
               warned |-> Unbalanced(entries)]
        BY <1>1, <1>2, <1>4 DEF AllocationReply
    <2>2. /\ r.how = "shown" /\ r.entries = entries /\ r.read = read
          /\ r.warned = Unbalanced(entries)
        BY <2>1
    <2>. QED BY <1>1, <1>2, <1>4, <2>2 DEF Right, Hows
<1>5. CASE DOMAIN entries # {} /\ c = "summary"
    <2>1. r = [how |-> "shown", entries |-> entries, read |-> read,
               cash |-> Cash(entries), pending |-> d.skipped, counted |-> read]
        BY <1>1, <1>2, <1>5 DEF AllocationReply
    <2>2. /\ r.how = "shown" /\ r.entries = entries /\ r.read = read
          /\ r.pending = d.skipped /\ r.counted = read
        BY <2>1
    <2>. QED BY <1>1, <1>2, <1>5, <2>2 DEF Right, Hows
<1>. QED BY <1>3, <1>4, <1>5

(* What a command makes of its DR reads, however they end, is right.       *)
LEMMA OutcomeIsRight ==
    ASSUME TabInv, QuietInv, AnswerInv, pc \in {"done", "raised", "unavailable"}
    PROVE  /\ command \in Replying
           /\ Right(command, Outcome, UsdPositions, ListedNow, alloc, edits, DrNow)
<1>1. command \in {"portfolio", "allocation", "summary"}
    BY DEF AnswerInv
<1>2. edits = 0 /\ pc = "done" => totals = DrNow
    BY DEF QuietInv
<1>3. totals.value \in Nat
    BY DEF TabInv, Totals
<1>4. CASE pc = "raised"
    <2>1. Outcome = Failed("raised")
        BY <1>4 DEF Outcome
    <2>. QED BY <1>1, <2>1, FailureIsRight DEF Replying
<1>5. CASE command = "portfolio" /\ pc = "unavailable"
    <2>1. Outcome = Failed("unread")
        BY <1>5 DEF Outcome
    <2>. QED BY <1>1, <2>1, FailureIsRight DEF Replying
<1>6. CASE command = "portfolio" /\ pc = "done"
    <2>1. Outcome = PortfolioReply(UsdPositions, totals)
        BY <1>6 DEF Outcome
    <2>2. CASE IsEmpty(UsdPositions, totals)
        <3>1. Outcome = Failed("empty") /\ UsdPositions = 0 /\ totals.value = 0
            BY <2>1, <2>2 DEF PortfolioReply, IsEmpty
        <3>. QED BY <1>2, <1>6, <3>1 DEF Right, Failed, Hows, Replying
    <2>3. CASE ~IsEmpty(UsdPositions, totals)
        <3>1. Outcome = [how |-> "shown", us |-> UsdPositions, dr |-> totals]
            BY <2>1, <2>3 DEF PortfolioReply
        <3>. QED BY <1>2, <1>6, <3>1 DEF Right, Hows, Replying
    <2>. QED BY <2>2, <2>3
<1>7. CASE command # "portfolio" /\ pc # "raised"
    <2>1. PICK read \in BOOLEAN : read <=> pc = "done"
        OBVIOUS
    <2>2. Outcome = AllocationReply(command, totals, read)
        BY <1>7, <2>1 DEF Outcome
    <2>3. Right(command, AllocationReply(command, totals, read),
                UsdPositions, ListedNow, alloc, edits, DrNow)
        BY <1>1, <1>2, <1>3, <1>7, <2>1, AllocationReplyIsRight
    <2>. QED BY <1>1, <2>2, <2>3 DEF Replying
<1>. QED BY <1>4, <1>5, <1>6, <1>7

(* A summary that is shown can be a draft.                                 *)
LEMMA SummaryIsDraft ==
    ASSUME command = "summary", HasTotals, Outcome.how = "shown"
    PROVE  IsDraft(Outcome)
<1>1. pc # "raised" /\ (pc = "done" \/ pc = "unavailable")
    BY DEF HasTotals
<1>2. PICK read : read = (pc = "done")
    OBVIOUS
<1>3. Outcome = AllocationReply("summary", totals, read)
    BY <1>1, <1>2, Zenon DEF Outcome
<1>4. PICK entries : entries = Allocation(alloc, totals.value)
    OBVIOUS
<1>5. PICK r : r = Outcome
    OBVIOUS
<1>6. CASE DOMAIN entries = {}
    <2>1. r = Failed("empty")
        BY <1>3, <1>4, <1>5, <1>6 DEF AllocationReply
    <2>. QED BY <1>5, <2>1 DEF Failed
<1>7. CASE DOMAIN entries # {}
    <2>1. r = [how |-> "shown", entries |-> entries, read |-> read,
               cash |-> Cash(entries), pending |-> totals.skipped, counted |-> read]
        BY <1>3, <1>4, <1>5, <1>7 DEF AllocationReply
    <2>2. /\ r.entries = entries /\ r.read = read /\ r.cash = Cash(entries)
          /\ r.pending = totals.skipped /\ r.counted = read
        BY <2>1
    <2>. QED BY <1>5, <2>1, <2>2 DEF IsDraft
<1>. QED BY <1>6, <1>7

(* A summary whose count has been taken anew, however the reads end.       *)
LEMMA RecountedIsRight ==
    ASSUME TabInv, QuietInv, DraftInv, draft.how # "none",
           pc \in {"done", "raised", "unavailable"}
    PROVE  /\ command = "summary"
           /\ Right("summary", Recounted, UsdPositions, ListedNow, alloc, edits, DrNow)
<1>1. /\ command = "summary" /\ IsDraft(draft) /\ draft.how = "shown"
      /\ Right("summary", draft, UsdPositions, ListedNow, alloc, edits, DrNow)
    BY DEF DraftInv
<1>2. edits = 0 /\ pc = "done" => totals = DrNow
    BY DEF QuietInv
<1>3. CASE pc = "raised"
    <2>1. Recounted = Failed("raised")
        BY <1>3 DEF Recounted, HasTotals
    <2>. QED BY <1>1, <2>1, FailureIsRight
<1>4. CASE pc # "raised"
    <2>1. PICK r : r = Recounted
        OBVIOUS
    <2>2. PICK counted \in BOOLEAN : counted <=> pc = "done"
        OBVIOUS
    <2>3. counted = (pc = "done")
        BY <2>2
    <2>4. r = [draft EXCEPT !.pending = totals.skipped, !.counted = counted]
        BY <1>4, <2>1, <2>3 DEF Recounted, HasTotals
    <2>5. /\ r.how = "shown" /\ r.entries = draft.entries /\ r.read = draft.read
          /\ r.pending = totals.skipped /\ r.counted = counted
        BY <1>1, <2>4 DEF IsDraft
    <2>6. /\ \E v \in Nat : r.entries = Allocation(alloc, v)
          /\ edits = 0 /\ r.read => r.entries = Allocation(alloc, DrNow.value)
        BY <1>1, <2>5 DEF Right
    <2>7. edits = 0 /\ r.counted => r.pending = DrNow.skipped
        BY <1>2, <2>2, <2>5
    <2>8. Right("summary", r, UsdPositions, ListedNow, alloc, edits, DrNow)
        BY <2>5, <2>6, <2>7 DEF Right, Hows
    <2>. QED BY <1>1, <2>1, <2>8
<1>. QED BY <1>3, <1>4

LEMMA SheetKept ==
    ASSUME SheetInv, UNCHANGED sheetVars
    PROVE  SheetInv'
BY DEF SheetInv, sheetVars

LEMMA AnswerNowStep ==
    ASSUME IInv, NEW c \in Replying, NEW r, AnswerNow(c, r),
           Right(c, r, UsdPositions, ListedNow, alloc, edits, DrNow)
    PROVE  IInv'
<1>1. /\ Reply(c, r) /\ UNCHANGED <<sheetVars, rate, alloc, command, draft>>
      /\ UNCHANGED <<tab, main, dca, pc, symbols, costs, totals, edits, touched>>
    BY DEF AnswerNow, drVars
<1>2. UNCHANGED sheet
    BY <1>1 DEF sheetVars
<1>3. SheetInv'
    BY <1>1, SheetKept DEF IInv
<1>4. TabInv' /\ QuietInv' /\ CalmInv'
    BY <1>1, TabKept DEF IInv
<1>5. /\ DOMAIN out' \subseteq Replying
      /\ \A x \in DOMAIN out' :
            Right(x, out'[x], UsdPositions', ListedNow', alloc', edits', DrNow')
    BY <1>1, <1>2, Replied DEF IInv
<1>6. /\ rate' \in Rates /\ alloc' \in Seq(AllocationRows) /\ Len(alloc') <= MaxAllocationRows
      /\ command' \in {"none", "portfolio", "allocation", "summary"}
      /\ (command' = "none") <=> (pc' = "idle")
    BY <1>1 DEF IInv, AnswerInv
<1>7. AnswerInv'
    BY <1>5, <1>6 DEF AnswerInv
<1>8. DrNow' = DrNow
    BY <1>1 DEF DrNow, HeldNow, CostsNow, DcaNow
<1>9. DraftInv'
    BY <1>1, <1>2, <1>8, DraftKept DEF IInv
<1>. QED BY <1>3, <1>4, <1>7, <1>9 DEF IInv

LEMMA BeginStep ==
    ASSUME IInv, NEW c \in {"portfolio", "allocation", "summary"}, Begin(c)
    PROVE  IInv'
<1>1. /\ command' = c /\ pc' = "holdings" /\ pc = "idle"
      /\ UNCHANGED <<sheetVars, rate, alloc, draft, out>>
      /\ UNCHANGED <<tab, main, dca, symbols, costs, totals, edits, touched>>
    BY DEF Begin, StartReads
<1>2. UNCHANGED sheet
    BY <1>1 DEF sheetVars
<1>3. SheetInv'
    BY <1>1, SheetKept DEF IInv
<1>4. TabInv' /\ QuietInv' /\ CalmInv'
    BY <1>1, TabKept DEF IInv
<1>5. DrNow' = DrNow
    BY <1>1 DEF DrNow, HeldNow, CostsNow, DcaNow
<1>6. \A x \in DOMAIN out' :
            Right(x, out'[x], UsdPositions', ListedNow', alloc', edits', DrNow')
    BY <1>1, <1>2, <1>5, AnswersKept DEF IInv
<1>7. /\ rate' \in Rates /\ alloc' \in Seq(AllocationRows) /\ Len(alloc') <= MaxAllocationRows
      /\ command' \in {"none", "portfolio", "allocation", "summary"}
      /\ (command' = "none") <=> (pc' = "idle")
      /\ DOMAIN out' \subseteq Replying
    BY <1>1 DEF IInv, AnswerInv
<1>8. AnswerInv'
    BY <1>6, <1>7 DEF AnswerInv
<1>9. DraftInv'
    BY <1>1, NoDraftNow DEF DraftInv
<1>. QED BY <1>3, <1>4, <1>8, <1>9 DEF IInv

LEMMA CheckStep ==
    ASSUME IInv, Check
    PROVE  IInv'
<1>1. /\ UNCHANGED sheet /\ UNCHANGED <<rate, alloc, command, draft, out>>
      /\ UNCHANGED <<tab, main, dca, pc, symbols, costs, totals, edits, touched>>
    BY DEF Check, Validate, ValidateUnread, drVars
<1>2. SheetInv'
    <2>1. \/ report' = [how |-> "raised"]
          \/ report' = [how |-> "answered", summary |-> Summary(sheet)]
          \/ report' = [how |-> "answered", summary |-> Unreadable]
        BY DEF Check, Validate, ValidateUnread
    <2>2. sheet' \in Seq(RawRows) /\ Len(sheet') <= MaxRows
        BY <1>1 DEF IInv, SheetInv
    <2>3. /\ report'.how \in {"none", "raised", "answered"}
          /\ report'.how = "answered" =>
                report'.summary = Unreadable \/ report'.summary = Summary(sheet)
        BY <2>1
    <2>. QED BY <1>1, <2>2, <2>3 DEF SheetInv
<1>3. TabInv' /\ QuietInv' /\ CalmInv'
    BY <1>1, TabKept DEF IInv
<1>4. DrNow' = DrNow
    BY <1>1 DEF DrNow, HeldNow, CostsNow, DcaNow
<1>5. \A x \in DOMAIN out' :
            Right(x, out'[x], UsdPositions', ListedNow', alloc', edits', DrNow')
    BY <1>1, <1>4, AnswersKept DEF IInv
<1>6. /\ rate' \in Rates /\ alloc' \in Seq(AllocationRows) /\ Len(alloc') <= MaxAllocationRows
      /\ command' \in {"none", "portfolio", "allocation", "summary"}
      /\ (command' = "none") <=> (pc' = "idle")
      /\ DOMAIN out' \subseteq Replying
    BY <1>1 DEF IInv, AnswerInv
<1>7. AnswerInv'
    BY <1>5, <1>6 DEF AnswerInv
<1>8. DraftInv'
    BY <1>1, <1>4, DraftKept DEF IInv
<1>. QED BY <1>2, <1>3, <1>7, <1>8 DEF IInv

LEMMA ReadingStep ==
    ASSUME IInv, Reading
    PROVE  IInv'
<1>1. DrStep /\ UNCHANGED <<sheetVars, rate, alloc, command, draft, out>>
    BY DEF Reading
<1>2. UNCHANGED sheet
    BY <1>1 DEF sheetVars
<1>3. SheetInv'
    BY <1>1, SheetKept DEF IInv
<1>4. TabInv' /\ QuietInv' /\ CalmInv'
    BY <1>1, DrStepKeeps DEF IInv
<1>5. edits \in Nat
    <2>1. edits \in 0 .. MaxEdits
        BY DEF IInv, TabInv
    <2>. QED BY <2>1, DrTotalsConstants
<1>6. ASSUME edits' = 0
      PROVE  edits = 0 /\ DrNow' = DrNow
    <2>1. ~Edit
        BY <1>5, <1>6 DEF Edit
    <2>2. UNCHANGED <<tab, main, dca, edits>>
        BY <1>1, <2>1 DEF DrStep, ReadHoldings, ReadCosts, ReadSection2, ReadFails
    <2>3. DrNow' = DrNow
        BY <2>2 DEF DrNow, HeldNow, CostsNow, DcaNow
    <2>. QED BY <1>6, <2>2, <2>3
<1>7. \A x \in DOMAIN out' :
            Right(x, out'[x], UsdPositions', ListedNow', alloc', edits', DrNow')
    BY <1>1, <1>2, <1>6, AnswersKept DEF IInv
<1>8. pc # "idle" /\ pc' # "idle"
    BY <1>1 DEF DrStep, ReadHoldings, ReadCosts, ReadSection2, ReadFails, Edit
<1>9. /\ rate' \in Rates /\ alloc' \in Seq(AllocationRows) /\ Len(alloc') <= MaxAllocationRows
      /\ command' \in {"none", "portfolio", "allocation", "summary"}
      /\ (command' = "none") <=> (pc' = "idle")
      /\ DOMAIN out' \subseteq Replying
    BY <1>1, <1>8 DEF IInv, AnswerInv
<1>10. AnswerInv'
    BY <1>7, <1>9 DEF AnswerInv
<1>11. DraftInv'
    BY <1>1, <1>2, <1>6, DraftKept DEF IInv
<1>. QED BY <1>3, <1>4, <1>10, <1>11 DEF IInv

(* Totals that are forgotten, before they are computed again or not.       *)
LEMMA TotalsForgotten ==
    ASSUME TabInv, pc' \in {"idle", "holdings"}, symbols' = <<>>, costs' = <<>>,
           totals' = Zero, touched' = {}, UNCHANGED <<tab, main, dca, edits>>
    PROVE  TabInv' /\ QuietInv' /\ CalmInv'
<1>1. DOMAIN symbols' \subseteq 1 .. MainSize /\ Range(symbols') = {} /\ CostRows(costs')
    BY NoRows
<1>2. Totals(totals')
    BY ZeroTotals
<1>3. Range(symbols') \subseteq Range(Normal) \ {""} /\ touched' \subseteq Range(Normal)
    BY <1>1
<1>4. /\ tab' \in BOOLEAN /\ main' \in [1 .. MainSize -> MainRows]
      /\ dca' \in [1 .. DcaSize -> DcaRows] /\ edits' \in 0 .. MaxEdits
    BY DEF TabInv
<1>5. TabInv'
    BY <1>1, <1>2, <1>3, <1>4 DEF TabInv
<1>6. QuietInv' /\ CalmInv'
    BY DEF QuietInv, CalmInv
<1>. QED BY <1>5, <1>6

(* The summary's text is kept until the totals are computed again.         *)
LEMMA RecountStep ==
    ASSUME IInv, Recount
    PROVE  IInv'
<1>1. /\ command = "summary" /\ HasTotals /\ Outcome.how = "shown" /\ draft' = Outcome
      /\ UNCHANGED <<sheetVars, rate, alloc, command, out>>
    BY DEF Recount
<1>2. /\ pc' = "holdings" /\ symbols' = <<>> /\ costs' = <<>>
      /\ totals' = Zero /\ touched' = {} /\ UNCHANGED <<tab, main, dca, edits>>
    BY DEF Recount, ReadAgain
<1>3. UNCHANGED sheet
    BY <1>1 DEF sheetVars
<1>4. SheetInv'
    BY <1>1, SheetKept DEF IInv
<1>5. TabInv' /\ QuietInv' /\ CalmInv'
    BY <1>2, TotalsForgotten DEF IInv
<1>6. DrNow' = DrNow
    BY <1>2 DEF DrNow, HeldNow, CostsNow, DcaNow
<1>7. \A x \in DOMAIN out' :
            Right(x, out'[x], UsdPositions', ListedNow', alloc', edits', DrNow')
    BY <1>1, <1>2, <1>3, <1>6, AnswersKept DEF IInv
<1>8. /\ rate' \in Rates /\ alloc' \in Seq(AllocationRows) /\ Len(alloc') <= MaxAllocationRows
      /\ command' \in {"none", "portfolio", "allocation", "summary"}
      /\ (command' = "none") <=> (pc' = "idle")
      /\ DOMAIN out' \subseteq Replying
    BY <1>1, <1>2 DEF IInv, AnswerInv
<1>9. AnswerInv'
    BY <1>7, <1>8 DEF AnswerInv
<1>10. PICK r : r = Outcome
    OBVIOUS
<1>11. Right("summary", r, UsdPositions, ListedNow, alloc, edits, DrNow)
    BY <1>1, <1>10, OutcomeIsRight DEF IInv, HasTotals
<1>12. Right("summary", r, UsdPositions', ListedNow', alloc', edits', DrNow')
    BY <1>1, <1>2, <1>3, <1>6, <1>11, RightKept
<1>13. IsDraft(r)
    BY <1>1, <1>10, SummaryIsDraft
<1>14. draft' = r /\ r.how = "shown" /\ command' = "summary"
    BY <1>1, <1>10
<1>15. DraftInv'
    BY <1>12, <1>13, <1>14 DEF DraftInv, IsDraft
<1>. QED BY <1>4, <1>5, <1>9, <1>15 DEF IInv

LEMMA AnswerStep ==
    ASSUME IInv, Answer
    PROVE  IInv'
<1>1. /\ pc \in {"done", "raised", "unavailable"}
      /\ Reply(command, IF draft.how = "none" THEN Outcome ELSE Recounted)
      /\ command' = "none" /\ draft' = NoDraft
      /\ UNCHANGED <<sheetVars, rate, alloc>>
    BY DEF Answer, HasTotals
<1>2. /\ pc' = "idle" /\ symbols' = <<>> /\ costs' = <<>>
      /\ totals' = Zero /\ touched' = {} /\ UNCHANGED <<tab, main, dca, edits>>
    BY DEF Answer, EndReads
<1>3. UNCHANGED sheet
    BY <1>1 DEF sheetVars
<1>4. SheetInv'
    BY <1>1, SheetKept DEF IInv
<1>5. TabInv' /\ QuietInv' /\ CalmInv'
    BY <1>2, TotalsForgotten DEF IInv
<1>6. PICK c : c = command
    OBVIOUS
<1>7. PICK r : r = IF draft.how = "none" THEN Outcome ELSE Recounted
    OBVIOUS
<1>8. c \in Replying /\ Right(c, r, UsdPositions, ListedNow, alloc, edits, DrNow)
    <2>1. CASE draft.how = "none"
        BY <1>1, <1>6, <1>7, <2>1, OutcomeIsRight DEF IInv
    <2>2. CASE draft.how # "none"
        BY <1>1, <1>6, <1>7, <2>2, RecountedIsRight DEF IInv, Replying
    <2>. QED BY <2>1, <2>2
<1>9. Reply(c, r)
    BY <1>1, <1>6, <1>7
<1>10. /\ DOMAIN out' \subseteq Replying
       /\ \A x \in DOMAIN out' :
            Right(x, out'[x], UsdPositions', ListedNow', alloc', edits', DrNow')
    BY <1>1, <1>2, <1>3, <1>8, <1>9, Replied DEF IInv
<1>11. /\ rate' \in Rates /\ alloc' \in Seq(AllocationRows)
       /\ Len(alloc') <= MaxAllocationRows
    BY <1>1 DEF IInv, AnswerInv
<1>12. AnswerInv'
    BY <1>1, <1>2, <1>10, <1>11 DEF AnswerInv
<1>13. DraftInv'
    BY <1>1 DEF DraftInv, NoDraft
<1>. QED BY <1>4, <1>5, <1>12, <1>13 DEF IInv

LEMMA HoldingsReplyIsRight ==
    Right("holdings", HoldingsReply(HoldingsIndexOf(sheet)),
          UsdPositions, ListedNow, alloc, edits, DrNow)
BY DEF Right, HoldingsReply, ListedNow, Hows

LEMMA NextKeeps == IInv /\ [Next]_vars => IInv'
<1>. SUFFICES ASSUME IInv, [Next]_vars PROVE IInv'
    OBVIOUS
<1>1. CASE UNCHANGED vars
    <2>1. /\ UNCHANGED <<sheetVars, rate, alloc, command, draft, out>>
          /\ UNCHANGED <<tab, main, dca, pc, symbols, costs, totals, edits, touched>>
        BY <1>1 DEF vars, drVars
    <2>2. UNCHANGED sheet
        BY <2>1 DEF sheetVars
    <2>3. SheetInv'
        BY <2>1, SheetKept DEF IInv
    <2>4. TabInv' /\ QuietInv' /\ CalmInv'
        BY <2>1, TabKept DEF IInv
    <2>5. DrNow' = DrNow
        BY <2>1 DEF DrNow, HeldNow, CostsNow, DcaNow
    <2>6. \A x \in DOMAIN out' :
                Right(x, out'[x], UsdPositions', ListedNow', alloc', edits', DrNow')
        BY <2>1, <2>2, <2>5, AnswersKept DEF IInv
    <2>7. AnswerInv'
        BY <2>1, <2>6 DEF IInv, AnswerInv
    <2>8. DraftInv'
        BY <2>1, <2>2, <2>5, DraftKept DEF IInv
    <2>. QED BY <2>3, <2>4, <2>7, <2>8 DEF IInv
<1>2. CASE Check
    BY <1>2, CheckStep
<1>3. CASE RateRefused
    <2>1. AnswerNow("portfolio", Failed("rate"))
        BY <1>3 DEF RateRefused
    <2>. QED BY <2>1, FailureIsRight, AnswerNowStep DEF Replying
<1>4. CASE RateIsNaN
    <2>1. AnswerNow("portfolio", Failed("raised"))
        BY <1>4 DEF RateIsNaN
    <2>. QED BY <2>1, FailureIsRight, AnswerNowStep DEF Replying
<1>5. CASE RowsUnread
    <2>1. AnswerNow("portfolio", Failed("unread"))
        BY <1>5 DEF RowsUnread
    <2>. QED BY <2>1, FailureIsRight, AnswerNowStep DEF Replying
<1>6. CASE AskPortfolio
    BY <1>6, BeginStep DEF AskPortfolio
<1>7. CASE HoldingsFail
    <2>1. AnswerNow("holdings", Failed("raised"))
        BY <1>7 DEF HoldingsFail
    <2>. QED BY <2>1, FailureIsRight, AnswerNowStep DEF Replying
<1>8. CASE ShowHoldings
    <2>1. PICK r : r = HoldingsReply(HoldingsIndexOf(sheet))
        OBVIOUS
    <2>2. AnswerNow("holdings", r)
        BY <1>8, <2>1 DEF ShowHoldings
    <2>3. Right("holdings", r, UsdPositions, ListedNow, alloc, edits, DrNow)
        BY <2>1, HoldingsReplyIsRight
    <2>. QED BY <2>2, <2>3, AnswerNowStep DEF Replying
<1>9. ASSUME NEW c \in {"allocation", "summary"},
             AllocationUnread(c) \/ AllocationRaises(c) \/ AskAllocation(c)
      PROVE  IInv'
    <2>1. CASE AllocationUnread(c)
        <3>1. AnswerNow(c, Failed("updating"))
            BY <2>1 DEF AllocationUnread
        <3>. QED BY <3>1, FailureIsRight, AnswerNowStep DEF Replying
    <2>2. CASE AllocationRaises(c)
        <3>1. AnswerNow(c, Failed("raised"))
            BY <2>2 DEF AllocationRaises
        <3>. QED BY <3>1, FailureIsRight, AnswerNowStep DEF Replying
    <2>3. CASE AskAllocation(c)
        BY <2>3, BeginStep DEF AskAllocation
    <2>. QED BY <1>9, <2>1, <2>2, <2>3
<1>10. CASE Reading
    BY <1>10, ReadingStep
<1>11. CASE Recount
    BY <1>11, RecountStep
<1>12. CASE Answer
    BY <1>12, AnswerStep
<1>. QED BY <1>1, <1>2, <1>3, <1>4, <1>5, <1>6, <1>7, <1>8, <1>9, <1>10, <1>11, <1>12 DEF Next

(* The invariant holds in every reachable state.                           *)
LEMMA Invariant == Spec => []IInv
<1>. QED BY InitInv, NextKeeps, PTL DEF Spec

----------------------------------------------------------------------------
(* What the invariant says of reports and totals. *)

(* A report that was not of a failed read is that of the sheet.            *)
LEMMA AnsweredIsSummary ==
    ASSUME IInv, Answered
    PROVE  /\ sheet \in Seq(RawRows) /\ Len(sheet) <= MaxRows
           /\ report.summary = Summary(sheet)
BY DEF IInv, SheetInv, Answered

LEMMA SummaryTyped ==
    ASSUME NEW s \in Seq(RawRows), Len(s) <= MaxRows
    PROVE  /\ Summary(s).total \in 0 .. MaxRows
           /\ Summary(s).valid \in 0 .. Summary(s).total
           /\ Summary(s).invalid \in Nat
<1>1. PICK sum : sum = Summary(s)
    OBVIOUS
<1>2. PICK keys : keys = DuplicateKeys(CompleteRows(s))
    OBVIOUS
<1>3. /\ sum.total = Cardinality(Short(s)) + Cardinality(Complete(s))
      /\ sum.valid = Cardinality(Complete(s)) - Cardinality(Bad(s))
      /\ sum.invalid = Cardinality(Short(s)) + Cardinality(Bad(s)) + Cardinality(keys)
      /\ sum.total = Cardinality(Content(s))
      /\ Cardinality(Short(s)) \in Nat /\ Cardinality(keys) \in Nat
      /\ Cardinality(Complete(s)) \in Nat
      /\ Cardinality(Bad(s)) \in 0 .. Cardinality(Complete(s))
    BY <1>1, <1>2, SummaryCounts
<1>4. Cardinality(Content(s)) \in 0 .. Len(s)
    BY RowsFinite DEF Content
<1>5. Len(s) \in Nat /\ MaxRows \in Nat
    BY RowsOfSheet, ValidationConstants
<1>6. sum.total \in 0 .. MaxRows
    BY <1>3, <1>4, <1>5
<1>7. sum.valid \in 0 .. sum.total /\ sum.invalid \in Nat
    BY <1>3
<1>. QED BY <1>1, <1>6, <1>7

LEMMA UnreadableTyped ==
    /\ Unreadable.total \in 0 .. MaxRows
    /\ Unreadable.valid \in 0 .. Unreadable.total
    /\ Unreadable.invalid \in Nat
    /\ \A iss \in Unreadable.issues : iss.row \in 0 .. MaxRows + 1 /\ iss.kind \in Kinds
<1>1. MaxRows \in Nat
    BY ValidationConstants
<1>2. Unreadable.total = 0 /\ Unreadable.valid = 0 /\ Unreadable.invalid = 1
    BY DEF Unreadable
<1>3. \A iss \in Unreadable.issues : iss.row = 0 /\ iss.kind = "system"
    BY DEF Unreadable, Issue
<1>4. "system" \in Kinds
    BY DEF Kinds
<1>5. 0 \in 0 .. MaxRows /\ 0 \in 0 .. MaxRows + 1 /\ 0 \in 0 .. 0 /\ 1 \in Nat
    BY <1>1
<1>. QED BY <1>2, <1>3, <1>4, <1>5

(* The type invariant follows from the inductive one.                      *)
LEMMA TypesFollow == IInv => TypeOK
<1>. SUFFICES ASSUME IInv PROVE TypeOK
    OBVIOUS
<1>1. SheetTypeOK
    <2>1. /\ sheet \in Seq(RawRows) /\ Len(sheet) <= MaxRows
          /\ report.how \in {"none", "raised", "answered"}
          /\ report.how = "answered" =>
                report.summary = Unreadable \/ report.summary = Summary(sheet)
        BY DEF IInv, SheetInv
    <2>2. ASSUME report.how = "answered"
          PROVE  /\ report.summary.total \in 0 .. MaxRows
                 /\ report.summary.valid \in 0 .. report.summary.total
                 /\ report.summary.invalid \in Nat
                 /\ \A iss \in report.summary.issues :
                        iss.row \in 0 .. MaxRows + 1 /\ iss.kind \in Kinds
        <3>1. CASE report.summary = Unreadable
            BY <3>1, UnreadableTyped
        <3>2. CASE report.summary = Summary(sheet)
            <4>1. \A iss \in Summary(sheet).issues :
                        iss.row \in 0 .. MaxRows + 1 /\ iss.kind \in Kinds
                BY <2>1, IssuesTyped
            <4>. QED BY <2>1, <3>2, <4>1, SummaryTyped
        <3>. QED BY <2>1, <2>2, <3>1, <3>2
    <2>. QED BY <2>1, <2>2 DEF SheetTypeOK
<1>2. DrTypeOK
    <2>1. Range(costs) \subseteq MainRows
        BY DEF IInv, TabInv, CostRows, Range
    <2>. QED BY <2>1 DEF IInv, TabInv, Totals, DrTypeOK
<1>3. /\ rate \in Rates /\ command \in Replying \cup {"none"}
      /\ (command = "none") <=> (pc = "idle")
      /\ DOMAIN out \subseteq Replying
    BY DEF IInv, AnswerInv, Replying
<1>4. Range(alloc) \subseteq AllocationRows
    <2>1. alloc \in Seq(AllocationRows)
        BY DEF IInv, AnswerInv
    <2>. QED BY <2>1, RowsOfSheet DEF Range
<1>5. \A c \in DOMAIN out : out[c].how \in Hows
    BY DEF IInv, AnswerInv, Right
<1>6. draft.how \in {"none", "shown"} /\ (draft.how = "shown" => command = "summary")
    BY DEF IInv, DraftInv
<1>. QED BY <1>1, <1>2, <1>3, <1>4, <1>5, <1>6 DEF TypeOK

----------------------------------------------------------------------------
(* Types: in particular a report counts no more valid rows than it has     *)
(* looked at, and no DR total is negative or counts a row twice.           *)
THEOREM TypeCorrect == Spec => []TypeOK
<1>. QED BY Invariant, TypesFollow, PTL

(* 'validate' counts every row with content once, as valid or invalid, and *)
(* each duplicated symbol once more as invalid, whatever the sheet holds.  *)
THEOREM ReportsAccountForRows == Spec => []RowsAccounted
<1>1. IInv => RowsAccounted
    <2>. SUFFICES ASSUME IInv, Answered
                  PROVE  /\ report.summary.total = Cardinality(Content(sheet))
                         /\ report.summary.valid + report.summary.invalid
                            = report.summary.total
                              + Cardinality({iss \in report.summary.issues :
                                                iss.kind = "duplicate"})
        BY DEF RowsAccounted, Content
    <2>1. sheet \in Seq(RawRows) /\ report.summary = Summary(sheet)
        BY AnsweredIsSummary
    <2>2. PICK sum : sum = Summary(sheet)
        OBVIOUS
    <2>3. PICK keys : keys = DuplicateKeys(CompleteRows(sheet))
        OBVIOUS
    <2>4. /\ sum.total = Cardinality(Short(sheet)) + Cardinality(Complete(sheet))
          /\ sum.valid = Cardinality(Complete(sheet)) - Cardinality(Bad(sheet))
          /\ sum.invalid = Cardinality(Short(sheet)) + Cardinality(Bad(sheet))
                           + Cardinality(keys)
          /\ sum.total = Cardinality(Content(sheet))
          /\ Cardinality(Short(sheet)) \in Nat /\ Cardinality(keys) \in Nat
          /\ Cardinality(Complete(sheet)) \in Nat
          /\ Cardinality(Bad(sheet)) \in 0 .. Cardinality(Complete(sheet))
        BY <2>1, <2>2, <2>3, SummaryCounts
    <2>5. Cardinality({iss \in sum.issues : iss.kind = "duplicate"}) = Cardinality(keys)
        BY <2>1, <2>2, <2>3, DuplicatesApart, DuplicatesCounted
    <2>6. sum.valid + sum.invalid = sum.total + Cardinality(keys)
        BY <2>4
    <2>. QED BY <2>1, <2>2, <2>4, <2>5, <2>6
<1>. QED BY Invariant, <1>1, PTL

(* 'validate' calls a sheet valid exactly when it lists no issue; a failed *)
(* read is never called valid.                                             *)
THEOREM ValidHasNoIssue == Spec => []ValidMeansNoIssue
<1>1. IInv => ValidMeansNoIssue
    <2>. SUFFICES ASSUME IInv, report.how = "answered"
                  PROVE  IsValid(report.summary) <=> report.summary.issues = {}
        BY DEF ValidMeansNoIssue
    <2>1. sheet \in Seq(RawRows)
          /\ (report.summary = Unreadable \/ report.summary = Summary(sheet))
        BY DEF IInv, SheetInv
    <2>2. CASE report.summary = Unreadable
        BY <2>2 DEF Unreadable, IsValid
    <2>3. CASE report.summary = Summary(sheet)
        BY <2>1, <2>3, NoIssueIfValid
    <2>. QED BY <2>1, <2>2, <2>3
<1>. QED BY Invariant, <1>1, PTL

(* The rows that a report names are right as long as every row of the      *)
(* sheet is complete (they are not otherwise: see RowNumbersRight).        *)
THEOREM FullSheetsAreNumbered == Spec => []RowNumbersRightInFullSheet
<1>1. IInv => RowNumbersRightInFullSheet
    <2>. SUFFICES ASSUME IInv, Answered, \A i \in DOMAIN sheet : IsComplete(sheet[i]),
                         NEW iss \in report.summary.issues
                  PROVE  Explained(iss)
        BY DEF RowNumbersRightInFullSheet
    <2>1. sheet \in Seq(RawRows) /\ report.summary = Summary(sheet)
        BY AnsweredIsSummary
    <2>2. Complete(sheet) = DOMAIN sheet
        BY DEF Complete
    <2>3. \/ iss \in ShortIssues(sheet) \/ iss \in RowIssues(CompleteRows(sheet))
          \/ iss \in DuplicateIssues(CompleteRows(sheet))
        BY <2>1, SummaryCounts
    <2>4. iss \notin ShortIssues(sheet)
        <3>1. Short(sheet) = {}
            BY DEF Short, IsShort, IsComplete
        <3>. QED BY <2>1, <3>1, IssueOfShort
    <2>5. CASE iss \in RowIssues(CompleteRows(sheet))
        <3>1. PICK i \in Complete(sheet) : \E kind \in FieldIssues(sheet[i]) :
                iss = Issue(ReportedRow(CompleteRows(sheet), i), kind, sheet[i].symbol)
            BY <2>1, <2>5, IssueOfRow
        <3>2. iss.row = ReportedRow(CompleteRows(sheet), i)
              /\ iss.kind \in FieldIssues(sheet[i])
            BY <3>1 DEF Issue
        <3>3. ReportedRow(CompleteRows(sheet), i) = i + 1
            BY <2>1, <2>2, ReportedRows
        <3>4. i \in DOMAIN sheet /\ i \in Nat
            BY <2>1, <2>2, RowsOfSheet
        <3>5. iss.row - 1 = i
            BY <3>2, <3>3, <3>4
        <3>6. IsComplete(sheet[i])
            BY <3>4
        <3>. QED BY <3>2, <3>4, <3>5, <3>6 DEF Explained
    <2>6. CASE iss \in DuplicateIssues(CompleteRows(sheet))
        <3>1. iss.row = 0
            BY <2>6 DEF DuplicateIssues, Issue
        <3>. QED BY <3>1 DEF Explained
    <2>. QED BY <2>3, <2>4, <2>5, <2>6
<1>. QED BY Invariant, <1>1, PTL

----------------------------------------------------------------------------
(* DR totals. *)

(* Totals computed with no edit are those of the tab.                      *)
LEMMA DoneQuietly ==
    ASSUME IInv, pc = "done", edits = 0
    PROVE  totals = DrNow
BY DEF IInv, QuietInv

(* With the tab left alone and no symbol in two rows, the DR totals are    *)
(* the sum over the rows: the merge by symbol loses and doubles nothing.   *)
THEOREM MergedExactly == Spec => []ExactWhenQuiet
<1>1. IInv => ExactWhenQuiet
    <2>. SUFFICES ASSUME IInv, pc = "done", edits = 0, tab, Distinct(HeldRows, DcaValid)
                  PROVE  totals = RowByRow(HeldRows, DcaValid)
        BY DEF ExactWhenQuiet
    <2>1. totals = Merge(Holdings(main), RestrictValues(main, Costed),
                         RestrictValues(dca, Dca))
        BY DoneQuietly DEF DrNow, HeldNow, CostsNow, DcaNow
    <2>2. main \in [1 .. MainSize -> MainRows] /\ dca \in [1 .. DcaSize -> DcaRows]
        BY DEF IInv, TabInv
    <2>. QED BY <2>1, <2>2, MergeExact DEF HeldRows, DcaValid
<1>. QED BY Invariant, <1>1, PTL

(* Every row the user holds, and every symbol of section 2 alone, is in    *)
(* the totals once, as a counted or a skipped position.                    *)
THEOREM HeldRowsAreReported == Spec => []Accounted
<1>1. IInv => Accounted
    <2>. SUFFICES ASSUME IInv, pc = "done", edits = 0, tab
                  PROVE  totals.positions + totals.skipped
                         = Cardinality(DOMAIN HeldRows)
                           + Cardinality(SymbolsOf(DcaValid) \ SymbolsOf(HeldRows))
        BY DEF Accounted
    <2>1. PICK held : held = Holdings(main)
        OBVIOUS
    <2>2. PICK c : c = RestrictValues(main, Costed)
        OBVIOUS
    <2>3. PICK d : d = RestrictValues(dca, Dca)
        OBVIOUS
    <2>4. totals = Merge(held, c, d)
        BY <2>1, <2>2, <2>3, DoneQuietly DEF DrNow, HeldNow, CostsNow, DcaNow
    <2>5. main \in [1 .. MainSize -> MainRows] /\ dca \in [1 .. DcaSize -> DcaRows]
        BY DEF IInv, TabInv
    <2>6. /\ DOMAIN held = DOMAIN HeldRows /\ DOMAIN held \subseteq 1 .. MainSize
          /\ Range(held) = SymbolsOf(HeldRows)
        BY <2>1, <2>5, RowsKept DEF HeldRows
    <2>7. CostRows(c) /\ Section2Rows(d)
        BY <2>2, <2>3, <2>5, RowsKept
    <2>8. totals.positions + totals.skipped
          = Cardinality(DOMAIN held) + Cardinality(SymbolsOf(d) \ Range(held))
        BY <2>4, <2>6, <2>7, MergeIs
    <2>. QED BY <2>3, <2>6, <2>8 DEF DcaValid
<1>. QED BY Invariant, <1>1, PTL

(* However often a user edits the tab, and whichever reads the edits fall  *)
(* between, the positions that no edit touches are in the totals exactly   *)
(* as they stand in the tab, and the rest of the totals is what the merge  *)
(* makes of the touched symbols alone.                                     *)
THEOREM CalmPositionsCounted == Spec => []OthersUndisturbed
<1>1. IInv => OthersUndisturbed
    <2>. DEFINE Calm(r) == SymbolOf(r) \notin touched
    <2>. SUFFICES ASSUME IInv, pc = "done", tab,
                         Distinct(RestrictValues(HeldRows, Calm), RestrictValues(DcaValid, Calm))
                  PROVE  totals = Plus(RowByRow(RestrictValues(HeldRows, Calm),
                                                RestrictValues(DcaValid, Calm)),
                                       Merge(RestrictValues(symbols, LAMBDA s : s \in touched),
                                             costs,
                                             RestrictValues(DcaValid, LAMBDA r : ~Calm(r))))
        BY DEF OthersUndisturbed
    <2>1. RestrictValues(HeldRows, Calm) = CalmMain(main, touched)
        BY DEF RestrictValues, Restrict, HeldRows, CalmMain
    <2>2. RestrictValues(DcaValid, Calm) = CalmSection2(dca, touched)
        BY DEF RestrictValues, Restrict, DcaValid, CalmSection2
    <2>3. RestrictValues(symbols, LAMBDA s : s \in touched) = TouchedHeld(symbols, touched)
        BY DEF RestrictValues, Restrict, TouchedHeld
    <2>4. RestrictValues(DcaValid, LAMBDA r : ~Calm(r)) = TouchedSection2(dca, touched)
        BY DEF RestrictValues, Restrict, DcaValid, TouchedSection2
    <2>5. Undisturbed(main, dca, touched, symbols, costs, totals)
        BY DEF IInv, CalmInv
    <2>6. Distinct(CalmMain(main, touched), CalmSection2(dca, touched))
        BY <2>1, <2>2
    <2>7. totals = Plus(RowByRow(CalmMain(main, touched), CalmSection2(dca, touched)),
                        Merge(TouchedHeld(symbols, touched), costs,
                              TouchedSection2(dca, touched)))
        BY <2>5, <2>6 DEF Undisturbed
    <2>. QED BY <2>1, <2>2, <2>3, <2>4, <2>7
<1>. QED BY Invariant, <1>1, PTL

----------------------------------------------------------------------------
(* Replies. *)

(* Every reply is right.                                                   *)
LEMMA RightReply ==
    ASSUME IInv, NEW c, c \in DOMAIN out
    PROVE  Right(c, out[c], UsdPositions, ListedNow, alloc, edits, DrNow)
BY DEF IInv, AnswerInv

(* Whatever the sheet holds: once 'validate' has called it valid, neither  *)
(* 'portfolio' nor 'holdings' drops or merges any of its rows.             *)
THEOREM ValidSheetsShownWhole == Spec => []ValidMeansShownWhole
<1>1. IInv => ValidMeansShownWhole
    <2>. SUFFICES ASSUME IInv, Answered, IsValid(report.summary), Ordinary
                  PROVE  /\ Shown("portfolio") => out["portfolio"].us = report.summary.total
                         /\ Shown("holdings") =>
                                out["holdings"].listed
                                = Min({HOLDINGS_LIMIT, report.summary.total})
        BY DEF ValidMeansShownWhole
    <2>1. sheet \in Seq(RawRows) /\ report.summary = Summary(sheet)
        BY AnsweredIsSummary
    <2>2. /\ PositionsOf(sheet) = report.summary.total
          /\ Cardinality(HoldingsIndexOf(sheet)) = report.summary.total
        BY <2>1, ShownWhole DEF Ordinary
    <2>3. UsdPositions = report.summary.total
        BY <2>2 DEF UsdPositions, Ordinary
    <2>4. ListedNow = Min({HOLDINGS_LIMIT, report.summary.total})
        BY <2>2 DEF ListedNow
    <2>5. Shown("portfolio") => out["portfolio"].us = UsdPositions
        BY RightReply DEF Shown, Right
    <2>6. Shown("holdings") => out["holdings"].listed = ListedNow
        BY RightReply DEF Shown, Right
    <2>. QED BY <2>3, <2>4, <2>5, <2>6
<1>. QED BY Invariant, <1>1, PTL

(* A value that is nothing belongs to a row that is negligible.            *)
LEMMA WorthNothing ==
    /\ \A r \in MainRows : Costed(r) /\ MainPosition(r).value = 0 => Negligible(r)
    /\ \A r \in DcaRows : Dca(r) /\ DcaPosition(r).value = 0 => NegligibleDca(r)
<1>1. SATANG \in Nat /\ SATANG > 0
    BY DrTotalsConstants
<1>2. \A a, b \in Int : (2 * a) * b = 2 * (a * b)
    OBVIOUS
<1>3. ASSUME NEW r \in MainRows, Costed(r), MainPosition(r).value = 0,
             \A c \in {r.avg, r.volume, r.price} : c.how = "plain"
      PROVE  2 * r.price.n * r.volume.n <= SATANG
    <2>1. r.price.n \in Int /\ r.volume.n \in Nat
        BY <1>3, CostedCells
    <2>2. CASE r.price.n > 0
        <3>1. r.price.n * r.volume.n \in Nat
            BY <1>3, <2>2, CostedCells
        <3>2. Rounded(r.price.n * r.volume.n, SATANG) = 0
            BY <1>3, <2>2 DEF MainPosition
        <3>3. 2 * (r.price.n * r.volume.n) <= SATANG
            BY <1>1, <3>1, <3>2, RoundedToNothing
        <3>. QED BY <1>2, <2>1, <3>3
    <2>3. CASE ~(r.price.n > 0)
        <3>1. \A a, b \in Int : a <= 0 /\ b >= 0 => 2 * (a * b) <= 0
            OBVIOUS
        <3>2. 2 * (r.price.n * r.volume.n) <= 0
            BY <2>1, <2>3, <3>1
        <3>3. 2 * r.price.n * r.volume.n <= 0
            BY <1>2, <2>1, <3>2
        <3>4. 2 * r.price.n * r.volume.n \in Int
            BY <2>1
        <3>. QED BY <1>1, <3>3, <3>4
    <2>. QED BY <2>2, <2>3
<1>4. ASSUME NEW r \in DcaRows, Dca(r), DcaPosition(r).value = 0
      PROVE  NegligibleDca(r)
    <2>1. PICK n : n = r.price.n * r.size.n
        OBVIOUS
    <2>2. PICK d : d = r.avg.n * SATANG
        OBVIOUS
    <2>3. n \in Nat /\ d \in Nat /\ d > 0
        BY <1>4, <2>1, <2>2, DcaCells
    <2>4. Rounded(n, d) = 0
        BY <1>4, <2>1, <2>2 DEF DcaPosition
    <2>5. 2 * n <= d
        BY <2>3, <2>4, RoundedToNothing
    <2>6. r.price.n \in Int /\ r.size.n \in Int
        BY <1>4, DrTotalsConstants DEF Cell
    <2>7. 2 * r.price.n * r.size.n = 2 * n
        BY <1>2, <2>1, <2>6
    <2>. QED BY <2>2, <2>5, <2>7 DEF NegligibleDca
<1>. QED BY <1>3, <1>4 DEF Negligible

(* 'portfolio' is called empty only if nothing is lost by it: the sheet    *)
(* has no row that 'validate' would count as valid, and of each DR symbol  *)
(* the row that counts does not parse or is worth half a satang at most.   *)
THEOREM EmptyIsEmpty == Spec => []EmptyOnlyIfNegligible
<1>1. IInv => EmptyOnlyIfNegligible
    <2>. DEFINE priced == RestrictValues(main, Costed)
    <2>. SUFFICES ASSUME IInv, "portfolio" \in DOMAIN out, out["portfolio"].how = "empty"
                  PROVE  /\ Answered /\ IsValid(report.summary) /\ Ordinary
                                => report.summary.total = 0
                         /\ edits = 0 /\ tab =>
                              /\ \A s \in SymbolsOf(DcaValid) :
                                    NegligibleDca(LastOf(DcaValid, s))
                              /\ \A s \in SymbolsOf(priced) \ SymbolsOf(DcaValid) :
                                    Negligible(LastOf(priced, s))
        BY DEF EmptyOnlyIfNegligible
    <2>1. UsdPositions = 0 /\ (edits = 0 => DrNow.value = 0)
        BY RightReply DEF Right
    <2>2. ASSUME Answered, IsValid(report.summary), Ordinary
          PROVE  report.summary.total = 0
        <3>1. sheet \in Seq(RawRows) /\ report.summary = Summary(sheet)
            BY <2>2, AnsweredIsSummary
        <3>2. PositionsOf(sheet) = report.summary.total
            BY <2>2, <3>1, ShownWhole DEF Ordinary
        <3>. QED BY <2>1, <2>2, <3>2 DEF UsdPositions, Ordinary
    <2>3. PICK held : held = Holdings(main)
        OBVIOUS
    <2>4. PICK c : c = RestrictValues(main, Costed)
        OBVIOUS
    <2>5. PICK d : d = RestrictValues(dca, Dca)
        OBVIOUS
    <2>6. main \in [1 .. MainSize -> MainRows] /\ dca \in [1 .. DcaSize -> DcaRows]
        BY DEF IInv, TabInv
    <2>7. /\ DOMAIN held = {k \in 1 .. MainSize : Held(main[k])}
          /\ \A k \in DOMAIN held : held[k] = SymbolOf(main[k])
          /\ DOMAIN c = {k \in 1 .. MainSize : Costed(main[k])}
          /\ \A k \in DOMAIN c : c[k] = main[k]
          /\ CostRows(c) /\ Section2Rows(d)
        BY <2>3, <2>4, <2>5, <2>6, RowsKept
    <2>8. MainSize \in Nat /\ DcaSize \in Nat
        BY DrTotalsConstants
    <2>9. ASSUME edits = 0, tab
          PROVE  /\ \A k \in DOMAIN held : Position(held[k], c, d).value = 0
                 /\ \A s \in SymbolsOf(d) \ Range(held) : Position(s, c, d).value = 0
        <3>1. Merge(held, c, d).value = 0
            BY <2>1, <2>3, <2>4, <2>5, <2>9 DEF DrNow, HeldNow, CostsNow, DcaNow
        <3>2. DOMAIN held \subseteq 1 .. MainSize
            BY <2>7
        <3>3. PICK others : others = SymbolsOf(d) \ Range(held)
            OBVIOUS
        <3>4. /\ \A k \in DOMAIN held : Position(held[k], c, d).value = 0
              /\ \A s \in others : Position(s, c, d).value = 0
            <4>1. CostRows(c) /\ Section2Rows(d)
                BY <2>7
            <4>2. /\ Merge(held, c, d).value = 0 =>
                        /\ \A k \in DOMAIN held : Position(held[k], c, d).value = 0
                        /\ \A s \in SymbolsOf(d) \ Range(held) : Position(s, c, d).value = 0
                BY <3>2, <4>1, MergeIs
            <4>. QED BY <3>1, <3>3, <4>2
        <3>. QED BY <3>3, <3>4
    <2>10. ASSUME edits = 0, tab, NEW s \in SymbolsOf(d)
           PROVE  NegligibleDca(LastOf(d, s))
        <3>1. Position(s, c, d).value = 0
            BY <2>9, <2>10 DEF Range
        <3>2. PICK i \in DOMAIN d : LastOf(d, s) = d[i]
            BY <2>7, <2>8, <2>10, LastOfIsOne DEF Section2Rows
        <3>3. DcaPosition(d[i]).value = 0
            BY <2>10, <3>1, <3>2 DEF Position
        <3>. QED BY <2>7, <3>2, <3>3, WorthNothing DEF Section2Rows
    <2>11. ASSUME edits = 0, tab, NEW s \in SymbolsOf(c) \ SymbolsOf(d)
           PROVE  Negligible(LastOf(c, s))
        <3>1. PICK i \in DOMAIN c : SymbolOf(c[i]) = s /\ LastOf(c, s) = c[i]
            BY <2>7, <2>8, <2>11, LastOfIsOne DEF CostRows
        <3>2. i \in DOMAIN held /\ held[i] = s
            BY <2>7, <3>1 DEF Costed
        <3>3. Position(s, c, d).value = 0
            BY <2>9, <2>11, <3>2
        <3>4. MainPosition(c[i]).value = 0
            BY <2>11, <3>1, <3>3 DEF Position
        <3>. QED BY <2>7, <3>1, <3>4, WorthNothing DEF CostRows
    <2>. QED BY <2>2, <2>4, <2>5, <2>10, <2>11 DEF DcaValid
<1>. QED BY Invariant, <1>1, PTL

(* 'allocation' and 'summary' give the DR value and the number of waiting  *)
(* DR rows that 'portfolio' gives, if the tab is left alone and each of    *)
(* the reads behind them succeeds.                                         *)
THEOREM DrIsTheSameEverywhere == Spec => []DrAgrees
<1>1. IInv => DrAgrees
    <2>. SUFFICES ASSUME IInv, NEW c \in {"allocation", "summary"}, edits = 0,
                         Shown("portfolio"), Shown(c)
                  PROVE  /\ out[c].read =>
                                \A i \in DOMAIN out[c].entries :
                                    IsDr(out[c].entries[i])
                                        => out[c].entries[i].value = out["portfolio"].dr.value
                         /\ c = "summary" /\ out[c].counted =>
                                out[c].pending = out["portfolio"].dr.skipped
        BY DEF DrAgrees
    <2>1. out["portfolio"].dr = DrNow
        BY RightReply DEF Shown, Right
    <2>2. /\ out[c].read => out[c].entries = Allocation(alloc, DrNow.value)
          /\ c = "summary" /\ out[c].counted => out[c].pending = DrNow.skipped
        BY RightReply DEF Shown, Right
    <2>3. DrNow.value \in Nat
        <3>1. TabInv
            BY DEF IInv
        <3>. QED BY <3>1, NowTyped, MergeIs DEF DrNow
    <2>4. alloc \in Seq(AllocationRows)
        BY DEF IInv, AnswerInv
    <2>5. \A i \in DOMAIN Allocation(alloc, DrNow.value) :
            IsDr(Allocation(alloc, DrNow.value)[i])
                => Allocation(alloc, DrNow.value)[i].value = DrNow.value
        BY <2>3, <2>4, AllocationIs
    <2>. QED BY <2>1, <2>2, <2>5
<1>. QED BY Invariant, <1>1, PTL

(* Of a sheet with at most a hundred entries, 'allocation' says that the   *)
(* shares do not add up only if there is nothing to share: the tolerance   *)
(* of half a percent covers the rounding of every share.                   *)
THEOREM RoundingGivesNoWarning ==
    ASSUME MaxAllocationRows <= 2 * ALLOCATION_TOLERANCE
    PROVE  Spec => []WarnedOnlyIfNothingToShare
<1>1. IInv => WarnedOnlyIfNothingToShare
    <2>. SUFFICES ASSUME IInv, Shown("allocation"), out["allocation"].warned
                  PROVE  Total(out["allocation"].entries) = 0
        BY DEF WarnedOnlyIfNothingToShare
    <2>1. /\ \E v \in Nat : out["allocation"].entries = Allocation(alloc, v)
          /\ Unbalanced(out["allocation"].entries)
        BY RightReply DEF Shown, Right
    <2>2. PICK v \in Nat : out["allocation"].entries = Allocation(alloc, v)
        BY <2>1
    <2>3. alloc \in Seq(AllocationRows) /\ Len(alloc) <= MaxAllocationRows
        BY DEF IInv, AnswerInv
    <2>. QED BY <2>1, <2>2, <2>3, RoundingIsTolerated
<1>. QED BY Invariant, <1>1, PTL
=============================================================================
