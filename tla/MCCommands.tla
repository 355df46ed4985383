----------------------------- MODULE MCCommands -----------------------------
(***************************************************************************)
(* A small spreadsheet.  Every small content of each sheet occurs beside a *)
(* few contents of the others.                                             *)
(***************************************************************************)
EXTENDS Commands

----------------------------------------------------------------------------
(* The Portfolio sheet: two securities, one of them in two spellings, with *)
(* every kind of cell in some row.                                         *)

MCSymbols == {"AAPL", "aapl", "PTT.BK"}
MCFolded == [s \in MCSymbols |-> IF s = "PTT.BK" THEN "ptt.bk" ELSE "aapl"]
MCTickers == {"AAPL", "PTT.BK"}

Row(columns, symbol, avg, shares, price) ==
    [columns |-> columns, symbol |-> symbol, avg_cost |-> avg,
     shares |-> shares, current_price |-> price]

Ptt == Row(4, "PTT.BK", "positive", "positive", "positive")
Aapl == Row(4, "AAPL", "positive", "positive", "positive")

MCRawRows ==
    { Row(0, "", "blank", "blank", "blank"),
      Row(4, "symbol", "word", "word", "word"),
      Row(3, "PTT.BK", "positive", "positive", "blank"),
      Ptt, Aapl,
      Row(4, "aapl", "positive", "zero", "positive"),
      Row(4, "", "blank", "positive", "sign"),
      Row(4, "AAPL", "negative", "word", "zero"),
      Row(4, "PTT.BK", "positive", "positive", "infinite"),
      Row(4, "AAPL", "positive", "nan", "positive") }

FewSheets == {<<>>, <<Ptt, Aapl>>}

MCRates ==
    {"positive", "sign", "zero", "negative", "infinite", "nan", "word", "blank"}

----------------------------------------------------------------------------
(* The DR tab: three securities, one of them in two spellings.  Amounts    *)
(* are in half satangs.                                                    *)

Plain(n) == [n |-> n, how |-> "plain"]
Baht(n) == [n |-> n, how |-> "formatted"]
NaN == [n |-> 0, how |-> "nan"]
Text == [n |-> 0, how |-> "text"]

MCNormal ==
    [s \in {"", "PTT01", "ptt01.BK", "AOT03", "KKP05"} |->
        IF s = "ptt01.BK" THEN "PTT01" ELSE s]

Main(s, avg, volume, pct, price) ==
    [symbol |-> s, avg |-> avg, volume |-> volume, pct |-> pct, price |-> price]

NoMain == Main("", Text, Text, "ok", Text)
HeldPtt == Main("PTT01", Plain(2), Plain(3), "ok", Plain(5))
Unpriced == Main("AOT03", Plain(1), Plain(4), "ok", Text)

(* An empty row, a row of sums, held rows (one whose average price carries *)
(* a sign), a watched one, one whose price cannot be parsed, one whose     *)
(* price is not a number, one worth half a satang and one with an error    *)
(* cell.                                                                   *)
MCMainRows ==
    { NoMain,
      Main("", Plain(3), Plain(4), "ok", Text),
      HeldPtt,
      Main("ptt01.BK", Baht(1), Plain(1), "ok", Plain(5)),
      Main("PTT01", Plain(0), Text, "ok", Plain(5)),
      Unpriced,
      Main("AOT03", Plain(1), Plain(4), "ok", NaN),
      Main("AOT03", Plain(1), Plain(4), "ok", Plain(7)),
      Main("AOT03", Plain(3), Plain(1), "ok", Plain(1)),
      Main("AOT03", Plain(1), Plain(4), "error", Plain(7)) }

Section2(s, size, avg, pct, price) ==
    [symbol |-> s, size |-> size, avg |-> avg, pct |-> pct, price |-> price]

NoDca == Section2("", Text, Text, "ok", Text)

MCDcaRows ==
    { NoDca,
      Section2("PTT01", Baht(6), Plain(2), "ok", Baht(3)),
      Section2("KKP05", Plain(6), Plain(3), "ok", Plain(4)),
      Section2("KKP05", Plain(1), Plain(4), "ok", Plain(2)),
      Section2("KKP05", Plain(8), Plain(1), "error", Plain(4)),
      Section2("AOT03", Plain(6), Plain(0), "ok", Plain(4)) }

FewMains == {<<NoMain, NoMain>>, <<HeldPtt, Unpriced>>}

----------------------------------------------------------------------------
(* The AssetAllocation sheet: cash and DR in two spellings each, and every *)
(* kind of cell.                                                           *)

MCStripped ==
    [s \in {"", "Cash", " CASH", "Stock World (DR)", "stock world (dr)",
            "Crypto", "#REF!"} |->
        IF s = " CASH" THEN "CASH" ELSE s]
MCLowered ==
    [s \in Range(MCStripped) |->
        CASE s \in {"Cash", "CASH"} -> "cash"
          [] s \in {"Stock World (DR)", "stock world (dr)"} -> "stock world (dr)"
          [] OTHER -> s]
MCErrorNames == {"#REF!"}

Asset(s, how, n) == [name |-> s, cell |-> [how |-> how, n |-> n]]
Number(s, n) == Asset(s, "number", n)

MCAllocationRows ==
    { Asset("", "error", 0),
      Number("#REF!", 0),
      Number("Cash", 8), Number(" CASH", 0), Number("Cash", -1),
      Number("Stock World (DR)", 5), Number("stock world (dr)", 0),
      Asset("Crypto", "text", 0), Number("Crypto", 3),
      Asset("Crypto", "error", 0), Asset("Crypto", "nan", 0) }

FewAllocs == {<<Number("Cash", 8), Number("Stock World (DR)", 5)>>}

----------------------------------------------------------------------------
MCInit ==
    \/ InitWith(BoundedSeq(MCRawRows, MaxRows), {<<NoMain, NoMain>>}, {<<NoDca>>},
                {"positive"}, {<<>>}) /\ ~tab
    \/ InitWith({<<Ptt>>}, [1 .. MainSize -> MCMainRows], [1 .. DcaSize -> MCDcaRows],
                {"positive"}, FewAllocs) /\ tab
    \/ InitWith(FewSheets, FewMains, {<<NoDca>>}, MCRates, FewAllocs)
    \/ InitWith({<<>>}, {<<NoMain, NoMain>>}, {<<NoDca>>},
                {"positive"}, BoundedSeq(MCAllocationRows, MaxAllocationRows)) /\ ~tab

MCSpec == MCInit /\ [][Next]_vars
=============================================================================
