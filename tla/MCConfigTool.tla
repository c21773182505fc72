----------------------------- MODULE MCConfigTool -----------------------------
(***************************************************************************)
(* TLC instance of ConfigTool: every short text under every type of        *)
(* column, every two entries under every type of map, sheets of two        *)
(* columns with names of their own, and sheets written by the rules.       *)
(***************************************************************************)
EXTENDS ConfigTool

MCNumber == [x \in {"7", "07", "-8", "big", "huge"} |->
                CASE x = "7" -> 7 [] x = "07" -> 7 [] x = "-8" -> -8
                  [] x = "big" -> 40 [] x = "huge" -> 400]
MCMax32 == 7
MCMax64 == 127
MCUpper == [x \in {"a", "b"} |-> IF x = "a" THEN "A" ELSE "B"]
MCDigits == {"1"}

Runs == DOMAIN MCNumber \cup {"vip", "time"}

MapOf(key, value) == <<key, "=", value>>
MapTypes == {MapOf("int32", "string"), MapOf("int64", "string"), MapOf("string", "int32"),
             MapOf("string", "int64"), MapOf("string", "string"), MapOf("int32", "int32"),
             <<"int64", " ", "=", " ", "string">>, <<"string", "=", "int64", "=", "vip">>}
Types == MapTypes \cup
    {<<t>> : t \in {"int32", "int64", "string", "time", "int32[]", "int64[]", "string[]",
                    "enum"}}

-----------------------------------------------------------------------------
\* A file of the three header lines and the rows.
LinesOf(names, types, rows) == <<[i \in DOMAIN names |-> <<"vip">>], names, types>> \o rows
FileOf(names, types, rows) == [lines |-> LinesOf(names, types, rows), means |-> None]
OneCell(type, cell) == FileOf(<< <<"a">> >>, <<type>>, << <<cell>> >>)
MeantCell(type, cell) ==
    [OneCell(type, cell.text) EXCEPT !.means = << (<<"a">> :> cell.means) >>]

Lexed(text) == \A i \in 1 .. Len(text) - 1 : ~({text[i], text[i + 1]} \subseteq Runs)
Texts == {text \in BoundedSeq({"|", "=", "'", " ", "7", "big"}, 3) : Lexed(text)}

EntryTexts == {key \o <<"=">> \o value :
    key \in {<<"7">>, <<"07">>, <<"-8">>, <<"'", "7", "'">>, <<"vip">>, <<"huge">>},
    value \in {<<>>, <<"7">>, <<"big">>, <<"'", "vip", "=", "'">>}}
TwoEntries == {one \o <<"|">> \o two : one, two \in EntryTexts}

Names == {<<"a">>, <<"b">>, <<"a", "_", "b">>, <<"a", "b">>, <<"a", "b", "_">>, <<"a", "_", "1">>,
          <<"a", "1">>, <<"A">>, <<"1">>, <<>>}
TwoColumns == {FileOf(<<one, two>>, << <<"string">>, <<"string">> >>, << << <<"7">>, <<"vip">> >> >>) :
                  one, two \in Names}

\* No data, a record that is too short, a record that is empty.
Odd == {[lines |-> <<>>, means |-> None], [lines |-> << << <<"a">> >> >>, means |-> None],
        FileOf(<< <<"a">> >>, << <<"int32">> >>, <<>>),
        FileOf(<< <<"a">>, <<"b">> >>, << <<"int32">>, <<"int32">> >>, << << <<"7">> >> >>),
        FileOf(<< <<"a">> >>, << <<"int32">> >>, << << <<"7">> >>, << <<>> >>, << <<" ">> >> >>)}

-----------------------------------------------------------------------------
\* Sheets written by the rules: strings in quotes of a kind they do not contain,
\* numbers bare, entries and elements separated by "|", with or without spaces,
\* an empty element of an integer array for 0.  Left out is what the code does
\* not take as the rules mean it: "|" within quotes, and MCFilesOther below.
Quoted(text, quote) == <<quote>> \o text \o <<quote>>

Words == {<<>>, <<"vip">>, <<"7">>, <<" ", "vip">>, <<"vip", "=">>, <<"=", "=">>}
QuoteWords == {<<"vip", "'", "7">>, <<"\"">>}
Spaces == {<<>>, <<" ">>}

Elements(words) ==
    {[text |-> Quoted(word, quote), means |-> Str(word)] :
        <<word, quote>> \in {wq \in words \X Quotes : wq[2] \notin ToSet(wq[1])}}
Numerals == {[text |-> <<n>>, means |-> Num(MCNumber[n])] : n \in {"7", "-8"}}

\* A cell of two, each with a key and a value.
MapCells(keys, values) ==
    {[text |-> a.text \o gap \o <<"=">> \o gap \o x.text \o gap \o <<"|">> \o gap
               \o b.text \o <<"=">> \o y.text,
      means |-> Object((a.means :> x.means) @@ (b.means :> y.means))] :
        a, b \in keys, x, y \in values, gap \in Spaces}

Distinct(cells) == {cell \in cells : Cardinality(DOMAIN cell.means.is) = 2}

MeantCells ==
    [type \in {<<"int32[]">>, <<"string[]">>, MapOf("int32", "string"),
               MapOf("string", "int64"), MapOf("string", "string")} |->
        CASE type = <<"int32[]">> ->
                {[text |-> a.text \o <<"|">> \o gap \o <<"|">> \o b.text,
                  means |-> Array(<<a.means, Num(0), b.means>>)] :
                    a, b \in Numerals, gap \in Spaces}
          [] type = <<"string[]">> ->
                {[text |-> a.text \o gap \o <<"|">> \o gap \o b.text,
                  means |-> Array(<<a.means, b.means>>)] :
                    a, b \in Elements(Words \cup QuoteWords), gap \in Spaces}
          [] type = MapOf("int32", "string") ->
                Distinct(MapCells(Numerals, Elements(Words \cup QuoteWords)))
          [] type = MapOf("string", "int64") ->
                Distinct(MapCells(Elements(Words \cup QuoteWords), Numerals))
          [] type = MapOf("string", "string") ->
                Distinct(MapCells(Elements(Words), Elements({<<"vip", "=">>}))
                            \cup MapCells(Elements({<<"vip">>} \cup QuoteWords),
                                          Elements({<<"vip">>})))]

MeantBy(cells) == UNION {{MeantCell(type, cell) : cell \in cells[type]} : type \in DOMAIN cells}

Written == MeantBy(MeantCells)

\* A quote of the other kind in a key, beside an "=" in quotes, and a quote that
\* is written twice.
MCFilesOther ==
    LET cell(key, value) == Quoted(key, "\"") \o <<"=">> \o Quoted(value, "\"")
        other == {[text |-> cell(key, value), means |-> Object(Str(key) :> Str(value))] :
                     key \in {<<"vip">>, <<"vip", "'", "7">>},
                     value \in {<<"vip">>, <<"vip", "=", "7">>}}
        doubled == {[text |-> Quoted(<<"vip", quote, quote, "7">>, quote),
                     means |-> Array(<<Str(<<"vip", quote, "7">>)>>)] : quote \in Quotes}
    IN  MeantBy(MapOf("string", "string") :> other @@ <<"string[]">> :> doubled)

MCFiles ==
    {OneCell(type, text) : type \in Types, text \in Texts}
        \cup {OneCell(type, text) : type \in MapTypes, text \in TwoEntries}
        \cup TwoColumns \cup Odd \cup Written

\* Enough for what the code does with any sheet.
MCFilesFew == {OneCell(type, text) : type \in Types, text \in TwoEntries \cup {<<"7">>}}

MCSaved == {OneCell(<<"int32">>, <<"7">>)}
NoneSaved == {}

AllOptions == {"output", "mysql", "redis", "gen-go"}
MCOptions == {AllOptions, AllOptions \cup {"dry-run"}}
=============================================================================
