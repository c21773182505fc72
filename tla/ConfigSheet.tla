----------------------------- MODULE ConfigSheet -----------------------------
(***************************************************************************)
(* What config-loader makes of a planner's CSV file: the typed cells       *)
(* (csvparser), the checks of the header (validator), the JSON rows        *)
(* (jsongen) and the Go struct the lobby decodes them with (gogen).        *)
(*                                                                         *)
(* A text is a sequence of lexemes: a delimiter ("|", "=", a quote, a      *)
(* space) or a run of other characters, of which only whether it is a      *)
(* numeral, and of which value, matters.  Two runs are never adjacent.     *)
(***************************************************************************)
EXTENDS Integers, SequencesExt

CONSTANTS
    Number,         \* the numerals among the runs, and their values
    Max32, Max64,   \* the largest int32 and int64, scaled down
    Upper,          \* the lower case letters of column names, and their upper case
    Digits          \* the other characters of column names but "_"

Quotes == {"'", "\""}

-----------------------------------------------------------------------------
\* JSON values, tagged with their kind; an error in place of a value.
Num(n) == [json |-> "number", is |-> n]
Str(text) == [json |-> "string", is |-> text]
Array(values) == [json |-> "array", is |-> values]
Object(bindings) == [json |-> "object", is |-> bindings]
Error(code) == [json |-> "error", is |-> code]

IsError(value) == value.json = "error"

\* The elements of a sequence that a set holds, in their order.
Only(seq, wanted) ==
    FoldLeft(LAMBDA kept, x : IF x \in wanted THEN Append(kept, x) ELSE kept, <<>>, seq)

\* map[key] = value
Put(map, key, value) ==
    [k \in DOMAIN map \cup {key} |-> IF k = key THEN value ELSE map[k]]

\* strings.Split
Split(text, separator) ==
    FoldLeft(LAMBDA parts, c : IF c = separator
                               THEN Append(parts, <<>>)
                               ELSE [parts EXCEPT ![Len(parts)] = Append(@, c)],
             <<<<>>>>, text)

\* strings.TrimSpace
Trim(text) ==
    LET ink == {i \in DOMAIN text : text[i] # " "}
    IN  IF ink = {} THEN <<>> ELSE SubSeq(text, Min(ink), Max(ink))

Blank(text) == Trim(text) = <<>>

Unquote(text) ==
    IF Len(text) >= 2 /\ text[1] \in Quotes /\ Last(text) = text[1]
    THEN SubSeq(text, 2, Len(text) - 1)
    ELSE text

\* The "=" signs of an entry, and those outside quotes: a quote of either kind
\* ends what a quote of the other began.
EqualSigns(entry) == {i \in DOMAIN entry : entry[i] = "="}

Outside(entry) ==
    {i \in EqualSigns(entry) :
        Cardinality({j \in 1 .. i : entry[j] \in Quotes}) % 2 = 0}

\* Faulty variant: quotes are not looked at.
SplitKeyValueAnywhere(entry) ==
    LET at == Min(EqualSigns(entry))
    IN  <<SubSeq(entry, 1, at - 1), SubSeq(entry, at + 1, Len(entry))>>

SplitKeyValue(entry) ==
    LET at == IF Outside(entry) # {} THEN Min(Outside(entry))
                                     ELSE Min(EqualSigns(entry))
    IN  <<SubSeq(entry, 1, at - 1), SubSeq(entry, at + 1, Len(entry))>>

-----------------------------------------------------------------------------
Ints == {"int32", "int64"}

\* strconv.ParseInt: the text is a numeral and nothing else, and its value fits.
Within(n, type) ==
    LET max == IF type = "int32" THEN Max32 ELSE Max64
    IN  -max - 1 <= n /\ n <= max

\* Faulty variant: an int32 is read as wide as an int64.
FitsWide(text, type) ==
    /\ Len(text) = 1 /\ text[1] \in DOMAIN Number
    /\ Within(Number[text[1]], "int64")

Fits(text, type) ==
    /\ Len(text) = 1 /\ text[1] \in DOMAIN Number
    /\ Within(Number[text[1]], type)

ParseInt(raw, type) ==
    IF Blank(raw) THEN Num(0)
    ELSE IF Fits(raw, type) THEN Num(Number[raw[1]])
    ELSE Error("ErrInvalidValue")

ParseIntArray(raw, type) ==
    LET parts == Split(raw, "|")
        items == [i \in DOMAIN parts |-> ParseInt(parts[i], type)]
    IN  IF Blank(raw) THEN Array(<<>>)
        ELSE IF \E i \in DOMAIN items : IsError(items[i])
        THEN Error("ErrInvalidValue")
        ELSE Array(items)

ParseStringArray(raw) ==
    LET parts == Split(raw, "|")
    IN  IF Blank(raw) THEN Array(<<>>)
        ELSE Array([i \in DOMAIN parts |-> Str(Unquote(Trim(parts[i])))])

\* The entries of a map cell; a segment without "=" is passed over.
Entries(raw) ==
    LET parts == Split(raw, "|")
        trimmed == [i \in DOMAIN parts |-> Trim(parts[i])]
        pairs == Only(trimmed, {entry \in ToSet(trimmed) : EqualSigns(entry) # {}})
    IN  [i \in DOMAIN pairs |-> SplitKeyValue(pairs[i])]

KeyText(entry) == Unquote(Trim(entry[1]))
ValueText(entry) == Unquote(Trim(entry[2]))

\* Faulty variant: the later of two entries of one number wins.
AddIntKeyAnyway(type, map, entry) ==
    IF IsError(map) THEN map
    ELSE IF ~Fits(KeyText(entry), type) THEN Error("ErrInvalidValue")
    ELSE Object(Put(map.is, Num(Number[KeyText(entry)[1]]), Str(ValueText(entry))))

\* One round of the loops of parseMap.  Integer keys are compared as numbers.
AddIntKey(type, map, entry) ==
    IF IsError(map) THEN map
    ELSE IF ~Fits(KeyText(entry), type) THEN Error("ErrInvalidValue")
    ELSE LET key == Num(Number[KeyText(entry)[1]])
         IN  IF key \in DOMAIN map.is THEN Error("ErrDuplicateKey")
             ELSE Object(Put(map.is, key, Str(ValueText(entry))))

AddIntValue(type, map, entry) ==
    LET text == Trim(entry[2])
    IN  IF IsError(map) THEN map
        ELSE IF ~Fits(text, type) THEN Error("ErrInvalidValue")
        ELSE Object(Put(map.is, Str(KeyText(entry)), Num(Number[text[1]])))

AddStrings(map, entry) ==
    Object(Put(map.is, Str(KeyText(entry)), Str(ValueText(entry))))

\* The two sides of a map type; further "=" are not looked at.
MapType(type) ==
    LET sides == Split(type, "=")
        side(i) == LET text == Trim(sides[i]) IN IF Len(text) = 1 THEN text[1] ELSE "other"
    IN  <<side(1), side(2)>>

IntKeyed(type) == MapType(type)[1] \in Ints /\ MapType(type)[2] = "string"
IntValued(type) == MapType(type)[1] = "string" /\ MapType(type)[2] \in Ints

\* Every other combination is read as a map of strings.
AddEntry(type, map, entry) ==
    IF IntKeyed(type) THEN AddIntKey(MapType(type)[1], map, entry)
    ELSE IF IntValued(type) THEN AddIntValue(MapType(type)[2], map, entry)
    ELSE AddStrings(map, entry)

ParseMap(raw, type) ==
    IF Blank(raw) THEN Object(<<>>)
    ELSE FoldLeft(LAMBDA map, entry : AddEntry(type, map, entry), Object(<<>>), Entries(raw))

IsMap(type) == EqualSigns(type) # {}

\* Any other type is read as a string.
ParseValue(raw, type) ==
    CASE type = <<"int32">> -> ParseInt(raw, "int32")
      [] type = <<"int64">> -> ParseInt(raw, "int64")
      [] type = <<"time">> -> IF Blank(raw) THEN Error("ErrTimeEmpty") ELSE Str(raw)
      [] type = <<"int32[]">> -> ParseIntArray(raw, "int32")
      [] type = <<"int64[]">> -> ParseIntArray(raw, "int64")
      [] type = <<"string[]">> -> ParseStringArray(raw)
      [] IsMap(type) -> ParseMap(raw, type)
      [] OTHER -> Str(raw)

-----------------------------------------------------------------------------
\* encoding/csv passes over empty lines and wants as many fields in every
\* record as in the first.
Records(lines) == Only(lines, ToSet(lines) \ {<<<<>>>>})

Readable(lines) ==
    LET records == Records(lines)
    IN  /\ Len(records) >= 3
        /\ \A i \in DOMAIN records : Len(records[i]) = Len(records[1])

\* Parser.Parse, without the descriptions of the first record.
SheetOf(lines) ==
    LET records == Records(lines)
        types == records[3]
        raw == SubSeq(records, 4, Len(records))
    IN  [lines |-> lines, names |-> records[2], types |-> types, raw |-> raw,
         values |-> [i \in DOMAIN raw |->
                        [j \in DOMAIN raw[i] |-> ParseValue(raw[i][j], types[j])]]]

HasError(sheet) ==
    \E i \in DOMAIN sheet.values : \E j \in DOMAIN sheet.types : IsError(sheet.values[i][j])

Snake(name) ==
    /\ name # <<>> /\ name[1] \in DOMAIN Upper
    /\ \A i \in DOMAIN name : name[i] \in DOMAIN Upper \cup Digits \cup {"_"}

\* Faulty variant: a name may be that of two columns.
ValidNames(sheet) == \A i \in DOMAIN sheet.names : Snake(sheet.names[i])

\* Validator.Validate
Valid(sheet) ==
    /\ \A i \in DOMAIN sheet.names : Snake(sheet.names[i])
    /\ IsInjective(sheet.names)

\* The last column of a name.
LastOf(names, name) ==
    CHOOSE j \in DOMAIN names :
        names[j] = name /\ \A k \in DOMAIN names \ {j} : names[k] = name => k < j

\* Generator.Generate of jsongen: a later column of the same name wins.
DataOf(sheet) ==
    [i \in DOMAIN sheet.values |->
        [name \in ToSet(sheet.names) |-> sheet.values[i][LastOf(sheet.names, name)]]]

-----------------------------------------------------------------------------
\* csvTypeToGoType
GoType(type) ==
    LET go(side) == IF side \in Ints THEN side ELSE "string"
    IN  CASE type \in {<<"int32">>, <<"int64">>, <<"string">>} -> type
          [] type = <<"time">> -> <<"ConfigTime">>
          [] type = <<"int32[]">> -> <<"slice", "int32">>
          [] type = <<"int64[]">> -> <<"slice", "int64">>
          [] type = <<"string[]">> -> <<"slice", "string">>
          [] IsMap(type) -> <<"map", go(MapType(type)[1]), go(MapType(type)[2])>>
          [] OTHER -> <<"string">>

\* toCamelCase: "_" goes, what follows it is written with a capital.
FieldName(name) ==
    LET parts == Split(name, "_")
        capital(c) == IF c \in DOMAIN Upper THEN Upper[c] ELSE c
    IN  FlattenSeq([i \in DOMAIN parts |->
            IF parts[i] = <<>> THEN <<>> ELSE <<capital(parts[i][1])>> \o Tail(parts[i])])

\* generateRowStruct
StructOf(sheet) ==
    [i \in DOMAIN sheet.names |->
        [field |-> FieldName(sheet.names[i]), json |-> sheet.names[i],
         type |-> GoType(sheet.types[i])]]

\* Generator.Generate of gogen: the packages imported are always the same; only
\* ConfigTime, which is there for a time column, uses json and time.
CodeOf(sheet) ==
    [row |-> StructOf(sheet),
     imports |-> {"json", "time", "baseconfig", "lobbyconfig"},
     uses |-> IF <<"time">> \in ToSet(sheet.types) THEN {"lobbyconfig", "json", "time"}
                                                   ELSE {"lobbyconfig"}]

\* json.Unmarshal into the generated struct; ConfigTime wants a time.
DecodesScalar(value, go) ==
    CASE go \in Ints -> value.json = "number" /\ Within(value.is, go)
      [] go = "string" -> value.json = "string"
      [] go = "ConfigTime" -> value.json = "string" /\ value.is = <<"time">>

DecodesKey(key, go) ==
    go \in Ints => IF key.json = "number" THEN Within(key.is, go) ELSE Fits(key.is, go)

Decodes(value, type) ==
    CASE type[1] = "slice" ->
            /\ value.json = "array"
            /\ \A i \in DOMAIN value.is : DecodesScalar(value.is[i], type[2])
      [] type[1] = "map" ->
            /\ value.json = "object"
            /\ \A key \in DOMAIN value.is :
                  DecodesKey(key, type[2]) /\ DecodesScalar(value.is[key], type[3])
      [] OTHER -> DecodesScalar(value, type[1])

=============================================================================
