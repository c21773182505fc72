------------------------------ MODULE ConfigTool ------------------------------
(***************************************************************************)
(* One run of config-loader (cmd/config-loader/main.go) over a sheet that  *)
(* its author may save again meanwhile: the file is parsed and checked,    *)
(* its rows are written out, inserted and announced, and the Go code is    *)
(* generated.  What becomes of the row and the message is LobbyConfig's.   *)
(***************************************************************************)
EXTENDS ConfigSheet

CONSTANTS
    Files,        \* what the file may be when the tool is started
    Saved,        \* what its author may save while the tool runs
    Options,      \* the sets of flags it may be started with
    None          \* nothing there (yet)

\* A file is the record of its lines and of what its author means by them:
\* JSON rows, or None for lines not written by the rules.  A line is a sequence
\* of cells, and a cell is a text.
ASSUME ToolAssumption ==
    /\ \A f \in Files \cup Saved : f.lines \in Seq(Seq(Seq(STRING)))
    /\ \A f \in Files \cup Saved : Readable(f.lines) => SheetOf(f.lines) # None
    /\ Max32 \in Nat /\ Max64 \in Nat

VARIABLES
    file,         \* the sheet's file
    options,      \* the flags: "dry-run", "output", "mysql", "redis", "gen-go"
    at,           \* the next thing the tool does, or its exit code
    sheet,        \* the parsed sheet
    payload,      \* its JSON rows
    output,       \* the output file
    csvText,      \* what the tool has read for the csv_text column
    row,          \* the inserted row
    announced,    \* PUBLISH has succeeded
    code          \* the generated Go file

vars == <<file, options, at, sheet, payload, output, csvText, row, announced, code>>

Exits == {"exit_0", "exit_2", "exit_3", "exit_4", "exit_5"}

TypeOK ==
    /\ options \in Options
    /\ at \in {"parse", "validate", "generate_json", "write_output", "read_again",
               "insert", "publish", "generate_go"} \cup Exits
    /\ sheet # None =>
          \A i \in DOMAIN sheet.raw : Len(sheet.raw[i]) = Len(sheet.types)
    /\ payload # None => sheet # None /\ Len(payload) = Len(sheet.raw)
    /\ output \in {None, payload}
    /\ row # None => row = [data |-> payload, csv_text |-> csvText]
    /\ announced \in BOOLEAN
    /\ code # None => Len(code.row) = Len(sheet.types)

Init ==
    /\ file \in Files
    /\ options \in Options
    /\ at = "parse"
    /\ sheet = None /\ payload = None /\ output = None /\ csvText = None
    /\ row = None /\ announced = FALSE /\ code = None

\* The author saves the sheet again.
Save(saved) ==
    /\ at \notin Exits
    /\ file # saved
    /\ file' = saved
    /\ UNCHANGED <<options, at, sheet, payload, output, csvText, row, announced, code>>

Parse ==
    /\ at = "parse"
    /\ IF Readable(file.lines) /\ ~HasError(SheetOf(file.lines))
       THEN sheet' = SheetOf(file.lines) /\ at' = "validate"
       ELSE at' = "exit_2" /\ UNCHANGED sheet
    /\ UNCHANGED <<file, options, payload, output, csvText, row, announced, code>>

\* Faulty variant: what is wrong with the names is only logged.
ValidateLenient ==
    /\ at = "validate"
    /\ at' = IF "dry-run" \in options THEN "exit_0" ELSE "generate_json"
    /\ UNCHANGED <<file, options, sheet, payload, output, csvText, row, announced, code>>

Validate ==
    /\ at = "validate"
    /\ at' = IF ~Valid(sheet) THEN "exit_3"
             ELSE IF "dry-run" \in options THEN "exit_0"
             ELSE "generate_json"
    /\ UNCHANGED <<file, options, sheet, payload, output, csvText, row, announced, code>>

GenerateJson ==
    /\ at = "generate_json"
    /\ payload' = DataOf(sheet)
    /\ at' = "write_output"
    /\ UNCHANGED <<file, options, sheet, output, csvText, row, announced, code>>

\* Without -output the rows are printed.
WriteOutput ==
    /\ at = "write_output"
    /\ \/ /\ output' = IF "output" \in options THEN payload ELSE output
          /\ at' = IF "mysql" \in options THEN "read_again" ELSE "generate_go"
       \/ "output" \in options /\ at' = "exit_3" /\ UNCHANGED output
    /\ UNCHANGED <<file, options, sheet, payload, csvText, row, announced, code>>

\* The file is opened a second time, for the text that goes beside the rows; a
\* read that fails is not looked at, and the text ends there.
ReadAgain ==
    /\ at = "read_again"
    /\ \/ csvText' \in {file.lines, <<>>} /\ at' = "insert"
       \/ at' = "exit_2" /\ UNCHANGED csvText
    /\ UNCHANGED <<file, options, sheet, payload, output, row, announced, code>>

\* The INSERT, whose answer may be lost.
Insert ==
    /\ at = "insert"
    /\ \/ /\ row' = [data |-> payload, csv_text |-> csvText]
          /\ at' = IF "redis" \in options THEN "publish" ELSE "generate_go"
       \/ row' = [data |-> payload, csv_text |-> csvText] /\ at' = "exit_4"
       \/ at' = "exit_4" /\ UNCHANGED row
    /\ UNCHANGED <<file, options, sheet, payload, output, csvText, announced, code>>

\* A PUBLISH that fails is only logged.
Publish ==
    /\ at = "publish"
    /\ announced' \in BOOLEAN
    /\ at' = "generate_go"
    /\ UNCHANGED <<file, options, sheet, payload, output, csvText, row, code>>

GenerateGo ==
    /\ at = "generate_go"
    /\ \/ "gen-go" \notin options /\ at' = "exit_0" /\ UNCHANGED code
       \/ "gen-go" \in options /\ code' = CodeOf(sheet) /\ at' = "exit_0"
       \/ "gen-go" \in options /\ at' = "exit_5" /\ UNCHANGED code
    /\ UNCHANGED <<file, options, sheet, payload, output, csvText, row, announced>>

Exited == at \in Exits /\ UNCHANGED vars

Next ==
    \/ \E saved \in Saved : Save(saved)
    \/ Parse
    \/ Validate
    \/ GenerateJson
    \/ WriteOutput
    \/ ReadAgain
    \/ Insert
    \/ Publish
    \/ GenerateGo
    \/ Exited

Spec == Init /\ [][Next]_vars

-----------------------------------------------------------------------------
\* A sheet that is written as the rules of the CSV format say is accepted, and
\* its rows say what its author means (parseMap, splitKeyValue, unquote).  The
\* rules are those of Files, which say how much of the format they are.
WrittenIsMeant ==
    file.means # None =>
        /\ sheet = None => at # "exit_2"
        /\ payload # None /\ sheet.lines = file.lines => payload = file.means

\* Every cell is found in its row under the name of its column: no column
\* covers another (Validate before jsongen's rowData[name] = value).
EveryCellKept ==
    payload # None =>
        \A i \in DOMAIN sheet.raw : \A j \in DOMAIN sheet.names :
            payload[i][sheet.names[j]] = sheet.values[i][j]

\* No entry of a map with INTEGER keys covers another, however the keys are
\* written (the duplicate check of parseMap).  Entries are the segments that have
\* an "=", the others are passed over (types.go:156); of two equal string keys the
\* later entry wins without a word (types.go:239-291).
IntEntriesKept ==
    sheet # None =>
        \A i \in DOMAIN sheet.raw : \A j \in DOMAIN sheet.types :
            IsMap(sheet.types[j]) /\ IntKeyed(sheet.types[j]) /\ ~Blank(sheet.raw[i][j])
                => Cardinality(DOMAIN sheet.values[i][j].is) = Len(Entries(sheet.raw[i][j]))

\* The column types whose cells the parser types as the generator does.
Typed(type) ==
    \/ type \in {<<"int32">>, <<"int64">>, <<"string">>,
                 <<"int32[]">>, <<"int64[]">>, <<"string[]">>}
    \/ IsMap(type) /\ (IntKeyed(type) \/ IntValued(type)
                          \/ MapType(type) = <<"string", "string">>)

Loadable(columns) ==
    payload # None =>
        \A i \in DOMAIN payload : \A j \in columns :
            Decodes(payload[i][sheet.names[j]], GoType(sheet.types[j]))

\* The lobby can decode every inserted row with the struct that is generated
\* from the same sheet, in every typed column: two generators, one format.
TypedIsLoadable ==
    payload # None =>
        Loadable({j \in DOMAIN sheet.types : Typed(sheet.types[j])})

\* A sheet with a wrong cell or name, and a dry run, leave nothing behind.
OnlyCheckedLeaves ==
    output # None \/ row # None \/ announced \/ code # None =>
        ~HasError(sheet) /\ Valid(sheet) /\ "dry-run" \notin options

-----------------------------------------------------------------------------
\* What the CSV format's design says, and the code does not do.
\* "`time` ... 格式不符 **报错**", "未注册 → **报错**": what is published is what
\* the lobby can decode, in every column.
AllIsLoadable == payload # None => Loadable(DOMAIN sheet.types)

\* "Check for duplicate key (only warn, don't fail)" (types.go:166): a sheet that
\* the tool refuses to read has something else wrong with it.
DuplicatesOnlyWarn ==
    at = "exit_2" /\ sheet = None /\ Readable(file.lines) =>
        \E i \in DOMAIN SheetOf(file.lines).values :
            \E value \in ToSet(SheetOf(file.lines).values[i]) :
                IsError(value) /\ value.is # "ErrDuplicateKey"

\* "验证生成代码可编译": Go wants every imported package to be used.
ImportsUsed == code # None => code.imports \subseteq code.uses

\* "策划 CSV 原文（审计）": the text beside the rows is what they were made from.
TextIsOriginal == row # None => row.csv_text = sheet.lines

=============================================================================
