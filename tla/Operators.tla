----------------------------- MODULE Operators -----------------------------
(***************************************************************************)
(* The conversions and comparisons of the library, one call of one of them *)
(* at a time: what it is given, and what it answers.                       *)
(***************************************************************************)
EXTENDS Comparing

CONSTANTS
  Literals,      \* spellings of numbers, as sequences of characters
  Words,         \* hex-words: [line, nibble, legacy]
  TokenLists,    \* what convert is given
  Endings,      \* what follows the digits of a compact reference
  TypedValues,   \* registry values
  SchemaFiles,   \* .schema files, as sequences of lines
  SchemaNames,   \* the names in them, sorted
  Tables,        \* what schema --validate reads of a document
  Texts,         \* texts that are searched
  Patterns,      \* what is searched for in them
  Sides,         \* documents that are compared
  Commands,      \* commands that need a file: [placement, counts]
  CommandWords,  \* the words behind a command, without its file
  Files,         \* what is put where a file belongs, and what is loaded
  LoggedOps,     \* operations a transaction stages
  LoggedBatches  \* sequences of them

D == INSTANCE Decimals
S == INSTANCE Spellings
F == INSTANCE Schemas
L == INSTANCE LoadedPath
W == INSTANCE WalSpelling WITH Op <- LoggedOps

\* A spelling of a number is of digits, Plus, Minus, Dot and Letter.
ASSUME OperatorsAssumption ==
  /\ Literals \subseteq Seq(0 .. 13)
  /\ Words \subseteq [line : 0 .. S!MaxLine, nibble : S!HexDigit, legacy : BOOLEAN]
  /\ TokenLists \subseteq Seq([kind : {"number"}, value : Nat]
                              \cup [kind : {"type"}, value : S!ZoneType] \cup {S!Clip})
  /\ Endings \subseteq Seq(STRING)
  /\ Texts \subseteq Content

VARIABLE call

None == [op |-> "none"]
Init == call = None

\* A call, and what it answers.
Call(given, answer) ==
  call' = [f \in DOMAIN given \cup {"answer"} |-> IF f = "answer" THEN answer ELSE given[f]]

CompareNumbers ==
  \E l, r \in Literals :
    D!IsDecimal(l) /\ D!IsDecimal(r)
      /\ Call([op |-> "compare", left |-> l, right |-> r], D!Cmp(l, r))

WriteJson ==
  \E l \in Literals :
    D!IsDecimal(l) /\ Call([op |-> "json", literal |-> l], D!JsonLiteral(l))

Spelt(w) == IF w.legacy THEN S!Legacy(w.line, w.nibble) ELSE S!Encode(w.line, w.nibble)

ReadHexWords ==
  \E v, w \in Words :
    LET line == << v, w, w, w, w, v >>
        spelt == [i \in 1 .. 6 |-> Spelt(line[i])]
    IN  S!CanParse(spelt) /\ Call([op |-> "hexline", words |-> line], S!FromLine(spelt))

ConvertTo ==
  \E tokens \in TokenLists, zone \in 1 .. 3 :
    LET zones == [z \in 0 .. 2 |-> [start |-> z, end |-> z + 1, type |-> z]]
    IN  S!CanConvertTo(tokens, zone)
          /\ Call([op |-> "convert", zones |-> zones, tokens |-> tokens, zone |-> zone],
                  S!AssignTo(zones, tokens, zone))

ExpandReference ==
  \E s \in Endings :
    S!Readings(s) # {} /\ Call([op |-> "compact", suffix |-> s], S!Readings(s))

StoreValue ==
  \E v \in TypedValues :
    S!CanRestore(S!ToStore(v), v.type)
      /\ Call([op |-> "value", value |-> v], S!FromStore(S!ToStore(v), v.type))

SaveSchema ==
  \E lines \in SchemaFiles :
    Call([op |-> "schema", schema |-> F!Parse(lines)],
         F!Parse(F!Save(F!Parse(lines), SchemaNames)))

\* schema --init, and schema --validate on the same document.
StartSchema ==
  \E t \in Tables :
    Call([op |-> "starter", table |-> t],
         F!TotalErrors(F!Parse(F!Save(F!Starter(t), SchemaNames)), t))

SearchText ==
  \E v \in Texts, p, q \in Patterns :
    Call([op |-> "search", text |-> v, one |-> p, other |-> q],
         [and |-> BoolAnd(v, {p, q}), or |-> BoolOr(v, {p, q}),
          nand |-> BoolNand(v, p, q), xor |-> BoolXor(v, p, q),
          count |-> Count(v, p), multi |-> GrepMulti(v, {p, q})])

ReplaceRecords ==
  \E target, source \in Sides, named \in SUBSET Rec :
    CanReplace(target, source, named)
      /\ Call([op |-> "replace", target |-> target, source |-> source, named |-> named],
              Replaced(target, source, named)[1])

RefuseReplacement ==
  \E target, source \in Sides, named \in SUBSET Rec :
    ~ CanReplace(target, source, named)
      /\ Call([op |-> "refuse", target |-> target, source |-> source, named |-> named], << >>)

\* How many of the words can be in front of the file a short command names: any
\* options, their values with them, and the action.
FilePlaces(command, words) ==
  {i \in 0 .. Len(words) :
     /\ i > 0 => ~ L!TakesValue(words[i])
     /\ command.placement # "option" =>
          Len(L!Operands(SubSeq(words, 1, i)))
            = IF command.placement = "after-action" THEN 1 ELSE 0}

\* A short command with a file where it belongs, or without one.
Placed(command, words, place, named) ==
  SubSeq(words, 1, place)
    \o (IF named # L!NoFile /\ command.placement = "option" THEN << L!FileOption >> ELSE << >>)
    \o named \o SubSeq(words, place + 1, Len(words))

FindFile ==
  \E command \in Commands, words \in CommandWords, named, loaded \in Files \cup {L!NoFile} :
    \E place \in IF named = L!NoFile THEN {0} ELSE FilePlaces(command, words) :
      /\ loaded # L!NoFile => loaded[1].kind = "file"
      /\ Call([op |-> "file", command |-> command, words |-> words, place |-> place,
               named |-> named, loaded |-> loaded],
              L!FileActedOn(command, Placed(command, words, place, named), loaded))

\* A batch is staged, or committed too, and its log read anew.
ReadLog ==
  \E batch \in LoggedBatches, committed \in BOOLEAN :
    LET file == W!LogFile(W!LogText(batch, committed))
    IN  Call([op |-> "log", batch |-> batch, committed |-> committed],
             [entries |-> {file[i] : i \in W!ReadEntries(file)}, committed |-> W!Committed(file)])

Next ==
  /\ call = None
  /\ \/ CompareNumbers \/ WriteJson \/ ReadHexWords \/ ConvertTo \/ ExpandReference
     \/ StoreValue \/ SaveSchema \/ StartSchema \/ SearchText
     \/ ReplaceRecords \/ RefuseReplacement \/ FindFile \/ ReadLog

Spec == Init /\ [][Next]_call

(***************************************************************************)
(* Numbers.                                                                *)
(***************************************************************************)
\* Comparing digit by digit (DecimalValue::cmp), across signs, leading and
\* final zeros and a missing half, is comparing the numbers.
DecimalsCompareAsNumbers ==
  call.op = "compare" => call.answer = D!Order(call.left, call.right)

\* json_literal turns every spelling that is accepted into a number of JSON,
\* and the same number.
JsonKeepsTheNumber ==
  call.op = "json" =>
    D!IsJsonNumber(call.answer) /\ D!Order(call.answer, call.literal) = 0

(***************************************************************************)
(* Lines and zones.                                                        *)
(***************************************************************************)
\* Both spellings of a hex-word name the same line and type (decode_hex_word),
\* and reserved types are markdown.  convert ... to: the two numbers become the
\* bounds of that zone in order, whatever words stand between them, and the
\* other zones stay.  What to_line writes of either reads back as it was.
HexWordsReadBack ==
  call.op \in {"hexline", "convert"} =>
    /\ call.op = "hexline" => \A z \in 0 .. 2 :
         LET first == call.words[2 * z + 1]
         IN  call.answer[z] = [start |-> first.line,
                               end   |-> call.words[2 * z + 2].line,
                               type  |-> IF first.nibble <= 3 THEN first.nibble ELSE 0]
    /\ call.op = "convert" =>
         /\ \A z \in 0 .. 2 \ {call.zone - 1} : call.answer[z] = call.zones[z]
         /\ LET ns   == {i \in DOMAIN call.tokens : call.tokens[i].kind = "number"}
                zone == call.answer[call.zone - 1]
            IN  \E i, j \in ns :
                  /\ i < j /\ ns = {i, j}
                  /\ zone.start = call.tokens[i].value /\ zone.end = call.tokens[j].value
                  /\ zone.start <= zone.end
    /\ S!FromLine(S!ToLine(call.answer)) = call.answer

\* compact_ref tries its markers in an order, one the beginning of another; no
\* text fits two of them.
CompactRefsHaveOneReading ==
  call.op = "compact" => Cardinality(call.answer) = 1

\* from_store_string reads what to_store_string wrote; only a list without a
\* string, and strings with a nul in them, have no spelling of their own.
TypedValuesReadBack ==
  (call.op = "value"
    /\ (call.value.type = "multisz" =>
          /\ call.value.value # << >>
          /\ \A i \in DOMAIN call.value.value : ~ Contains(call.value.value[i], S!Nul)))
  => call.answer = call.value.value

(***************************************************************************)
(* Schemas.                                                                *)
(***************************************************************************)
\* A saved schema has the sections, fields and constraints it had, and the
\* types, except that the values of an enum are gone (DocumentSchema::save).  It
\* speaks of the schema that was parsed; what the parser makes of a file is not
\* judged: of the example of the module's documentation, with `---` behind every
\* section, it keeps the first section and takes the second for none.
SchemasReadBack ==
  call.op = "schema" =>
    /\ DOMAIN call.answer = DOMAIN call.schema
    /\ \A s \in DOMAIN call.schema :
         /\ DOMAIN call.answer[s] = DOMAIN call.schema[s]
         /\ \A n \in DOMAIN call.schema[s] :
              LET was == call.schema[s][n]  is == call.answer[s][n]
              IN  /\ is.constraint = was.constraint
                  /\ is.type.name = was.type.name
                  /\ was.type.name # "enum" => is.type = was.type

\* The schema --init writes finds fault with a document exactly if the scan of
\* its numeric lines does (parse_numeric_line), a line too short left aside.
StarterSchemaAccepts ==
  (call.op = "starter" /\ \A r \in DOMAIN call.table : Len(call.table[r].cells) >= 9)
  => (call.answer = {} <=> \A r \in DOMAIN call.table : F!NumbersParse(call.table[r]))

(***************************************************************************)
(* Texts and documents.                                                    *)
(***************************************************************************)
\* The boolean commands, which search line by line, say of a text what
\* if-contains and /query say, which search it whole.
MatchersAgree ==
  (call.op = "search" /\ call.one # << >> /\ call.other # << >>) =>
    LET one   == Holds(call.text, call.one)
        other == Holds(call.text, call.other)
        ps    == {call.one, call.other}
    IN  /\ call.answer.and.value = QueryAnd(call.text, ps)
        /\ call.answer.or.value = QueryOr(call.text, ps)
        /\ call.answer.nand.value = (one /\ ~ other)
        /\ call.answer.xor.value = ((one /\ ~ other) \/ (other /\ ~ one))
        /\ (call.answer.count > 0) = one
        /\ {m[1] : m \in call.answer.multi} = call.answer.or.matches
        /\ IsZoneEmpty(call.text) => ~ one

\* Replacing records cannot lose a line if something stands behind the last of
\* them, or no record ends in an empty string.
Firm(c) ==
  \E i \in 0 .. Len(c) - 1 : LineAt(c, i) # Blank /\ \A r \in RecordsIn(c) : String3Line(c, r) < i
EndsInText(c) == \A r \in RecordsIn(c) : LineAt(c, String3Line(c, r)) # Blank

RecordLines(c, rs) == UNION {HeaderLine(c, r) .. String3Line(c, r) : r \in rs}

\* fast_replace, six rewrites for every record, each of them a loss of one empty
\* line at the end: the records asked for are then identical to those of the
\* source, all other lines, and the other records, are what they were, and no
\* replacement is refused halfway.  This is all the property says: the case in
\* which the rewrites do lose lines, a record with an empty third string and
\* nothing but empty lines behind it, is outside its premises, and a document of
\* that kind stops the command or comes out shorter.
ReplaceMakesThemAlike ==
  (call.op \in {"replace", "refuse"} /\ CanDiff(call.target, call.source)
    /\ (Firm(call.target) \/ (EndsInText(call.target) /\ EndsInText(call.source))))
  => LET done   == call.answer
         chosen == Chosen(call.target, call.source, call.named)
     IN  /\ call.op = "replace" /\ Scans(done)
         /\ chosen \subseteq Diff(done, call.source).identical
         /\ RecordsIn(call.target) \ chosen \subseteq Diff(done, call.target).identical
         /\ \A i \in 0 .. Len(call.target) - 1 :
              i \notin RecordLines(call.target, chosen) =>
                LineAt(done, i) = LineAt(call.target, i)

(***************************************************************************)
(* Files.                                                                  *)
(***************************************************************************)
\* The words beside the file, if there are as many as the command takes.  The
\* command with an action (tx) has no options but those that are moved to the end.
Fitting(command, words) ==
  /\ Len(L!Operands(words)) \in command.counts
  /\ command.placement = "after-action" => \A i \in DOMAIN words : ~ L!IsOption(words[i])

\* A command that takes a varying number of words takes the first for its file
\* if it looks like one, or the value of an option does.
Mistakable(command, words) ==
  /\ command.placement # "option"
  /\ Len(L!Operands(words)) - 1 \in command.counts
  /\ L!HasExplicitFile(command, words)

\* positional_token takes the value of an option for the file that stands behind
\* it, and sees that it does not look like one.
Obscured(command, words, place) ==
  LET front == L!Positionals(SubSeq(words, 1, place))
  IN  command.placement = "first" /\ front # << >> /\ ~ L!LooksLikePath(front[1])

\* parse_cli tries the words as they are, and with the loaded path put in: a
\* command works on the file it names, and else on the loaded one, also if its
\* first word, or an option's value, is one that looks like a file.  Not if the
\* file it names does not look like one, or has a plain value of an option in
\* front of it (Obscured), nor if a word may be the file (Mistakable).
CommandsFindTheirFile ==
  (call.op = "file" /\ Fitting(call.command, call.words)) =>
    \/ call.named # L!NoFile /\ ~ L!LooksLikePath(call.named[1])
    \/ call.named # L!NoFile /\ Obscured(call.command, call.words, call.place)
    \/ call.named # L!NoFile /\ call.answer = call.named
    \/ call.named = L!NoFile /\ Mistakable(call.command, call.words)
    \/ call.named = L!NoFile /\ call.answer = call.loaded

(***************************************************************************)
(* The log.                                                                *)
(***************************************************************************)
\* A line of a set-str value that stands alone in the log and means something.
Disturbs(op) ==
  \E i \in 2 .. Len(W!LinesOf(W!EntryText(1, W!Body(op)) \o << W!Newline >>)) :
    W!LineRead(W!LinesOf(W!EntryText(1, W!Body(op)) \o << W!Newline >>)[i]).kind
      \in {"sep", "commit"}

\* Values a log entry can hold: no backslash before an n, none at the end of the
\* first of two, and for set-str no newline.
Loggable(op) ==
  /\ \A i \in DOMAIN op.values :
       LET v == op.values[i]
       IN  /\ \A k \in 1 .. Len(v) - 1 : v[k] = W!Backslash => v[k + 1] # W!Enn
           /\ op.kind = "set-str" => ~ Contains(v, W!Newline)
  /\ Len(op.values) = 2 /\ op.values[1] # << >> => Last(op.values[1]) # W!Backslash

\* serialize_body and deserialize_body: with pipes, empty values and newlines in
\* the values, an operation reads back under its number exactly if the log can
\* hold it; one that is lost takes no other with it, and no value makes the log
\* look committed, or not committed, unless a line of it means that.
LoggedEntriesReadBack ==
  (call.op = "log" /\ \A n \in DOMAIN call.batch : ~ Disturbs(call.batch[n])) =>
    /\ call.answer.committed = call.committed
    /\ \A n \in DOMAIN call.batch :
         Loggable(call.batch[n]) <=> W!Entry(n, call.batch[n]) \in call.answer.entries
=============================================================================
