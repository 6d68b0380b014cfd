---------------------------- MODULE WalSpelling ----------------------------
(***************************************************************************)
(* How an entry of the write-ahead log is spelled, and what its readers    *)
(* make of the text (wal.rs): WalFile takes lines for what they are, here  *)
(* they are cut out of the file first.  A character is a record; a name, a *)
(* number, `---` and COMMIT are one character each, and a checksum is what *)
(* it is a checksum of.  Leading and trailing space of a line is left out. *)
(***************************************************************************)
EXTENDS WalFile, SequencesExt

Char(c)   == [char |-> c]
Pipe      == Char("|")
Backslash == Char("backslash")
Enn       == Char("n")
Newline   == Char("newline")
Hash      == Char("#")
Dashes    == Char("---")
Commit    == Char("COMMIT")
Time      == Char("timestamp")
Number(n) == [seq |-> n]
Checksum(n, body) == [seq |-> n, body |-> body]

(***************************************************************************)
(* An operation: its kind, the section and index it is about, and the old  *)
(* and new values.                                                         *)
(***************************************************************************)
TwoValued == {"set-num", "set-str", "set-zone", "zone-replace"}
Kinds     == TwoValued \cup {"section-add", "section-remove"}
Names(kind)  == IF kind \in TwoValued THEN 2 ELSE 1
Values(kind) == IF kind \in TwoValued THEN 2 ELSE IF kind = "section-remove" THEN 1 ELSE 0

WellFormed(op) ==
  /\ op.kind \in Kinds
  /\ Len(op.names) = Names(op.kind)
  /\ Len(op.values) = Values(op.kind)

(***************************************************************************)
(* Writing.                                                                *)
(***************************************************************************)
Escape(text, c, as) ==
  FlattenSeq([i \in DOMAIN text |-> IF text[i] = c THEN as ELSE << text[i] >>])

\* set-str leaves a newline as it is, and nothing escapes a backslash.
Escaped(kind, value) ==
  LET piped == Escape(value, Pipe, << Backslash, Pipe >>)
  IN  CASE kind \in {"zone-replace", "section-remove"} ->
             Escape(piped, Newline, << Backslash, Enn >>)
        [] kind = "set-str" -> piped
        [] OTHER            -> value

\* WalOperation::serialize_body.
Body(op) ==
  << Char(op.kind) >>
    \o FlattenSeq([i \in DOMAIN op.names |-> << Pipe, Char(op.names[i]) >>])
    \o FlattenSeq([i \in DOMAIN op.values |-> << Pipe >> \o Escaped(op.kind, op.values[i])])

\* WalEntry::to_line.
EntryText(n, body) == << Number(n), Pipe, Time, Pipe >> \o body \o << Pipe, Checksum(n, body) >>

\* The log of a batch: write_header, an append for each operation, commit.
LogText(batch, committed) ==
  << Hash, Newline, Dashes, Newline >>
    \o FlattenSeq([n \in DOMAIN batch |-> EntryText(n, Body(batch[n])) \o << Newline >>])
    \o (IF committed THEN << Dashes, Newline, Commit, Pipe, Time, Newline >> ELSE << >>)

(***************************************************************************)
(* Reading.                                                                *)
(***************************************************************************)
NothingRead == [parts |-> << >>, part |-> << >>]

\* One character more; it ends the part, or belongs to it.
Read(at, c, ends) ==
  IF ends
  THEN [parts |-> Append(at.parts, at.part), part |-> << >>]
  ELSE [at EXCEPT !.part = Append(@, c)]

\* BufRead::lines, of a text that ends in a newline.
LinesOf(text) ==
  FoldLeft(LAMBDA at, c : Read(at, c, c = Newline), NothingRead, text).parts

\* A pipe ends a part, unless the part so far ends in a backslash.
EndsPart(part, c) == c = Pipe /\ (part = << >> \/ Last(part) # Backslash)

Cut(body) ==
  FoldLeft(LAMBDA at, c : Read(at, c, EndsPart(at.part, c)), NothingRead, body)

\* Mutant: an empty part behind the last pipe is forgotten.
PartsNonempty(body) ==
  LET at == Cut(body)
  IN  IF at.part # << >> THEN Append(at.parts, at.part) ELSE at.parts

Parts(body) ==
  LET at == Cut(body)
  IN  IF at.part # << >> \/ Last(body) = Pipe THEN Append(at.parts, at.part) ELSE at.parts

\* str::replace of a backslash and c.
Unescape(text, c, as) ==
  FlattenSeq([i \in DOMAIN text |->
    IF text[i] = Backslash /\ i < Len(text) /\ text[i + 1] = c THEN << >>
    ELSE IF text[i] = c /\ i > 1 /\ text[i - 1] = Backslash THEN << as >>
    ELSE << text[i] >>])

Unescaped(kind, part) ==
  IF kind \in {"set-str", "zone-replace", "section-remove"}
  THEN Unescape(Unescape(part, Pipe, Pipe), Enn, Newline)
  ELSE part

\* The kind of a body is its first part; parts beyond the last it needs are
\* not looked at.
BodyOf(body, kind) ==
  LET parts == Parts(body)
  IN  /\ parts[1] = << Char(kind) >>
      /\ Len(parts) >= 1 + Names(kind) + Values(kind)

\* WalOperation::deserialize_body.
ReadBody(body, kind) ==
  LET parts == Parts(body)
  IN  [kind   |-> kind,
       names  |-> [i \in 1 .. Names(kind) |-> parts[1 + i][1].char],
       values |-> [i \in 1 .. Values(kind) |->
                     Unescaped(kind, parts[1 + Names(kind) + i])]]

\* WalEntry::from_line: seq, time and body are what the checksum is of.
CanReadEntry(text) ==
  /\ text # << >>
  /\ LET sum == Last(text)
     IN  /\ "body" \in DOMAIN sum
         /\ text = EntryText(sum.seq, sum.body)
         /\ \E kind \in Kinds : BodyOf(sum.body, kind)

ReadEntry(text) ==
  LET sum  == Last(text)
      kind == CHOOSE k \in Kinds : BodyOf(sum.body, k)
  IN  Entry(sum.seq, ReadBody(sum.body, kind))

\* What a line of the file is to its readers.
LineRead(text) ==
  CASE text = << Dashes >>                   -> Separator
    [] text # << >> /\ text[1] = Commit      -> CommitMarker
    [] text # << >> /\ text[1] = Hash        -> Head0
    [] CanReadEntry(text)                    -> ReadEntry(text)
    [] OTHER -> [kind |-> "junk", ended |-> TRUE]

LogFile(text) == LET lines == LinesOf(text) IN [i \in DOMAIN lines |-> LineRead(lines[i])]
=============================================================================
