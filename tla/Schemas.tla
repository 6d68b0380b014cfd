------------------------------ MODULE Schemas ------------------------------
(***************************************************************************)
(* Schemas (schema.rs, cmd_schema of main.rs): the lines of a .schema      *)
(* file, the fields read from them, and what a document is told.           *)
(*                                                                         *)
(* A line is cut at its colons, a list at its commas.  A value is a record *)
(* that says what the type checks can tell of it.                          *)
(***************************************************************************)
EXTENDS Integers, Sequences, SequencesExt

(***************************************************************************)
(* Values and types.                                                       *)
(***************************************************************************)
\* text: its letters; int: {n} if it parses as a 64-bit integer, {} if not.
Plainly(t)     == [text |-> t, int |-> {}, decimal |-> FALSE, bool |-> FALSE, hex |-> FALSE]
Integer(t, n)  == [Plainly(t) EXCEPT !.int = {n}, !.decimal = TRUE, !.bool = n \in {0, 1}]
Fixed(t)       == [Plainly(t) EXCEPT !.decimal = TRUE]

Accepts(type, v) ==
  CASE type.name \in {"string", "array"} -> TRUE
    [] type.name = "integer" -> v.int # {}
    [] type.name = "decimal" -> v.decimal
    [] type.name = "boolean" -> v.bool
    [] type.name = "path"    -> v.text # ""
    [] type.name = "hex"     -> v.hex
    [] type.name = "enum"    -> v.text \in type.allowed

Type(name)    == [name |-> name, allowed |-> {}]
Enum(allowed) == [name |-> "enum", allowed |-> allowed]
OneOf(allowed) == [kind |-> "one_of", allowed |-> allowed]
InRange(a, b)  == [kind |-> "range", from |-> a, to |-> b]
Constraint(k)  == [kind |-> k]

TypeNames == {"string", "integer", "decimal", "boolean", "path", "array", "hex"}

(***************************************************************************)
(* Lines.                                                                  *)
(***************************************************************************)
Separator  == [kind |-> "separator"]
Skipped    == [kind |-> "skip"]   \* blank, or a comment
SectionLine(n) == [kind |-> "section", name |-> n]

\* The second part of a line is a type, the third, if there is one, a
\* constraint; OneOf as a type is an enum with its values inline.
FieldLine(n, type, c) == [kind |-> "field", name |-> n, type |-> type, constraint |-> c]

\* from_name looks at the constraint for "choice", and never gets as far for
\* "enum": parse_field_line hands it the type itself, in which there are no
\* values.
CanParseField(line) ==
  \/ line.type.kind = "one_of" \/ line.type.kind \in TypeNames \cup {"enum"}
  \/ line.type.kind = "choice" /\ line.constraint # Constraint("none")

ParsedType(line) ==
  CASE line.type.kind = "one_of" -> Enum(line.type.allowed)
    [] line.type.kind = "enum"   -> Enum({})
    [] line.type.kind = "choice" ->
         Enum(IF line.constraint.kind = "one_of" THEN line.constraint.allowed ELSE {})
    [] OTHER -> Type(line.type.kind)

\* A constraint with a colon in it arrives without its closing bracket.
ParsedConstraint(c) ==
  IF c.kind \in {"default", "pattern"} /\ c.colon THEN Constraint("none") ELSE c

Field(line) == [type |-> ParsedType(line), constraint |-> ParsedConstraint(line.constraint)]

Empty0 == [n \in {} |-> {}]
With(f, x, y) == [n \in DOMAIN f \cup {x} |-> IF n = x THEN y ELSE f[n]]

\* Every --- turns the body on or off; a section named again starts over; a
\* field that does not parse is passed over.
ReadLine(state, line) ==
  CASE line.kind = "separator" -> [state EXCEPT !.body = ~ @]
    [] ~ state.body \/ line.kind = "skip" -> state
    [] line.kind = "section" ->
         [state EXCEPT !.current = << line.name >>,
                       !.schema = With(@, line.name, Empty0)]
    [] line.kind = "field" ->
         IF state.current = << >> \/ ~ CanParseField(line) THEN state
         ELSE [state EXCEPT !.schema[state.current[1]] = With(@, line.name, Field(line))]
    [] OTHER -> state

\* Mutant: the body is on from the start.
ParseAlways(lines) ==
  FoldLeft(ReadLine, [body |-> TRUE, current |-> << >>, schema |-> Empty0], lines).schema

Parse(lines) ==
  FoldLeft(ReadLine, [body |-> FALSE, current |-> << >>, schema |-> Empty0], lines).schema

\* save: sections and fields in the order of their names.
SaveField(n, f) == FieldLine(n, [kind |-> f.type.name], f.constraint)

Save(schema, names) ==
  LET fields(s) == SelectSeq(names, LAMBDA n : n \in DOMAIN schema[s])
      block(s)  == << SectionLine(s) >>
                     \o [i \in DOMAIN fields(s) |-> SaveField(fields(s)[i], schema[s][fields(s)[i]])]
  IN  << Skipped, Separator >>
        \o FlattenSeq([i \in DOMAIN SelectSeq(names, LAMBDA n : n \in DOMAIN schema) |->
                         block(SelectSeq(names, LAMBDA n : n \in DOMAIN schema)[i])])
        \o << Separator >>

(***************************************************************************)
(* Validating.                                                             *)
(***************************************************************************)
\* A range binds integers only; defaults and patterns bind nothing.
Complaints(field, v) ==
  {e \in {"one_of", "range", "type"} :
     \/ e = "one_of" /\ field.constraint.kind = "one_of"
        /\ v.text \notin field.constraint.allowed
     \/ e = "range" /\ field.constraint.kind = "range"
        /\ \E n \in v.int : n < field.constraint.from \/ n > field.constraint.to
     \/ e = "type" /\ ~ Accepts(field.type, v)}

\* Mutant: unknown names are accepted.
ErrorsOfKnown(section, values) ==
  {<< n, "missing" >> : n \in {m \in DOMAIN section :
     section[m].constraint.kind = "required" /\ m \notin DOMAIN values}}
  \cup UNION {{<< n, e >> : e \in Complaints(section[n], values[n])} :
                n \in DOMAIN values \cap DOMAIN section}

Errors(section, values) ==
  {<< n, "missing" >> : n \in {m \in DOMAIN section :
     section[m].constraint.kind = "required" /\ m \notin DOMAIN values}}
  \cup {<< n, "unknown" >> : n \in DOMAIN values \ DOMAIN section}
  \cup UNION {{<< n, e >> : e \in Complaints(section[n], values[n])} :
                n \in DOMAIN values \cap DOMAIN section}

(***************************************************************************)
(* schema --init and --validate.  A record of the document is its numeric  *)
(* line cut at the separators, and its strings.                            *)
(***************************************************************************)
Nums == << "num_0", "num_1", "num_2", "num_3", "num_4", "num_5", "num_6",
           "num_7", "num_8", "num_9" >>
Strs == << "str_0", "str_1", "str_2" >>

StarterSection ==
  [n \in ToSet(SubSeq(Nums, 1, 9)) \cup ToSet(Strs) |->
     [type |-> Type(IF n \in ToSet(Strs) THEN "string" ELSE "decimal"),
      constraint |-> Constraint("none")]]

Starter(document) == [r \in DOMAIN document |-> StarterSection]

ValuesOf(record) ==
  [n \in ToSet(SubSeq(Nums, 1, Len(record.cells))) \cup ToSet(Strs) |->
     IF n \in ToSet(Strs) THEN record.strings[CHOOSE i \in 1 .. 3 : Strs[i] = n]
     ELSE record.cells[CHOOSE i \in 1 .. Len(record.cells) : Nums[i] = n]]

\* A section without a record is only mentioned.
TotalErrors(schema, document) ==
  UNION {{<< r, e >> : e \in Errors(schema[r], ValuesOf(document[r]))} :
           r \in DOMAIN schema \cap DOMAIN document}

\* parse_numeric_line, which every scan starts with.
NumbersParse(record) ==
  Len(record.cells) = 9 /\ \A i \in 1 .. 9 : record.cells[i].decimal
=============================================================================
