----------------------------- MODULE Spellings -----------------------------
(***************************************************************************)
(* How line numbers, zones, references and typed values are spelled:       *)
(* hex-words (zone_type.rs, ascii_store.rs), the words of convert          *)
(* (converter.rs, qol.rs), compact references (qol.rs) and registry values *)
(* (typed_value.rs).                                                       *)
(*                                                                         *)
(* A spelling is a sequence of characters: the digits 0 .. 15 and the      *)
(* codes below.                                                            *)
(***************************************************************************)
EXTENDS Integers, Sequences, FiniteSets, SequencesExt

X     == 16   \* the letter x
Space == 17
Nul   == 18
Else  == 19   \* a character that is none of these, and no digit

HexDigit == 0 .. 15
MaxLine  == 268435455   \* 0xFFFFFFF

FromHex(s) ==
  LET upTo[k \in 0 .. Len(s)] == IF k = 0 THEN 0 ELSE 16 * upTo[k - 1] + s[k]
  IN  upTo[Len(s)]

ToHex(n, width) ==
  LET shifted[k \in 0 .. width] == IF k = 0 THEN n ELSE shifted[k - 1] \div 16
  IN  [i \in 1 .. width |-> shifted[width - i] % 16]

AllHex(s) == \A i \in 1 .. Len(s) : s[i] \in HexDigit

(***************************************************************************)
(* Hex-words.                                                              *)
(***************************************************************************)
ZoneType == 0 .. 3
FromNibble(n) == IF n \in ZoneType THEN n ELSE 0

CanEncode(line)    == line <= MaxLine   \* or the assertion fails
Encode(line, type) == << type, X >> \o ToHex(line, 7)

\* As older documents spell it.
Legacy(line, type) == << 0, X, type >> \o ToHex(line, 7)

IsPrimary(w) == Len(w) = 9 /\ w[1] \in HexDigit /\ w[2] = X /\ AllHex(SubSeq(w, 3, 9))
IsLegacy(w)  == Len(w) = 10 /\ w[1] = 0 /\ w[2] = X /\ AllHex(SubSeq(w, 3, 10))
CanDecode(w) == IsPrimary(w) \/ IsLegacy(w) \/ w = << 0 >>

\* Mutant: the type of the older spelling is looked for where the newer has it.
DecodeFirstDigit(w) ==
  IF w = << 0 >> THEN [line |-> 0, type |-> 0]
  ELSE [line |-> FromHex(SubSeq(w, Len(w) - 6, Len(w))), type |-> FromNibble(w[1])]

Decode(w) ==
  IF w = << 0 >> THEN [line |-> 0, type |-> 0]
  ELSE [line |-> FromHex(SubSeq(w, Len(w) - 6, Len(w))),
        type |-> FromNibble(IF IsPrimary(w) THEN w[1] ELSE w[3])]

(***************************************************************************)
(* Hex-word lines: six words, three zones.  A zone has the type of its     *)
(* first word; no words at all are three empty zones.                      *)
(***************************************************************************)
CanParse(words) ==
  words = << >> \/ (Len(words) = 6 /\ \A i \in 1 .. 6 : CanDecode(words[i]))

FromLine(words) ==
  [z \in 0 .. 2 |->
     IF words = << >> THEN [start |-> 0, end |-> 0, type |-> 0]
     ELSE LET s == Decode(words[2 * z + 1])
          IN  [start |-> s.line, end |-> Decode(words[2 * z + 2]).line, type |-> s.type]]

ToLine(zones) ==
  [i \in 1 .. 6 |->
     LET zone == zones[(i - 1) \div 2]
     IN  Encode(IF i % 2 = 1 THEN zone.start ELSE zone.end, zone.type)]

(***************************************************************************)
(* The words of convert: numbers, types, the clipboard suffix.             *)
(***************************************************************************)
Number(n)  == [kind |-> "number", value |-> n]
TypeWord(t) == [kind |-> "type", value |-> t]
Clip       == [kind |-> "clip"]

CountOf(tokens, kind) == Cardinality({i \in 1 .. Len(tokens) : tokens[i].kind = kind})

CanConvert(tokens) ==
  /\ \A i \in 1 .. Len(tokens) :
       /\ tokens[i].kind \in {"number", "type", "clip"}
       /\ tokens[i].kind = "number" => tokens[i].value <= MaxLine
  /\ CountOf(tokens, "clip") <= 1
  /\ CountOf(tokens, "number") \in 1 .. 6

\* A type holds from where it stands on.
AfterToken(done, t) ==
  CASE t.kind = "type"   -> [done EXCEPT !.type = t.value]
    [] t.kind = "number" -> [done EXCEPT !.words = Append(@, Encode(t.value, done.type))]
    [] OTHER -> done

Converted(tokens, default) ==
  LET upTo[k \in 0 .. Len(tokens)] ==
        IF k = 0 THEN [type |-> default, words |-> << >>] ELSE AfterToken(upTo[k - 1], tokens[k])
  IN  upTo[Len(tokens)].words

CanAssign(tokens, default) ==
  /\ CanConvert(tokens)
  /\ LET w == Converted(tokens, default)
     IN  /\ Len(w) = 2
         /\ Decode(w[1]).type = Decode(w[2]).type
         /\ Decode(w[1]).line <= Decode(w[2]).line

Assigned(tokens, default) ==
  LET w == Converted(tokens, default)
  IN  [start |-> Decode(w[1]).line, end |-> Decode(w[2]).line, type |-> Decode(w[1]).type]

\* convert TOKENS to INDEX ZONE is checked with the type markdown, and becomes
\* index-zone-set-lines INDEX ZONE TOKENS, which parses the tokens again.
CanConvertTo(tokens, zone) == CanAssign(tokens, 0) /\ zone \in 1 .. 3
AssignTo(zones, tokens, zone) == [zones EXCEPT ![zone - 1] = Assigned(tokens, 0)]

(***************************************************************************)
(* Compact references: i64z1 is index:64:zone:1.  What follows the digits  *)
(* of the index is tried against these markers, in this order.             *)
(***************************************************************************)
Slotted ==
  << [marker |-> << "s" >>,      kind |-> "string",  max |-> 3],
     [marker |-> << "d", "b" >>, kind |-> "number",  max |-> 9],
     [marker |-> << "z", "h" >>, kind |-> "zonehex", max |-> 3],
     [marker |-> << "r", "h" >>, kind |-> "zonehex", max |-> 3],
     [marker |-> << "z" >>,      kind |-> "zone",    max |-> 3],
     [marker |-> << "r" >>,      kind |-> "zone",    max |-> 3] >>

Plain == {<< << "d", "b", "l" >>, "numbers" >>, << << "h", "l" >>, "hexline" >>,
          << << "h", "w", "l" >>, "hexline" >>, << << "r", "s" >>, "hexline" >>}

Decimal == {"0", "1", "3", "4", "9"}
DecimalWorth(d) == CASE d = "0" -> 0 [] d = "1" -> 1 [] d = "3" -> 3 [] d = "4" -> 4 [] d = "9" -> 9

\* parse::<usize> takes a plus and leading zeros.
AsSlot(s) == IF s # << >> /\ Head(s) = "+" THEN Tail(s) ELSE s
IsSlot(s) == AsSlot(s) # << >> /\ \A i \in 1 .. Len(AsSlot(s)) : AsSlot(s)[i] \in Decimal
SlotOf(s) == FoldLeft(LAMBDA n, d : 10 * n + DecimalWorth(d), 0, AsSlot(s))

Behind(marker, suffix) == SubSeq(suffix, Len(marker) + 1, Len(suffix))

\* Mutant: a marker is taken by its first letter.
FitsByLetter(m, suffix) ==
  /\ suffix # << >> /\ Head(suffix) = Head(m.marker)
  /\ IsSlot(Behind(m.marker, suffix)) /\ SlotOf(Behind(m.marker, suffix)) \in 1 .. m.max

Fits(m, suffix) ==
  /\ IsPrefix(m.marker, suffix)
  /\ IsSlot(Behind(m.marker, suffix)) /\ SlotOf(Behind(m.marker, suffix)) \in 1 .. m.max

\* Every reading of what follows the index.
Readings(suffix) ==
  {[kind |-> Slotted[i].kind, slot |-> SlotOf(Behind(Slotted[i].marker, suffix))] :
     i \in {j \in DOMAIN Slotted : Fits(Slotted[j], suffix)}}
  \cup {[kind |-> p[2], slot |-> 0] : p \in {q \in Plain : q[1] = suffix}}
  \cup (IF suffix = << >> THEN {[kind |-> "index", slot |-> 0]} ELSE {})

(***************************************************************************)
(* Registry values.                                                        *)
(***************************************************************************)
Joined(parts, glue) ==
  FoldLeft(LAMBDA s, i : s \o (IF i = 1 THEN << >> ELSE glue) \o parts[i], << >>,
           [i \in 1 .. Len(parts) |-> i])

SplitAt(s, c) ==
  FoldLeft(LAMBDA parts, x :
             IF x = c THEN Append(parts, << >>)
             ELSE [parts EXCEPT ![Len(parts)] = Append(@, x)],
           << << >> >>, s)

Pieces(s) == SelectSeq(SplitAt(s, Space), LAMBDA p : p # << >>)

\* Every 0x a piece begins with goes.
Bare0x(p) ==
  LET n == CHOOSE k \in 0 .. Len(p) \div 2 :
             /\ \A i \in 1 .. k : p[2 * i - 1] = 0 /\ p[2 * i] = X
             /\ ~ (2 * k + 2 <= Len(p) /\ p[2 * k + 1] = 0 /\ p[2 * k + 2] = X)
  IN  SubSeq(p, 2 * n + 1, Len(p))

IsByte(p) == p # << >> /\ AllHex(p) /\ FromHex(p) < 256

Begins0x(s) == Len(s) >= 2 /\ s[1] = 0 /\ s[2] = X
HexOnly(s)  == SelectSeq(s, LAMBDA c : c \in HexDigit)

Trim(s) ==
  LET ink == {i \in DOMAIN s : s[i] # Space}
  IN  IF ink = {} THEN << >> ELSE SubSeq(s, Min(ink), Max(ink))

\* parse_hex_string: bytes one by one, or a run of digits in which anything
\* else is passed over.
Binary(raw) ==
  LET s  == Trim(raw)
      ps == IF Begins0x(s) THEN [i \in DOMAIN Pieces(s) |-> Bare0x(Pieces(s)[i])] ELSE Pieces(s)
      d  == HexOnly(s)
  IN  IF Begins0x(s) \/ Contains(s, Space)
      THEN [ok |-> \A i \in DOMAIN ps : IsByte(ps[i]), bytes |-> ps]
      ELSE  [ok |-> Len(d) % 2 = 0,
            bytes |-> [i \in 1 .. Len(d) \div 2 |-> << d[2 * i - 1], d[2 * i] >>]]

ToStore(v) ==
  CASE v.type = "binary"  -> Joined([i \in 1 .. Len(v.value) |-> << 0, X >> \o ToHex(v.value[i], 2)], << Space >>)
    [] v.type = "multisz" -> Joined(v.value, << Nul >>)
    [] v.type = "text"    -> v.value

CanRestore(s, type) == type = "binary" => Binary(s).ok

\* Mutant: empty strings of a list are dropped.
FromStoreNoEmpty(s, type) ==
  CASE type = "binary"  -> [i \in DOMAIN Binary(s).bytes |-> FromHex(Binary(s).bytes[i])]
    [] type = "multisz" -> SelectSeq(SplitAt(s, Nul), LAMBDA p : p # << >>)
    [] type = "text"    -> s

FromStore(s, type) ==
  CASE type = "binary"  -> [i \in DOMAIN Binary(s).bytes |-> FromHex(Binary(s).bytes[i])]
    [] type = "multisz" -> SplitAt(s, Nul)
    [] type = "text"    -> s
=============================================================================
