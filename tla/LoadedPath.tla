----------------------------- MODULE LoadedPath -----------------------------
(***************************************************************************)
(* The document a short command works on (qol.rs, parse_cli of main.rs):   *)
(* the one it names, or the one `rgd load` has noted.                      *)
(*                                                                         *)
(* A word of the command line is [kind, name]: an existing file, something *)
(* that looks like a path, a plain word, an option, or an option with a    *)
(* value (a setting), which is the word behind it.  A command is           *)
(* [placement, counts]: where its file goes, and how many words it can     *)
(* have beside it.  The types of the words are left out, and so is which   *)
(* options a command has, and needs.                                       *)
(***************************************************************************)
EXTENDS Integers, Sequences, FiniteSets, SequencesExt

NoFile == << >>

TakesValue(w)    == w.kind \in {"setting", "file-option"}
IsOption(w)      == w.kind = "option" \/ TakesValue(w)
LooksLikePath(w) == w.kind \in {"file", "path"}
Positionals(ws)  == SelectSeq(ws, LAMBDA w : ~ IsOption(w))

FileOption == [kind |-> "file-option", name |-> "--file"]

HasExplicitFile(command, ws) ==
  LET ps == Positionals(ws)
  IN  CASE command.placement = "first"        -> Len(ps) >= 1 /\ LooksLikePath(ps[1])
        [] command.placement = "after-action" -> Len(ps) >= 2 /\ LooksLikePath(ps[2])
        [] command.placement = "option"       -> FileOption \in ToSet(ws)

(***************************************************************************)
(* What the parser of the command line accepts.                            *)
(***************************************************************************)
IsValue(ws, i) == i > 1 /\ TakesValue(ws[i - 1])

\* The words that are no options, and no values of options.  positional_token
\* counts the values.
Operands(ws) ==
  LET own == SelectSeq([i \in DOMAIN ws |-> i],
                       LAMBDA i : ~ IsOption(ws[i]) /\ ~ IsValue(ws, i))
  IN  [n \in DOMAIN own |-> ws[own[n]]]

\* The file is taken from its place, an option's from behind the option.
FileIn(command, ws) ==
  LET ps == Operands(ws)
  IN  CASE command.placement = "first"        -> ps[1]
        [] command.placement = "after-action" -> ps[2]
        [] command.placement = "option"       ->
             ws[1 + CHOOSE i \in DOMAIN ws : ws[i] = FileOption]

FileOptions(ws) == {i \in DOMAIN ws : ws[i] = FileOption}

Parses(command, ws) ==
  /\ Len(Operands(ws)) - (IF command.placement = "option" THEN 0 ELSE 1) \in command.counts
  /\ command.placement = "option" => Cardinality(FileOptions(ws)) = 1
  /\ \A i \in DOMAIN ws : TakesValue(ws[i]) => i < Len(ws) /\ ~ IsOption(ws[i + 1])

\* inject_loaded_file, which parse_cli calls with force: whatever the command
\* seems to name.  Vec::insert panics if there is no action to go behind.
CanInject(command, ws) == command.placement = "after-action" => ws # << >>

Injected(command, ws, loaded) ==
  CASE command.placement = "first"        -> << loaded >> \o ws
    [] command.placement = "after-action" -> InsertAt(ws, 2, loaded)
    [] command.placement = "option"       -> << FileOption, loaded >> \o ws

Tried(command, ws, file) ==
  CanInject(command, ws) /\ Parses(command, Injected(command, ws, file))

\* Mutant: what looks like a file is not tried as anything else.
FileActedOnAtOnce(command, ws, loaded) ==
  IF HasExplicitFile(command, ws)
  THEN IF Parses(command, ws) THEN << FileIn(command, ws) >> ELSE NoFile
  ELSE IF loaded # NoFile /\ Tried(command, ws, loaded[1])
  THEN << FileIn(command, Injected(command, ws, loaded[1])) >>
  ELSE NoFile

\* The file the command works on; NoFile if it is refused.
FileActedOn(command, ws, loaded) ==
  IF HasExplicitFile(command, ws) /\ Parses(command, ws)
  THEN << FileIn(command, ws) >>
  ELSE IF loaded # NoFile /\ Tried(command, ws, loaded[1])
  THEN << FileIn(command, Injected(command, ws, loaded[1])) >>
  ELSE NoFile
=============================================================================
