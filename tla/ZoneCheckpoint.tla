--------------------------- MODULE ZoneCheckpoint ---------------------------
(***************************************************************************)
(* commit, check and pull (zone_checkpoint.rs, main.rs): where the zones   *)
(* of a document have gone while it was edited with other programs.        *)
(*                                                                         *)
(* Three files stand beside the document: its .undo copy, the checkpoint   *)
(* with a fingerprint of every zone, and the diff, which proposes new      *)
(* coordinates.  A command reads and writes them one after the other; an   *)
(* editor may save the document, and the command may die, in between.      *)
(* Checksums stand for what they are taken of: they do not collide.        *)
(***************************************************************************)
EXTENDS Reading, FiniteSets

CONSTANTS
  FingerprintLines,  \* FINGERPRINT_LINES; 4 in the code
  Layouts,           \* the documents a session may start from
  Edits,             \* what an editor may do: << from, to, new lines >>
  HandPairs,         \* pairs a user types over a zone's: << record, slot, pair >>
  MaxCommands, MaxEdits, MaxCrashes   \* bounds on a session

ASSUME CheckpointAssumption ==
  /\ FingerprintLines \in Nat \ {0}
  /\ \A c \in Layouts : c \in Content
  /\ \A e \in Edits : e[1] \in Nat /\ e[2] \in Nat \cup {-1} /\ e[3] \in Seq(Line)
  /\ \A e \in HandPairs : e[1] \in Rec /\ e[2] \in ZoneIdx /\ e[3] \in ZonePair
  /\ MaxCommands \in Nat /\ MaxEdits \in Nat /\ MaxCrashes \in Nat

VARIABLES
  doc,         \* the document
  undo,        \* its .undo copy
  checkpoint,  \* <document>.rgd-state.json: zones to fingerprints
  diff,        \* the proposal in the temporary directory
  job,         \* the command in progress
  counts,      \* commands, edits and crashes so far
  overlap      \* history: the document was saved while a command ran

vars == << doc, undo, checkpoint, diff, job, counts, overlap >>

Key == Rec \X ZoneIdx

\* A file that may be missing is << >> or << its content >>.
Missing == << >>

(***************************************************************************)
(* Fingerprints.                                                           *)
(***************************************************************************)
Least(m, n) == IF m < n THEN m ELSE n

\* Lines from..to, as far as there are such lines.
Slice(ls, from, to) ==
  SubSeq(ls, (IF from < 0 THEN 0 ELSE from) + 1, Least(to + 1, Len(ls)))

\* Mutant: the last line of the zone is left out.
FingerprintOneShort(c, p) ==
  LET ls == Lines(c)
  IN  [pair |-> p, text |-> Slice(ls, p.start, p.end - 1),
       leading  |-> Slice(ls, p.start, p.start), trailing |-> Slice(ls, p.end, p.end),
       before   |-> Slice(ls, p.start - FingerprintLines, p.start - 1),
       after    |-> Slice(ls, p.end + 1, p.end + FingerprintLines)]

Fingerprint(c, p) ==
  LET ls == Lines(c)
      n  == Least(FingerprintLines, p.end - p.start + 1)
  IN  [pair     |-> p,
       text     |-> Slice(ls, p.start, p.end),
       leading  |-> Slice(ls, p.start, p.start + n - 1),
       trailing |-> Slice(ls, p.end - n + 1, p.end),
       before   |-> Slice(ls, p.start - FingerprintLines, p.start - 1),
       after    |-> Slice(ls, p.end + 1, p.end + FingerprintLines)]

Active(c) == {k \in Key : Readable(c, k[1]) /\ ZoneAt(c, k[1], k[2]) # NoZone}

\* build_checkpoint: one zone outside the file refuses the whole checkpoint.
CanBuild(c) ==
  /\ Scans(c)
  /\ \A k \in Active(c) :
       LET p == ZoneAt(c, k[1], k[2])
       IN  p.start <= p.end /\ p.end < Len(Lines(c))

Build(c) == [k \in Active(c) |-> Fingerprint(c, ZoneAt(c, k[1], k[2]))]

\* Mutant: every zone gets a new fingerprint.
PreservingNothing(c, old, unresolved) == Build(c)

\* save_checkpoint_preserving: what could not be resolved keeps what it had.
Preserving(c, old, unresolved) ==
  LET new  == Build(c)
      kept == unresolved \cap DOMAIN old
  IN  [k \in (DOMAIN new \ unresolved) \cup kept |-> IF k \in kept THEN old[k] ELSE new[k]]

(***************************************************************************)
(* locate_zone.                                                            *)
(***************************************************************************)
Positions(ls, part) ==
  IF part = << >> THEN {}
  ELSE {i \in 0 .. Len(ls) - Len(part) : SubSeq(ls, i + 1, i + Len(part)) = part}

Pairs(starts, ends) ==
  {p \in [start : starts, end : ends] : p.start <= p.end}

Exact(ls, fp) ==
  {p \in {[start |-> s, end |-> s + Len(fp.text) - 1] : s \in Positions(ls, fp.leading)} :
     /\ p.end < Len(ls)
     /\ Slice(ls, p.end - Len(fp.trailing) + 1, p.end) = fp.trailing
     /\ Slice(ls, p.start, p.end) = fp.text}

InContext(ls, fp) ==
  IF fp.before = << >> \/ fp.after = << >> THEN {}
  ELSE Pairs({i + Len(fp.before) : i \in Positions(ls, fp.before)},
             {i - 1 : i \in Positions(ls, fp.after) \ {0}})

Bounded(ls, fp) ==
  Pairs(Positions(ls, fp.leading),
        {i + Len(fp.trailing) - 1 : i \in Positions(ls, fp.trailing)})

Single(S) == Cardinality(S) = 1
The(S)    == CHOOSE x \in S : TRUE

\* Mutant: the surroundings are looked for before the content.
LocatedByContextFirst(ls, fp) ==
  IF Single(InContext(ls, fp))
  THEN [method |-> "boundary-context", pair |-> The(InContext(ls, fp))]
  ELSE IF Single(Exact(ls, fp))
  THEN [method |-> "exact-content", pair |-> The(Exact(ls, fp))]
  ELSE [method |-> "none", pair |-> NoZone]

\* The first of the three searches that finds one place only.
Located(ls, fp) ==
  IF Single(Exact(ls, fp))
  THEN [method |-> "exact-content", pair |-> The(Exact(ls, fp))]
  ELSE IF Single(InContext(ls, fp))
  THEN [method |-> "boundary-context", pair |-> The(InContext(ls, fp))]
  ELSE IF Single(Bounded(ls, fp))
  THEN [method |-> "zone-boundaries", pair |-> The(Bounded(ls, fp))]
  ELSE [method |-> "none", pair |-> NoZone]

(***************************************************************************)
(* check: what becomes of a zone of the checkpoint.                        *)
(***************************************************************************)
Verdict(c, k, fp) ==
  LET here  == LineAt(c, AsciiLine(c, k[1]))
      p     == ZoneAt(c, k[1], k[2])
      found == Located(Lines(c), fp)
  IN  IF ~ Readable(c, k[1]) THEN "manual"
      ELSE IF here.kind # "hex" THEN "unresolved"
      ELSE IF p # fp.pair THEN "manual"
      ELSE IF p.start <= p.end /\ p.end < Len(Lines(c))
              /\ Slice(Lines(c), p.start, p.end) = fp.text THEN "kept"
      ELSE IF found.method = "none" THEN "unresolved"
      ELSE IF found.pair = p THEN "changed"
      ELSE "moved"

Diff(c, saved) ==
  LET those(v) == {k \in DOMAIN saved : Verdict(c, k, saved[k]) = v}
  IN  [base       |-> c,
       updates    |-> [k \in those("moved") |->
                         [to       |-> Located(Lines(c), saved[k]),
                          expected |-> saved[k].pair]],
       manual     |-> those("manual"),
       unresolved |-> those("unresolved"),
       changed    |-> those("changed")]

(***************************************************************************)
(* apply_diff.                                                             *)
(***************************************************************************)

\* Mutant: the document may have changed since the check.
CanApplyUnguarded(c, d) ==
  /\ Scans(c)
  /\ \A k \in DOMAIN d.updates : Readable(c, k[1]) /\ LineAt(c, AsciiLine(c, k[1])).kind = "hex"

CanApply(c, d) ==
  /\ c = d.base
  /\ Scans(c)
  /\ \A k \in DOMAIN d.updates :
       /\ Readable(c, k[1])
       /\ LineAt(c, AsciiLine(c, k[1])).kind = "hex"
       /\ ZoneAt(c, k[1], k[2]) = d.updates[k].expected

Applied(c, d) ==
  LET touched == {AsciiLine(c, k[1]) : k \in DOMAIN d.updates}
      words(a) == [z \in ZoneIdx |->
                     LET here == {k \in DOMAIN d.updates : AsciiLine(c, k[1]) = a /\ k[2] = z}
                     IN  IF here = {} THEN ZonesIn(LineAt(c, a))[z]
                         ELSE d.updates[The(here)].to.pair]
  IN  UpdateLines(c, touched, [a \in touched |-> HexLine(words(a))])

(***************************************************************************)
(* Commands.  A job goes through the phases                                *)
(*   pulling -> applied -> written -> clearing or rechecking               *)
(* for a pull, and from idle to clearing for a commit that needs none.     *)
(***************************************************************************)
Idle == [phase |-> "idle"]
Job(phase, d) == [phase |-> phase, diff |-> d, new |-> << Blank >>]

Counted(what) == counts' = [counts EXCEPT ![what] = @ + 1]

Begins == job.phase = "idle" /\ counts.commands < MaxCommands /\ Counted("commands")

\* The first commit: save_checkpoint.
CommitFirst ==
  /\ Begins
  /\ checkpoint = Missing /\ CanBuild(doc)
  /\ checkpoint' = << Build(doc) >>
  /\ UNCHANGED << doc, undo, diff, job, overlap >>

\* check writes its diff, also an empty one.
Check ==
  /\ Begins
  /\ checkpoint # Missing /\ Scans(doc)
  /\ diff' = << Diff(doc, checkpoint[1]) >>
  /\ UNCHANGED << doc, undo, checkpoint, job, overlap >>

\* A later commit checks first; accept is --pull, or yes to the question.
Commit(accept) ==
  LET d == Diff(doc, checkpoint[1])
  IN  /\ Begins
      /\ checkpoint # Missing /\ Scans(doc)
      /\ diff' = << d >>
      /\ job' = IF DOMAIN d.updates # {} /\ accept THEN Job("pulling", d)
                ELSE IF DOMAIN d.updates = {} /\ d.unresolved = {} THEN Job("written", d)
                ELSE Idle
      /\ UNCHANGED << doc, undo, checkpoint, overlap >>

Pull ==
  /\ Begins
  /\ diff # Missing /\ DOMAIN diff[1].updates # {}
  /\ job' = Job("pulling", diff[1])
  /\ UNCHANGED << doc, undo, checkpoint, diff, overlap >>

\* apply_diff reads the document and compares checksum and literals.
Apply ==
  /\ job.phase = "pulling"
  /\ job' = IF CanApply(doc, job.diff)
            THEN [job EXCEPT !.phase = "applied", !.new = Applied(doc, job.diff)]
            ELSE Idle
  /\ UNCHANGED << doc, undo, checkpoint, diff, counts, overlap >>

WritePulled ==
  /\ job.phase = "applied"
  /\ undo' = doc
  /\ doc' = job.new
  /\ job' = [job EXCEPT !.phase = "written"]
  /\ UNCHANGED << checkpoint, diff, counts, overlap >>

\* save_checkpoint or save_checkpoint_preserving; both read the file again.
SaveCheckpoint ==
  /\ job.phase = "written" /\ CanBuild(doc)
  /\ checkpoint' = << Preserving(doc, checkpoint[1], job.diff.unresolved) >>
  /\ job' = [job EXCEPT !.phase = IF job.diff.unresolved = {} THEN "clearing" ELSE "rechecking"]
  /\ UNCHANGED << doc, undo, diff, counts, overlap >>

SaveFails ==
  /\ job.phase = "written" /\ ~ CanBuild(doc)
  /\ job' = Idle
  /\ UNCHANGED << doc, undo, checkpoint, diff, counts, overlap >>

ClearDiff ==
  /\ job.phase = "clearing"
  /\ diff' = Missing
  /\ job' = Idle
  /\ UNCHANGED << doc, undo, checkpoint, counts, overlap >>

\* Mutant: the diff that was pulled stays pending.
KeepDiff ==
  /\ job.phase = "rechecking"
  /\ job' = Idle
  /\ UNCHANGED << doc, undo, checkpoint, diff, counts, overlap >>

Recheck ==
  /\ job.phase = "rechecking"
  /\ diff' = IF Scans(doc) THEN << Diff(doc, checkpoint[1]) >> ELSE diff
  /\ job' = Idle
  /\ UNCHANGED << doc, undo, checkpoint, counts, overlap >>

Crash ==
  /\ job.phase # "idle" /\ counts.crashes < MaxCrashes
  /\ job' = Idle
  /\ Counted("crashes")
  /\ UNCHANGED << doc, undo, checkpoint, diff, overlap >>

\* The user's own changes, at any moment: lines, coordinates, undo.
Saves(new) ==
  /\ counts.edits < MaxEdits /\ Counted("edits")
  /\ doc' = new /\ doc' # doc
  /\ overlap' = (overlap \/ job.phase # "idle")
  /\ UNCHANGED << undo, checkpoint, diff, job >>

Edit == \E e \in Edits : Saves(Splice(doc, e[1], e[2], e[3]))

RetypePair ==
  \E e \in HandPairs :
    LET a == AsciiLine(doc, e[1])
    IN  /\ Readable(doc, e[1]) /\ LineAt(doc, a).kind = "hex"
        /\ Saves(UpdateLine(doc, a, HexLine([LineAt(doc, a).zones EXCEPT ![e[2]] = e[3]])))

UserUndo == Saves(undo)

Init ==
  /\ doc \in Layouts /\ undo = doc
  /\ checkpoint = Missing /\ diff = Missing
  /\ job = Idle /\ overlap = FALSE
  /\ counts = [commands |-> 0, edits |-> 0, crashes |-> 0]

Next ==
  \/ CommitFirst \/ Check \/ (\E accept \in BOOLEAN : Commit(accept)) \/ Pull
  \/ Apply \/ WritePulled \/ SaveCheckpoint \/ SaveFails \/ ClearDiff \/ Recheck
  \/ Crash
  \/ Edit \/ RetypePair \/ UserUndo

Spec == Init /\ [][Next]_vars

(***************************************************************************)
(* Properties.                                                             *)
(***************************************************************************)
Places(ls, text) ==
  {[start |-> i, end |-> i + Len(text) - 1] : i \in Positions(ls, text)}

ReadsText(c, p, text) == Slice(Lines(c), p.start, p.end) = text

\* A zone over index records: a pull rewrites the hex-words in it.
PlainText(text) == \A i \in 1 .. Len(text) : text[i].kind # "hex"

\* A zone of one line that is found on line 0 becomes 0 : 0, the empty zone.
MovesByContent(update) ==
  update.to.method = "exact-content" /\ update.to.pair # NoZone

FingerprintType ==
  [pair : ZonePair, text : Seq(Line), leading : Seq(Line), trailing : Seq(Line),
   before : Seq(Line), after : Seq(Line)]

\* The document and its copy are texts; a checkpoint holds fingerprints of zones
\* with as many lines as their pair names; a diff accounts for every zone at
\* most once.
TypeOK ==
  /\ doc \in Content /\ undo \in Content
  /\ checkpoint # Missing =>
       \A k \in DOMAIN checkpoint[1] :
         /\ k \in Key /\ checkpoint[1][k] \in FingerprintType
         /\ Len(checkpoint[1][k].text) = checkpoint[1][k].pair.end - checkpoint[1][k].pair.start + 1
  /\ diff # Missing =>
       /\ diff[1].base \in Content
       /\ \A s, t \in {DOMAIN diff[1].updates, diff[1].manual, diff[1].unresolved, diff[1].changed} :
            s # t => s \cap t = {}
  /\ job.phase \in {"idle", "pulling", "applied", "written", "clearing", "rechecking"}

\* Text that stands in the document exactly once is found: whatever moved it and
\* whatever changed around it, check leaves such a zone where it is or proposes
\* that very place (locate_zone from four lines at either end and a checksum,
\* against comparing the whole text everywhere).
UniqueTextIsFound ==
  checkpoint # Missing /\ Scans(doc) =>
    \A k \in DOMAIN checkpoint[1] :
      LET fp == checkpoint[1][k]
          v  == Verdict(doc, k, fp)
          there == Places(Lines(doc), fp.text)
      IN  Single(there) /\ v # "manual" /\ LineAt(doc, AsciiLine(doc, k[1])).kind = "hex" =>
            \/ v = "kept" /\ fp.pair \in there
            \/ v = "moved" /\ Located(Lines(doc), fp).pair \in there

\* join and lines(): each rewrite takes an empty line off the end of the file.
EndsEmpty(c) == Lines(c) # << >> /\ Lines(c)[Len(Lines(c))] = Blank

\* The checkpoint already is that of c, what is unresolved aside: a pull was made
\* before it, died behind its checkpoint, and was undone.
AlreadyCommitted(c, saved, unresolved) ==
  CanBuild(c) /\ saved = Preserving(c, saved, unresolved)

\* What a pull writes differs from the document it found in coordinates only (and
\* in the empty line at its end), and only in those of zones that no longer read
\* what was committed and were not retyped since; a zone located by its content
\* reads it again (apply_diff, after edits, undos, crashes and checks).
PullsMoveLostZonesOnly ==
  [][job.phase = "applied" /\ job'.phase = "written" /\ ~ overlap =>
       /\ Len(Lines(doc')) = Len(Lines(doc)) - (IF EndsEmpty(doc) THEN 1 ELSE 0)
       /\ \A i \in 1 .. Len(Lines(doc')) :
            Lines(doc')[i] # Lines(doc)[i] =>
              \E k \in DOMAIN job.diff.updates : AsciiLine(doc, k[1]) = i - 1
       /\ \/ AlreadyCommitted(doc', checkpoint[1], job.diff.unresolved)
          \/ \A k \in Key :
               Readable(doc, k[1]) /\ ZoneAt(doc', k[1], k[2]) # ZoneAt(doc, k[1], k[2]) =>
                 /\ k \in DOMAIN checkpoint[1]
                 /\ checkpoint[1][k].pair = ZoneAt(doc, k[1], k[2])
                 /\ ~ ReadsText(doc, ZoneAt(doc, k[1], k[2]), checkpoint[1][k].text)
                 /\ /\ MovesByContent(job.diff.updates[k])
                    /\ PlainText(checkpoint[1][k].text)
                    /\ ZoneAt(doc', k[1], k[2]).end < Len(Lines(doc'))
                    => ReadsText(doc', ZoneAt(doc', k[1], k[2]), checkpoint[1][k].text)]_vars

\* When the checkpoint advances, the text on record for a zone stays what it was,
\* through any number of pulls, unless check called the zone retyped or changed
\* or found it by its surroundings, or its record has lost its empty third string
\* at the end of the file: a relocation never makes other text the committed one
\* (save_checkpoint, save_checkpoint_preserving).
CheckpointKeepsTexts ==
  [][checkpoint # Missing /\ checkpoint' # checkpoint /\ ~ overlap =>
       \A k \in DOMAIN checkpoint[1] \ (job.diff.manual \cup job.diff.changed) :
         /\ Readable(doc, k[1])
         /\ PlainText(checkpoint[1][k].text)
         /\ (k \in DOMAIN job.diff.updates => MovesByContent(job.diff.updates[k]))
         => k \in DOMAIN checkpoint'[1] /\ checkpoint'[1][k].text = checkpoint[1][k].text]_vars

\* After a pull that ran to its end nothing is pending: document, checkpoint and
\* diff agree, and what another check still finds are zones the pull reported as
\* unresolved (write_pulled_zones).
FinishedPullsAgree ==
  [][job.phase \in {"clearing", "rechecking"} /\ job'.phase = "idle" /\ ~ overlap
     /\ counts' = counts =>
       LET left == Diff(doc, checkpoint[1])
       IN  /\ DOMAIN left.updates \cup left.unresolved \cup left.manual
                \subseteq job.diff.unresolved
           /\ diff' = IF job.diff.unresolved = {} THEN Missing ELSE << left >>]_vars

\* README, "Guarded Zone Relocation": "It refuses to guess when: ... the old
\* content has multiple plausible new locations".  A proposal would then never be
\* a range that none of the places where the old content stands has.
SeveralPlacesAreRefused ==
  diff # Missing /\ checkpoint # Missing =>
    \A k \in DOMAIN diff[1].updates \cap DOMAIN checkpoint[1] :
      LET there == Places(Lines(diff[1].base), checkpoint[1][k].text)
      IN  Cardinality(there) > 1 => diff[1].updates[k].to.pair \in there
=============================================================================
