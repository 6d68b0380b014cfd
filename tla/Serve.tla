-------------------------------- MODULE Serve --------------------------------
(***************************************************************************)
(* The HTTP server (serve.rs).  It reads the document once and answers     *)
(* every request from that text, one request after the other, while        *)
(* commands may rewrite the file; only /wal looks at the disk again.       *)
(*                                                                         *)
(* tiny_http accepts connections on its own threads and hands requests     *)
(* over in order of arrival; a long body may still be on its way then, and *)
(* /query waits for it.  A handler that panics ends the process.           *)
(***************************************************************************)
EXTENDS Matching

CONSTANTS
  Client,
  Documents,  \* what the file may hold, and whether it has a log
  Requests,   \* what clients ask
  Nought,     \* the text "0"
  HexWord,    \* the texts decode_hex_word takes, and the line each names
  Short,      \* the texts compact_ref expands, and the reference each is short for
  Numbered,   \* the texts that are the number of a record
  Foreign,    \* the atoms outside ASCII
  Cors        \* ServeConfig.cors

ASSUME ServeAssumption ==
  /\ Cors \in BOOLEAN
  /\ \A d \in Documents : d.text \in Content /\ d.wal \in BOOLEAN

VARIABLES
  disk,    \* the document, and whether it has a log (WalFile says what is in it)
  server,  \* "bound", "up", "refused" or "panicked"
  loaded,  \* ServerState.content; header is scan_content of it
  queue,   \* the clients whose requests wait, the head next
  client   \* every client's request, what of it has arrived, and its answer

serveVars == << disk, server, loaded, queue, client >>

Line0(i) == LineAt(Lines(loaded), i)

(***************************************************************************)
(* Answers.                                                                *)
(***************************************************************************)
Reply(code, value) == [code |-> code, value |-> value, cors |-> Cors]
Bare(code)         == [code |-> code, value |-> << >>, cors |-> FALSE]
NotFound   == Reply(404, << >>)
BadRequest == Reply(400, << >>)
Broken     == Reply(500, << >>)

ForRecord(r, answer) == IF HasRec(loaded, r) THEN answer ELSE NotFound

Section(r) ==
  ForRecord(r, Reply(200, [marker |-> HeaderLine(loaded, r),
                           numbers |-> Line0(AsciiLine(loaded, r) + 1)]))

SectionDb(r) ==
  ForRecord(r, LET a == AsciiLine(loaded, r) IN
    Reply(200, [hexline |-> Line0(a),
                numbers |-> IF Line0(a + 1).kind = "num" THEN Line0(a + 1).value ELSE << >>,
                strings |-> [i \in 1 .. 3 |-> Line0(a + 1 + i)]]))

SectionAscii(r) == ForRecord(r, Reply(200, Line0(AsciiLine(loaded, r))))

\* Mutant: the slot of the path counted from 1.
SectionZoneFromOne(r, z) ==
  ForRecord(r,
    IF z \in 1 .. 3 /\ CanExtract(loaded, AsciiLine(loaded, r), z - 1)
    THEN Reply(200, Join(Extracted(loaded, AsciiLine(loaded, r), z - 1)))
    ELSE Broken)

\* The path counts zones from 0, a reference from 1 (here both from 0).
SectionZone(r, z) ==
  ForRecord(r,
    IF z \in ZoneIdx /\ CanExtract(loaded, AsciiLine(loaded, r), z)
    THEN Reply(200, Join(Extracted(loaded, AsciiLine(loaded, r), z)))
    ELSE Broken)

\* An index is only checked; the search goes through the whole text.
GrepAnswer(p, index) ==
  IF p = << >> THEN BadRequest
  ELSE IF index # {} /\ ~ \E r \in index : HasRec(loaded, r) THEN NotFound
  ELSE Reply(200, Grep(loaded, p))

StateAnswer == IF Scans(loaded) THEN Reply(200, State(loaded)) ELSE Broken

(***************************************************************************)
(* References, as they are spelled.  serve.rs and main.rs have a           *)
(* parse_ref_spec each.  Both take hex:A..B and the like for a range of    *)
(* lines and a hex-word alone for a line; any other word is a text.  The   *)
(* server does not read hex:A:B, and "0" is a hex-word to it, which is too *)
(* short for the command.                                                  *)
(***************************************************************************)
Unreadable == [kind |-> "unreadable"]

WordIn(ref, f) == ref.kind = "bare" /\ ref.value \in {<< TextLine(w) >> : w \in DOMAIN f}
Word(ref)      == ref.value[1].text
IsZero(ref)    == ref.kind = "bare" /\ ref.value = << TextLine(Nought) >>

LineNamed(ref) == Literal(HexWord[Word(ref)], HexWord[Word(ref)])
AsText(ref)    == [kind |-> "text", value |-> ref.value]

Parsed(ref) ==
  IF ref.kind = "colon" THEN Unreadable
  ELSE IF WordIn(ref, HexWord) THEN LineNamed(ref)
  ELSE IF ref.kind = "bare" THEN AsText(ref) ELSE ref

Command(ref) ==
  IF ref.kind = "colon" THEN Literal(ref.start, ref.end)
  ELSE IF WordIn(ref, HexWord) /\ ~ IsZero(ref) THEN LineNamed(ref)
  ELSE IF ref.kind = "bare" THEN AsText(ref) ELSE ref

\* A scope to search in may be short: i64z1.  To the command, and not to the
\* server, the number of a record alone stands for the record.
Expanded(scope) == IF WordIn(scope, Short) THEN Short[Word(scope)] ELSE scope

CommandScope(scope) ==
  LET s == Expanded(scope)
  IN  IF WordIn(s, Numbered) THEN [kind |-> "index", rec |-> Numbered[Word(s)]]
      ELSE Command(s)

(***************************************************************************)
(* read_ref_value of serve.rs takes fields from the scan and not from a    *)
(* Store.                                                                  *)
(***************************************************************************)
CanServe(c, ref) ==
  \/ ref.kind = "text"
  \/ /\ ref.kind \in {"string", "number", "numbers", "hexline", "zonehex"}
     /\ Scanned(c, ref.rec)
  \/ /\ ref.kind = "index" /\ Scanned(c, ref.rec)
     /\ \A z \in ZoneIdx :
          LET p == ZoneAt(c, ref.rec, z)
          IN  p # NoZone => p.start <= p.end /\ p.end < Len(Lines(c))
  \/ /\ ref.kind = "zone" /\ Scanned(c, ref.rec)
     /\ RangeNamed(c, ref) # NoZone => InFile(c, RangeNamed(c, ref))
  \/ ref.kind = "lines" /\ ref.start <= ref.end /\ InFile(c, RangeNamed(c, ref))

Served(c, ref) ==
  LET ls == Lines(c)
      a  == AsciiLine(c, ref.rec)
      p  == RangeNamed(c, ref)
  IN  CASE ref.kind = "text"    -> ref.value
        [] ref.kind = "index"   -> Aggregate(c, ref.rec)
        [] ref.kind = "string"  -> << LineAt(ls, a + 1 + ref.slot) >>
        [] ref.kind = "number"  -> << TextLine(LineAt(ls, a + 1).value[ref.slot]) >>
        [] ref.kind = "numbers" -> << LineAt(ls, a + 1) >>
        [] ref.kind = "hexline" -> << LineAt(ls, a) >>
        [] ref.kind = "zonehex" -> << Spelled(p) >>
        [] ref.kind = "zone" /\ p = NoZone -> Empty
        [] OTHER -> Join(SubSeq(ls, p.start + 1, p.end + 1))

\* An inverted pair inside the file: the slice panics.
Fatal(c, ref) ==
  /\ ref.kind = "zone" /\ Scanned(c, ref.rec)
  /\ Panics(c, RangeNamed(c, ref))

RefAnswer(ref) ==
  IF CanServe(loaded, Parsed(ref)) THEN Reply(200, Served(loaded, Parsed(ref)))
  ELSE BadRequest

CompareAnswer(left, op, right) ==
  LET l == Parsed(left)  r == Parsed(right)
  IN  IF /\ CanServe(loaded, l) /\ CanServe(loaded, r)
         /\ CanCompare(Served(loaded, l), op, Served(loaded, r))
      THEN Reply(200, Compared(Served(loaded, l), op, Served(loaded, r)))
      ELSE BadRequest

(***************************************************************************)
(* The parameters of a GET come percent-encoded, and percent_decode makes  *)
(* a character of every byte: a letter outside ASCII arrives as several    *)
(* others, here one atom that occurs in no document.  Only the text in a   *)
(* reference can hold one.                                                 *)
(***************************************************************************)
Decoded(p) == [i \in DOMAIN p |-> IF p[i] \in Foreign THEN << "bytes of", p[i] >> ELSE p[i]]

DecodedRef(ref) ==
  IF ref.kind \notin {"bare", "text"} THEN ref
  ELSE [ref EXCEPT !.value = [i \in DOMAIN @ |->
          IF @[i].kind = "text" THEN TextLine(Decoded(@[i].text)) ELSE @[i]]]

(***************************************************************************)
(* POST /query.  Three of its errors are sent without the CORS headers.    *)
(***************************************************************************)
All == [kind |-> "all"]

\* Mutant: short scopes are not expanded.
CanScopeInFull(scope) ==
  scope = All \/ (Parsed(scope).kind # "text" /\ CanServe(loaded, Parsed(scope)))

CanScope(scope) ==
  LET s == Parsed(Expanded(scope))
  IN  scope = All \/ (s.kind # "text" /\ CanServe(loaded, s))
ScopeText(scope) ==
  IF scope = All THEN loaded ELSE Served(loaded, Parsed(Expanded(scope)))

QueryAnswer(q) ==
  CASE q.form = "compare" -> CompareAnswer(q.left, q.op, q.right)
    [] q.form = "search" ->
         IF ~ CanScope(q.scope) THEN Bare(400)
         ELSE IF q.operation = "and" THEN Reply(200, QueryAnd(ScopeText(q.scope), q.patterns))
         ELSE IF q.operation = "or"  THEN Reply(200, QueryOr(ScopeText(q.scope), q.patterns))
         ELSE Bare(400)
    [] q.form = "not json" -> Bare(400)
    [] OTHER -> BadRequest

(***************************************************************************)
(* Requests.  parse_ref_spec lets no zone and no string through but the    *)
(* three there are, and no record but by an index; hex-words decode to     *)
(* line numbers; the path of /section is parsed likewise.                  *)
(***************************************************************************)
WellNamed(ref) ==
  /\ ref.kind = "zone"   => ref.rec \in Rec /\ ref.slot \in ZoneIdx
  /\ ref.kind = "string" => ref.slot \in 1 .. 3
  /\ ref.kind \in {"lines", "colon"} => ref.start \in Nat /\ ref.end \in Nat

ASSUME WordAssumption ==
  /\ HexWord \in [DOMAIN HexWord -> Nat] /\ Nought \in DOMAIN HexWord
  /\ Numbered \in [DOMAIN Numbered -> Rec]
  /\ DOMAIN HexWord \cap DOMAIN Numbered \subseteq {Nought}
  /\ \A w \in DOMAIN Short :
       /\ WellNamed(Short[w])
       /\ Short[w].kind \in {"index", "string", "number", "numbers", "hexline", "zone",
                             "zonehex"}

Compares(q) == q.kind = "ref-bool" \/ (q.kind = "query" /\ q.form = "compare")
Searches(q) == q.kind = "query" /\ q.form = "search"

ASSUME RequestAssumption ==
  \A q \in Requests :
    /\ q.kind = "zone" => q.rec \in Rec
    /\ q.kind = "ref"  => WellNamed(q.ref)
    /\ Compares(q)     => WellNamed(q.left) /\ WellNamed(q.right)
    /\ Searches(q)     => WellNamed(q.scope)

(***************************************************************************)
(* handle_request.                                                         *)
(***************************************************************************)
Answer(q) ==
  CASE q.kind = "document" -> Reply(200, loaded)
    [] q.kind \in {"root", "sections", "health"} ->
         Reply(200, {r \in Rec : HasRec(loaded, r)})
    [] q.kind = "section"  -> Section(q.rec)
    [] q.kind = "db"       -> SectionDb(q.rec)
    [] q.kind = "hexline"  -> SectionAscii(q.rec)
    [] q.kind = "zone"     -> SectionZone(q.rec, q.slot)
    [] q.kind = "grep"     -> GrepAnswer(Decoded(q.pattern), q.index)
    [] q.kind = "state"    -> StateAnswer
    [] q.kind = "ref"      -> RefAnswer(DecodedRef(q.ref))
    [] q.kind = "ref-bool" ->
         CompareAnswer(DecodedRef(q.left), q.op, DecodedRef(q.right))
    [] q.kind = "wal"      -> Reply(200, disk.wal)
    [] q.kind = "query"    -> QueryAnswer(q)
    [] q.kind = "options" /\ Cors -> Reply(204, << >>)
    [] OTHER -> NotFound

\* Mutant: a range that ends outside the file is sliced all the same.
PanicsOutside(q) ==
  q.kind = "ref" /\ q.ref.kind = "zone" /\ Scanned(loaded, q.ref.rec)
    /\ RangeNamed(loaded, q.ref).end >= Len(Lines(loaded))

\* ref-bool reads its right side only when it could read the left; /query reads
\* both before it looks at either.
HandlerPanics(q) ==
  \/ /\ q.kind = "zone" /\ HasRec(loaded, q.rec) /\ q.slot \in ZoneIdx
     /\ LET a == AsciiLine(loaded, q.rec)
            p == ZoneHere(loaded, a, q.slot)
        IN  /\ a < Len(Lines(loaded)) /\ IsHexWords(LineAt(loaded, a))
            /\ p.start < Len(Lines(loaded)) /\ p.start > p.end + 1
  \/ q.kind = "state" /\ Scans(loaded) /\ ~ CanState(loaded)
  \/ q.kind = "ref" /\ Fatal(loaded, q.ref)
  \/ /\ q.kind = "ref-bool"
     /\ \/ Fatal(loaded, q.left)
        \/ CanServe(loaded, Parsed(DecodedRef(q.left))) /\ Fatal(loaded, q.right)
  \/ /\ q.kind = "query" /\ q.form = "compare"
     /\ Fatal(loaded, q.left) \/ Fatal(loaded, q.right)
  \/ Searches(q) /\ q.scope # All /\ Fatal(loaded, Expanded(q.scope))

(***************************************************************************)
(* Steps of the server.                                                    *)
(***************************************************************************)
Silent == [phase |-> "idle"]

\* Mutant: a document that cannot be scanned is served all the same.
StartUnscanned ==
  /\ server = "bound"
  /\ server' = "up"
  /\ loaded' = disk.text
  /\ UNCHANGED << disk, queue, client >>

Start ==
  /\ server = "bound"
  /\ server' = IF Loadable(disk.text) THEN "up" ELSE "refused"
  /\ loaded' = disk.text
  /\ UNCHANGED << disk, queue, client >>

\* A body that broke off is an error, and its client is gone.
Answered(c) ==
  IF client[c].phase = "gone" THEN Silent
  ELSE [phase |-> "answered", request |-> client[c].request,
        answer |-> Answer(client[c].request)]

\* Mutant: an answer that cannot be sent ends the loop.
HandleOrStop ==
  /\ server = "up" /\ queue # << >>
  /\ LET c == Head(queue)
     IN  /\ client[c].body # "partial"
         /\ queue' = Tail(queue)
         /\ IF client[c].phase = "gone"
            THEN server' = "refused" /\ UNCHANGED client
            ELSE /\ ~ HandlerPanics(client[c].request)
                 /\ client' = [client EXCEPT ![c] = Answered(c)]
                 /\ UNCHANGED server
  /\ UNCHANGED << disk, loaded >>

Handle ==
  /\ server = "up" /\ queue # << >>
  /\ LET c == Head(queue)
     IN  /\ client[c].body # "partial"
         /\ queue' = Tail(queue)
         /\ IF client[c].body = "whole" /\ HandlerPanics(client[c].request)
            THEN server' = "panicked" /\ UNCHANGED client
            ELSE client' = [client EXCEPT ![c] = Answered(c)] /\ UNCHANGED server
  /\ UNCHANGED << disk, loaded >>

(***************************************************************************)
(* Clients, and the commands that go on working on the file.               *)
(***************************************************************************)
Send(c, q, body) ==
  /\ client[c].phase = "idle"
  /\ server \in {"bound", "up"}
  /\ body = "partial" => q.kind = "query"
  /\ client' = [client EXCEPT ![c] = [phase |-> "waiting", request |-> q, body |-> body]]
  /\ queue' = Append(queue, c)
  /\ UNCHANGED << disk, server, loaded >>

SendRest(c) ==
  /\ client[c].phase = "waiting" /\ client[c].body = "partial"
  /\ client' = [client EXCEPT ![c].body = "whole"]
  /\ UNCHANGED << disk, server, loaded, queue >>

HangUp(c) ==
  /\ client[c].phase = "waiting"
  /\ client' = [client EXCEPT ![c] =
                   [phase |-> "gone", request |-> client[c].request,
                    body |-> IF client[c].body = "partial" THEN "cut" ELSE client[c].body]]
  /\ UNCHANGED << disk, server, loaded, queue >>

BreakOff(c) == HangUp(c) /\ client[c].body = "partial"

Collect(c) ==
  /\ client[c].phase = "answered"
  /\ client' = [client EXCEPT ![c] = Silent]
  /\ UNCHANGED << disk, server, loaded, queue >>

CommandWrites ==
  /\ disk' \in Documents \ {disk}
  /\ UNCHANGED << server, loaded, queue, client >>

ServeInit ==
  /\ disk \in Documents
  /\ server = "bound" /\ loaded = Empty
  /\ queue = << >> /\ client = [c \in Client |-> Silent]

ServeNext ==
  \/ Start \/ Handle
  \/ \E c \in Client :
       \/ \E q \in Requests, body \in {"whole", "partial"} : Send(c, q, body)
       \/ SendRest(c) \/ HangUp(c) \/ Collect(c)
  \/ CommandWrites

\* The loop of serve and a handler go on as long as they can; a body that has
\* begun arrives in full or its connection ends.
ServeFairness ==
  /\ WF_serveVars(Start) /\ WF_serveVars(Handle)
  /\ \A c \in Client : WF_serveVars(SendRest(c) \/ BreakOff(c))

ServeSpec == ServeInit /\ [][ServeNext]_serveVars /\ ServeFairness

(***************************************************************************)
(* Properties.                                                             *)
(***************************************************************************)
Waiting(c) == client[c].phase \in {"waiting", "gone"}

\* The queue holds exactly the clients that wait, each once, and what is served
\* is a text in which a scan finds every record.
ServeTypeOK ==
  /\ disk \in Documents /\ loaded \in Content
  /\ server \in {"bound", "up", "refused", "panicked"}
  /\ server = "up" => Loadable(loaded)
  /\ \A i, j \in 1 .. Len(queue) : queue[i] = queue[j] => i = j
  /\ server = "up" => {queue[i] : i \in 1 .. Len(queue)} = {c \in Client : Waiting(c)}

\* Every request is answered or given up, however slow the bodies before it
\* are and however many clients hang up, unless a handler panicked or the file
\* could not be scanned at the start.
EveryRequestIsAnswered ==
  \A c \in Client :
    client[c].phase = "waiting" ~>
      \/ client[c].phase # "waiting"
      \/ server = "panicked"
      \/ server = "refused" /\ ~ Loadable(loaded)

Got(c, kind) == client[c].phase = "answered" /\ client[c].request.kind = kind
FromScan(ref) == ref.kind \in {"string", "number", "numbers"}

Ascii(ref) == DecodedRef(ref) = ref

CommandCan(ref)   == CanRead(loaded, Command(ref))
CommandReads(ref) == ReadRef(loaded, Command(ref))

CommandCanScope(scope) ==
  LET s == CommandScope(scope)
  IN  scope = All \/ (s.kind # "text" /\ CanRead(loaded, s))
CommandScopeText(scope) ==
  IF scope = All THEN loaded ELSE ReadRef(loaded, CommandScope(scope))

\* The server reads fields of a record whose third string is empty, which a Store
\* refuses.
OnlyScanned(ref) == FromScan(ref) /\ ~ CanWriteRecord(loaded, ref.rec)

ReadsAsTheCommand(ref, answer) ==
  /\ CommandCan(ref) /\ ref.kind # "colon" => answer.code = 200
  /\ answer.code = 200 =>
       IF CommandCan(ref) THEN answer.value = CommandReads(ref) ELSE OnlyScanned(ref)

CommandCompares(q) ==
  /\ CommandCan(q.left) /\ CommandCan(q.right)
  /\ CanCompare(CommandReads(q.left), q.op, CommandReads(q.right))

SaysTheSame(q, answer) ==
  answer.value = Compared(CommandReads(q.left), q.op, CommandReads(q.right))

ComparesAsTheCommand(q, answer) ==
  /\ CommandCompares(q) /\ q.left.kind # "colon" /\ q.right.kind # "colon" =>
       answer.code = 200
  /\ answer.code = 200 =>
       \/ CommandCompares(q) /\ SaysTheSame(q, answer)
       \/ ~ CommandCan(q.left) /\ OnlyScanned(q.left)
       \/ ~ CommandCan(q.right) /\ OnlyScanned(q.right)

CommandSearches(q) ==
  IF q.operation = "and" THEN BoolAnd(CommandScopeText(q.scope), q.patterns).value
  ELSE BoolOr(CommandScopeText(q.scope), q.patterns).value

SearchesAsTheCommand(q, answer) ==
  /\ CommandCanScope(q.scope) /\ q.operation \in {"and", "or"}
     /\ q.scope.kind # "colon" /\ ~ WordIn(q.scope, Numbered) => answer.code = 200
  /\ answer.code = 200 =>
       IF CommandCanScope(q.scope)
       THEN << >> \in q.patterns \/ answer.value = CommandSearches(q)
       ELSE OnlyScanned(CommandScope(q.scope))

\* /ref, /ref-bool and /query say of the document read at the start what
\* ref-get, ref-bool, bool-and and bool-or say of it, also after commands have
\* rewritten the file; they answer where these answer and fail where these fail.
\* The exceptions: /ref reads fields of a record whose third string is empty, it
\* does not read hex:A:B nor search in a record named by its number alone, takes
\* "0" for line 0, and garbles text that is not ASCII in a GET; and an empty
\* pattern is in a text without lines (parse_hex_ref, parse_ref_spec and
\* read_ref_value, each twice in the code; read_bool_scope against
\* get_bool_content; whole-text against line-by-line search).
ServerAnswersAsTheCommand ==
  \A c \in Client :
    LET q == client[c].request
        answer == client[c].answer
    IN  /\ Got(c, "ref") /\ Ascii(q.ref) /\ ~ IsZero(q.ref) =>
             ReadsAsTheCommand(q.ref, answer)
        /\ Got(c, "ref-bool") /\ Ascii(q.left) /\ Ascii(q.right)
           /\ ~ IsZero(q.left) /\ ~ IsZero(q.right) => ComparesAsTheCommand(q, answer)
        /\ Got(c, "query") /\ q.form = "compare"
           /\ ~ IsZero(q.left) /\ ~ IsZero(q.right) => ComparesAsTheCommand(q, answer)
        /\ Got(c, "query") /\ q.form = "search" /\ ~ IsZero(q.scope) =>
             SearchesAsTheCommand(q, answer)

\* docs/ARCHITECTURE.md: serve mode "exposes the same native scan/ref/bool
\* logic over HTTP", so /ref-bool on words in ASCII answers as ref-bool.
RefBoolIsTheCommands ==
  \A c \in Client :
    LET q == client[c].request
        answer == client[c].answer
    IN  Got(c, "ref-bool") /\ Ascii(q.left) /\ Ascii(q.right)
          /\ answer.code = 200 /\ CommandCompares(q) => SaysTheSame(q, answer)

\* What the answers of two clients say of the other, the request of each named.
BothServed(c, d) == client[c].answer.code = 200 /\ client[d].answer.code = 200

ZoneAsRef(c, d) ==
  LET q == client[c].request  ref == client[d].request.ref
  IN  /\ Got(c, "zone") /\ Got(d, "ref") /\ BothServed(c, d)
      /\ ref.kind = "zone" /\ ref.rec = q.rec /\ ref.slot = q.slot
      => client[c].answer.value = client[d].answer.value
StateAsRef(c, d) ==
  LET ref == client[d].request.ref
  IN  Got(c, "state") /\ Got(d, "ref") /\ BothServed(c, d) /\ ref.kind = "zone"
      => client[c].answer.value[ref.rec].zones[ref.slot] = client[d].answer.value
StringsAsRef(c, d) ==
  LET q == client[c].request  ref == client[d].request.ref
  IN  /\ Got(c, "db") /\ Got(d, "ref") /\ BothServed(c, d)
      /\ ref.kind = "string" /\ ref.rec = q.rec
      => client[d].answer.value = << client[c].answer.value.strings[ref.slot] >>
ContrariesDiffer(c, d) ==
  LET q == client[c].request  p == client[d].request
  IN  /\ Got(c, "ref-bool") /\ Got(d, "ref-bool") /\ BothServed(c, d)
      /\ q.left = p.left /\ q.right = p.right
      /\ << q.op, p.op >> \in {<< "eq", "ne" >>, << "gt", "lte" >>, << "lt", "gte" >>}
      => client[c].answer.value # client[d].answer.value
GetAsPost(c, d) ==
  LET q == client[c].request  p == client[d].request
  IN  /\ Got(c, "ref-bool") /\ Got(d, "query") /\ p.form = "compare"
      /\ q.left = p.left /\ q.op = p.op /\ q.right = p.right
      /\ Ascii(q.left) /\ Ascii(q.right)
      => client[c].answer = client[d].answer

\* Two answers about the same field or zone agree, whichever endpoints gave them
\* and whatever happened to the file in between; where one fails the other may
\* answer (a zone that ends after the file is cut by /section, refused by /ref).
\* A comparison answers alike by GET and POST, unless its text is not ASCII.
EndpointsAgree ==
  \A c, d \in Client :
    /\ ZoneAsRef(c, d) /\ StateAsRef(c, d) /\ StringsAsRef(c, d)
    /\ ContrariesDiffer(c, d) /\ GetAsPost(c, d)

\* No request stops the server as long as no pair of the document it read is in
\* the wrong order by more than one line.
OnlyAnInvertedZoneStopsIt ==
  server = "panicked" =>
    \E r \in Rec, z \in ZoneIdx :
      /\ HasRec(loaded, r)
      /\ ZoneAt(loaded, r, z).start > ZoneAt(loaded, r, z).end + 1
=============================================================================
