--------------------------- MODULE AnswersProofs ---------------------------
(***************************************************************************)
(* What is answered.  For any number of clients, any requests and any      *)
(* documents: the server's queue holds exactly the clients that wait, only *)
(* a document with a pair in the wrong order can stop it, and what it      *)
(* answers is what the commands say of the document it read.  For any text *)
(* and any patterns: the commands that search line by line say of it what  *)
(* those say that search it whole.  For any compact reference: at most one *)
(* of its markers fits.  What is proved of the server cites no assumption  *)
(* of Operators, and the other way round.                                  *)
(***************************************************************************)
EXTENDS Serve, Operators, DocumentProofs, FiniteSetTheorems, WellFoundedInduction

(***************************************************************************)
(* The inductive invariant.                                                *)
(***************************************************************************)
\* What a client may be at, each record with the fields of its phase.
ClientIsAt(c) ==
  \/ client[c] = Silent
  \/ \E q \in Requests, p \in {"waiting", "gone"}, b \in {"whole", "partial", "cut"} :
       client[c] = [phase |-> p, request |-> q, body |-> b]
  \/ client[c].phase = "answered"

ClientsOK == DOMAIN client = Client /\ \A c \in Client : ClientIsAt(c)

\* Also before the document is read, and of the clients alone.
QueueOK ==
  /\ queue \in Seq(Client)
  /\ \A i, j \in 1 .. Len(queue) : queue[i] = queue[j] => i = j
  /\ \A i \in 1 .. Len(queue) : Waiting(queue[i])
  /\ server \in {"bound", "up"} =>
       \A c \in Client : Waiting(c) => \E i \in 1 .. Len(queue) : queue[i] = c

ServerOK ==
  /\ disk \in Documents /\ loaded \in Content
  /\ server \in {"bound", "up", "refused", "panicked"}
  /\ server = "up" => Loadable(loaded)

ServeInv == ServerOK /\ ClientsOK /\ QueueOK /\ OnlyAnInvertedZoneStopsIt

(***************************************************************************)
(* What makes a handler panic.                                             *)
(***************************************************************************)
InvertedPair ==
  \E r \in Rec, z \in ZoneIdx :
    /\ HasRec(loaded, r)
    /\ ZoneAt(loaded, r, z).start > ZoneAt(loaded, r, z).end + 1

\* A reference makes the slice of line_range_text panic only through such a pair.
LEMMA FatalNeedsInversion ==
  ASSUME NEW ref, WellNamed(ref), Fatal(loaded, ref)
  PROVE  InvertedPair
<1>1. ref.rec \in Rec /\ ref.slot \in ZoneIdx /\ ref.kind # "lines"
  BY DEF Fatal, WellNamed
<1>2. HasRec(loaded, ref.rec) BY DEF Fatal, Scanned, Readable
<1>3. RangeNamed(loaded, ref) = ZoneAt(loaded, ref.rec, ref.slot) BY <1>1 DEF RangeNamed
<1> QED BY <1>1, <1>2, <1>3 DEF Fatal, Panics, InvertedPair

\* What a scope is short for is a reference like any other.
LEMMA ExpandedIsNamed ==
  ASSUME NEW scope, WellNamed(scope)
  PROVE  /\ WellNamed(Expanded(scope))
         /\ ~ IsZero(scope) => ~ IsZero(Expanded(scope))
         /\ Expanded(scope) = scope \/ Expanded(scope).kind \notin {"bare", "colon", "text"}
<1>1. CASE WordIn(scope, Short)
  <2>1. PICK w \in DOMAIN Short : scope.value = << TextLine(w) >> BY <1>1 DEF WordIn
  <2>2. Word(scope) = w BY <2>1 DEF Word, TextLine
  <2>3. Expanded(scope) = Short[w] BY <1>1, <2>2 DEF Expanded
  <2>4. WellNamed(Short[w]) BY <2>1, WordAssumption
  <2>5. Short[w].kind \notin {"bare", "colon", "text"} BY <2>1, WordAssumption
  <2> QED BY <2>3, <2>4, <2>5 DEF IsZero
<1>2. CASE ~ WordIn(scope, Short)
  BY <1>2 DEF Expanded
<1> QED BY <1>1, <1>2

\* And so do the handlers of /section, /state, /ref, /ref-bool and /query.
LEMMA PanicNeedsInversion ==
  ASSUME NEW q \in Requests, HandlerPanics(q)
  PROVE  InvertedPair
<1>1. CASE q.kind = "zone"
  <2>1. q.rec \in Rec BY <1>1, RequestAssumption
  <2>2. ZoneHere(loaded, AsciiLine(loaded, q.rec), q.slot) = ZoneAt(loaded, q.rec, q.slot)
    BY DEF ZoneHere, ZoneAt
  <2> QED BY <1>1, <2>1, <2>2 DEF HandlerPanics, InvertedPair, Searches
<1>2. CASE q.kind = "state"
  <2>1. PICK r \in Rec, z \in ZoneIdx : Readable(loaded, r) /\ Panics(loaded, ZoneAt(loaded, r, z))
    BY <1>2 DEF HandlerPanics, CanState, Searches
  <2> QED BY <2>1 DEF Readable, Panics, InvertedPair
<1>3. CASE q.kind = "ref"
  BY <1>3, RequestAssumption, FatalNeedsInversion DEF HandlerPanics, Searches
<1>4. CASE Compares(q)
  BY <1>4, RequestAssumption, FatalNeedsInversion DEF HandlerPanics, Compares, Searches
<1>5. CASE Searches(q)
  <2>1. Fatal(loaded, Expanded(q.scope)) BY <1>5 DEF HandlerPanics, Compares, Searches
  <2>2. WellNamed(Expanded(q.scope)) BY <1>5, RequestAssumption, ExpandedIsNamed
  <2> QED BY <2>1, <2>2, FatalNeedsInversion
<1> QED BY <1>1, <1>2, <1>3, <1>4, <1>5 DEF HandlerPanics, Compares

(***************************************************************************)
(* The head of the queue is answered or passed over.                       *)
(***************************************************************************)
\* The client whose turn it is waits, with one of the requests.
LEMMA HeadWaits ==
  ASSUME ClientsOK, QueueOK, queue # << >>
  PROVE  /\ Head(queue) \in Client
         /\ Waiting(Head(queue))
         /\ client[Head(queue)].request \in Requests
<1>1. Head(queue) \in Client /\ Head(queue) = queue[1] /\ 1 \in 1 .. Len(queue)
  BY DEF QueueOK
<1>2. Waiting(Head(queue)) BY <1>1 DEF QueueOK
<1>3. client[Head(queue)] # Silent BY <1>2 DEF Waiting, Silent
<1> QED BY <1>1, <1>2, <1>3 DEF ClientsOK, ClientIsAt, Waiting

\* Taking it off leaves the others, in their order.
LEMMA TailKeepsOthers ==
  ASSUME QueueOK, queue # << >>
  PROVE  /\ Tail(queue) \in Seq(Client)
         /\ Len(Tail(queue)) = Len(queue) - 1
         /\ \A i \in 1 .. Len(queue) - 1 : Tail(queue)[i] = queue[i + 1]
         /\ \A i \in 2 .. Len(queue) : Tail(queue)[i - 1] = queue[i]
         /\ \A i \in 1 .. Len(queue) - 1 : Tail(queue)[i] # Head(queue)
<1>1. /\ Tail(queue) \in Seq(Client)
      /\ Len(Tail(queue)) = Len(queue) - 1
      /\ \A i \in 1 .. Len(queue) - 1 : Tail(queue)[i] = queue[i + 1]
  BY DEF QueueOK
<1>2. Head(queue) = queue[1] /\ Len(queue) \in Nat \ {0} BY DEF QueueOK
<1>3. \A i \in 2 .. Len(queue) : Tail(queue)[i - 1] = queue[i] BY <1>1, <1>2
<1>4. \A i \in 1 .. Len(queue) - 1 : queue[i + 1] # queue[1] BY <1>2 DEF QueueOK
<1> QED BY <1>1, <1>2, <1>3, <1>4

LEMMA HandleKeepsInv == ASSUME ServeInv, Handle PROVE ServeInv'
<1>1. PICK h \in Client :
        h = Head(queue) /\ Waiting(h) /\ client[h].request \in Requests
  BY HeadWaits DEF ServeInv, Handle
<1>2. /\ queue' = Tail(queue) /\ queue # << >> /\ server = "up"
      /\ UNCHANGED << disk, loaded >>
  BY DEF Handle
<1>3. CASE /\ HandlerPanics(client[h].request) /\ server' = "panicked" /\ UNCHANGED client
  <2>1. ServerOK' BY <1>2, <1>3 DEF ServerOK, ServeInv
  <2>2. ClientsOK' BY <1>3 DEF ServeInv, ClientsOK, ClientIsAt
  <2>3. QueueOK'
    BY <1>2, <1>3, TailKeepsOthers DEF ServeInv, QueueOK, Waiting
  <2>4. InvertedPair BY <1>1, <1>3, PanicNeedsInversion
  <2>5. OnlyAnInvertedZoneStopsIt' BY <2>4, <1>2 DEF InvertedPair, OnlyAnInvertedZoneStopsIt
  <2> QED BY <2>1, <2>2, <2>3, <2>5 DEF ServeInv
<1>4. CASE client' = [client EXCEPT ![h] = Answered(h)] /\ UNCHANGED server
  <2>1. ServerOK' BY <1>2, <1>4 DEF ServerOK, ServeInv
  <2>2. client'[h] = Silent \/ client'[h].phase = "answered"
    BY <1>1, <1>4 DEF Answered, ServeInv, ClientsOK
  <2>3. \A c \in Client \ {h} : client'[c] = client[c]
    BY <1>4 DEF ServeInv, ClientsOK
  <2>4. ClientsOK' BY <1>1, <1>4, <2>2, <2>3 DEF ServeInv, ClientsOK, ClientIsAt
  <2>5. ~ Waiting(h)' BY <2>2 DEF Waiting, Silent
  <2>6. \A c \in Client \ {h} : Waiting(c)' <=> Waiting(c) BY <2>3 DEF Waiting
  <2>7. QueueOK'
    <3>1. \A i \in 1 .. Len(queue') : client'[queue'[i]].phase \in {"waiting", "gone"}
      <4> SUFFICES ASSUME NEW i \in 1 .. Len(queue')
                   PROVE  client'[queue'[i]].phase \in {"waiting", "gone"}
        OBVIOUS
      <4>1. /\ i + 1 \in 1 .. Len(queue) /\ queue'[i] = queue[i + 1] /\ queue'[i] # h
            /\ queue[i + 1] \in Client
        BY <1>1, <1>2, TailKeepsOthers DEF ServeInv, QueueOK
      <4>2. Waiting(queue[i + 1]) BY <4>1 DEF ServeInv, QueueOK
      <4> QED BY <4>1, <4>2, <2>3 DEF Waiting
    <3>2. ASSUME NEW c \in Client, Waiting(c)'
          PROVE  \E i \in 1 .. Len(queue') : queue'[i] = c
      <4>1. c # h /\ Waiting(c) BY <3>2, <2>5, <2>6
      <4>2. PICK i \in 1 .. Len(queue) : queue[i] = c
        BY <4>1, <1>2 DEF ServeInv, QueueOK
      <4>3. i \in 2 .. Len(queue) BY <4>1, <4>2, <1>1, <1>2 DEF ServeInv, QueueOK
      <4>4. i - 1 \in 1 .. Len(queue') /\ queue'[i - 1] = queue[i]
        BY <4>3, <1>2, TailKeepsOthers DEF ServeInv, QueueOK
      <4> QED BY <4>2, <4>4
    <3>3. \A i, j \in 1 .. Len(queue') : queue'[i] = queue'[j] => i = j
      BY <1>2, TailKeepsOthers DEF ServeInv, QueueOK
    <3>4. queue' \in Seq(Client) BY <1>2, TailKeepsOthers DEF ServeInv
    <3> QED BY <3>1, <3>2, <3>3, <3>4 DEF QueueOK, Waiting
  <2>8. OnlyAnInvertedZoneStopsIt'
    BY <1>2, <1>4 DEF ServeInv, OnlyAnInvertedZoneStopsIt
  <2> QED BY <2>1, <2>4, <2>7, <2>8 DEF ServeInv
<1> QED BY <1>1, <1>3, <1>4 DEF Handle

(***************************************************************************)
(* Clients come to the end of the queue and hang up where they are.        *)
(***************************************************************************)
LEMMA SendKeepsInv ==
  ASSUME ServeInv, NEW c \in Client, NEW q \in Requests, NEW b \in {"whole", "partial"},
         Send(c, q, b)
  PROVE  ServeInv'
<1>1. /\ client' = [client EXCEPT ![c] = [phase |-> "waiting", request |-> q, body |-> b]]
      /\ queue' = Append(queue, c) /\ client[c].phase = "idle"
      /\ UNCHANGED << disk, server, loaded >>
  BY DEF Send
<1>2. ClientsOK /\ QueueOK /\ ServerOK BY DEF ServeInv
<1>3. /\ client'[c] = [phase |-> "waiting", request |-> q, body |-> b]
      /\ \A d \in Client \ {c} : client'[d] = client[d]
      /\ DOMAIN client' = Client
  BY <1>1, <1>2 DEF ClientsOK
<1>4. ClientsOK' BY <1>2, <1>3 DEF ClientsOK, ClientIsAt
<1>5. /\ queue' \in Seq(Client) /\ Len(queue') = Len(queue) + 1 /\ Len(queue) \in Nat
      /\ queue'[Len(queue) + 1] = c
      /\ \A i \in 1 .. Len(queue) : queue'[i] = queue[i] /\ queue[i] \in Client
  BY <1>1, <1>2 DEF QueueOK
<1>6. \A i \in 1 .. Len(queue) : queue[i] # c
  BY <1>1, <1>2 DEF QueueOK, Waiting
<1>7. \A i, j \in 1 .. Len(queue') : queue'[i] = queue'[j] => i = j
  BY <1>2, <1>5, <1>6 DEF QueueOK
<1>8. \A i \in 1 .. Len(queue') : client'[queue'[i]].phase \in {"waiting", "gone"}
  BY <1>2, <1>3, <1>5, <1>6 DEF QueueOK, Waiting
<1>9. ASSUME server' \in {"bound", "up"}, NEW d \in Client,
             client'[d].phase \in {"waiting", "gone"}
      PROVE  \E i \in 1 .. Len(queue') : queue'[i] = d
  <2>1. CASE d = c BY <2>1, <1>5
  <2>2. CASE d # c
    <3>1. PICK i \in 1 .. Len(queue) : queue[i] = d
      BY <2>2, <1>1, <1>2, <1>3, <1>9 DEF QueueOK, Waiting
    <3> QED BY <3>1, <1>5
  <2> QED BY <2>1, <2>2
<1>10. QueueOK' BY <1>5, <1>7, <1>8, <1>9 DEF QueueOK, Waiting
<1>11. ServerOK' /\ OnlyAnInvertedZoneStopsIt'
  BY <1>1 DEF ServeInv, ServerOK, OnlyAnInvertedZoneStopsIt
<1> QED BY <1>4, <1>10, <1>11 DEF ServeInv

\* A client that keeps its place, whatever else becomes of it.
LEMMA SamePlaceKeepsInv ==
  ASSUME ServeInv, NEW c \in Client, Waiting(c),
         NEW p \in {"waiting", "gone"}, NEW b \in {"whole", "partial", "cut"},
         client' = [client EXCEPT ![c] = [phase |-> p, request |-> client[c].request, body |-> b]],
         UNCHANGED << disk, server, loaded, queue >>
  PROVE  ServeInv'
<1>1. ClientsOK /\ QueueOK /\ ServerOK BY DEF ServeInv
<1>2. client[c].request \in Requests
  <2>1. client[c] # Silent BY DEF Waiting, Silent
  <2> QED BY <2>1, <1>1 DEF ClientsOK, ClientIsAt, Waiting
<1>3. /\ client'[c] = [phase |-> p, request |-> client[c].request, body |-> b]
      /\ \A d \in Client \ {c} : client'[d] = client[d]
      /\ DOMAIN client' = Client
  BY <1>1 DEF ClientsOK
<1>4. ClientsOK' BY <1>1, <1>2, <1>3 DEF ClientsOK, ClientIsAt
<1>5. QueueOK' BY <1>1, <1>3 DEF QueueOK, Waiting
<1>6. ServerOK' /\ OnlyAnInvertedZoneStopsIt'
  BY DEF ServeInv, ServerOK, OnlyAnInvertedZoneStopsIt
<1> QED BY <1>4, <1>5, <1>6 DEF ServeInv

(***************************************************************************)
(* The theorem.                                                            *)
(***************************************************************************)
LEMMA StepKeepsInv == ServeInv /\ [ServeNext]_serveVars => ServeInv'
<1> SUFFICES ASSUME ServeInv, [ServeNext]_serveVars PROVE ServeInv'
  OBVIOUS
<1>1. CASE Start
  <2>1. /\ disk.text \in Content /\ UNCHANGED << disk, queue, client >>
        /\ server = "bound" /\ loaded' = disk.text
        /\ server' \in {"up", "refused"} /\ (server' = "up" => Loadable(disk.text))
    BY <1>1, ServeAssumption DEF Start, ServeInv, ServerOK
  <2>2. ServerOK' BY <2>1 DEF ServerOK, ServeInv
  <2>3. ClientsOK' /\ QueueOK' BY <2>1 DEF ServeInv, ClientsOK, ClientIsAt, QueueOK, Waiting
  <2>4. OnlyAnInvertedZoneStopsIt' BY <2>1 DEF OnlyAnInvertedZoneStopsIt
  <2> QED BY <2>2, <2>3, <2>4 DEF ServeInv
<1>2. CASE Handle BY <1>2, HandleKeepsInv
<1>3. ASSUME NEW c \in Client, NEW q \in Requests, NEW b \in {"whole", "partial"}, Send(c, q, b)
      PROVE  ServeInv'
  BY <1>3, SendKeepsInv
<1>4. ASSUME NEW c \in Client, SendRest(c) \/ HangUp(c) PROVE ServeInv'
  <2>1. Waiting(c) BY <1>4 DEF SendRest, HangUp, Waiting
  <2>2. PICK q \in Requests, p \in {"waiting", "gone"}, b \in {"whole", "partial", "cut"} :
          client[c] = [phase |-> p, request |-> q, body |-> b]
    <3>1. client[c] # Silent BY <2>1 DEF Waiting, Silent
    <3> QED BY <3>1, <2>1 DEF ServeInv, ClientsOK, ClientIsAt, Waiting
  <2>3. CASE SendRest(c)
    <3>1. [client[c] EXCEPT !.body = "whole"] = [phase |-> p, request |-> q, body |-> "whole"]
      BY <2>2
    <3>2. client' = [client EXCEPT ![c] = [phase |-> p, request |-> client[c].request, body |-> "whole"]]
      BY <2>2, <2>3, <3>1 DEF SendRest, ServeInv, ClientsOK
    <3> QED BY <2>1, <2>3, <3>2, SamePlaceKeepsInv DEF SendRest
  <2>4. CASE HangUp(c)
    <3> DEFINE cut == IF b = "partial" THEN "cut" ELSE b
    <3>1. client' = [client EXCEPT ![c] = [phase |-> "gone", request |-> client[c].request, body |-> cut]]
      BY <2>2, <2>4 DEF HangUp
    <3>2. cut \in {"whole", "partial", "cut"} OBVIOUS
    <3> HIDE DEF cut
    <3> QED BY <2>1, <2>4, <3>1, <3>2, SamePlaceKeepsInv DEF HangUp
  <2> QED BY <1>4, <2>3, <2>4
<1>5. ASSUME NEW c \in Client, Collect(c) PROVE ServeInv'
  <2>1. /\ client' = [client EXCEPT ![c] = Silent] /\ client[c].phase = "answered"
        /\ UNCHANGED << disk, server, loaded, queue >>
    BY <1>5 DEF Collect
  <2>2. /\ client'[c] = Silent /\ DOMAIN client' = Client
        /\ \A d \in Client \ {c} : client'[d] = client[d]
    BY <2>1 DEF ServeInv, ClientsOK
  <2>3. ClientsOK' BY <2>2 DEF ServeInv, ClientsOK, ClientIsAt
  <2>4. \A d \in Client : client'[d].phase \in {"waiting", "gone"} <=> Waiting(d)
    BY <2>1, <2>2 DEF Waiting, Silent
  <2>5. QueueOK' BY <2>1, <2>4 DEF ServeInv, QueueOK, Waiting
  <2>6. ServerOK' /\ OnlyAnInvertedZoneStopsIt'
    BY <2>1 DEF ServeInv, ServerOK, OnlyAnInvertedZoneStopsIt
  <2> QED BY <2>3, <2>5, <2>6 DEF ServeInv
<1>6. CASE CommandWrites
  <2>1. disk' \in Documents /\ UNCHANGED << server, loaded, queue, client >>
    BY <1>6 DEF CommandWrites
  <2> QED BY <2>1 DEF ServeInv, ServerOK, ClientsOK, ClientIsAt, QueueOK, Waiting, OnlyAnInvertedZoneStopsIt
<1>7. CASE UNCHANGED serveVars
  BY <1>7 DEF serveVars, ServeInv, ServerOK, ClientsOK, ClientIsAt, QueueOK, Waiting,
              OnlyAnInvertedZoneStopsIt
<1> QED BY <1>1, <1>2, <1>3, <1>4, <1>5, <1>6, <1>7 DEF ServeNext

LEMMA InitIsInv == ServeInit => ServeInv
<1> SUFFICES ASSUME ServeInit PROVE ServeInv
  OBVIOUS
<1>1. ServerOK BY DEF ServeInit, ServerOK, Empty, Content, Line, Blank
<1>2. ClientsOK BY DEF ServeInit, ClientsOK, ClientIsAt
<1>3. \A c \in Client : ~ Waiting(c) BY DEF ServeInit, Waiting, Silent
<1>4. QueueOK BY <1>3 DEF ServeInit, QueueOK
<1>5. OnlyAnInvertedZoneStopsIt BY DEF ServeInit, OnlyAnInvertedZoneStopsIt
<1> QED BY <1>1, <1>2, <1>4, <1>5 DEF ServeInv

\* No request stops the server as long as no pair of the document it read is in
\* the wrong order: of all the slices the handlers take, only that one panics.
THEOREM OnlyInversionStopsTheServer == ServeSpec => []OnlyAnInvertedZoneStopsIt
<1>1. ServeInv => OnlyAnInvertedZoneStopsIt BY DEF ServeInv
<1> QED BY <1>1, InitIsInv, StepKeepsInv, PTL DEF ServeSpec

\* While the server is up every client that waits is in the queue, once, and no
\* one else is, however clients send, hang up and come back.
THEOREM ServeTypeCorrect == ServeSpec => []ServeTypeOK
<1>1. ASSUME ServeInv PROVE ServeTypeOK
  <2>1. ASSUME server = "up"
        PROVE  {queue[i] : i \in 1 .. Len(queue)} = {c \in Client : Waiting(c)}
    BY <1>1, <2>1 DEF ServeInv, QueueOK
  <2> QED BY <1>1, <2>1 DEF ServeInv, ServerOK, QueueOK, ServeTypeOK
<1> QED BY <1>1, InitIsInv, StepKeepsInv, PTL DEF ServeSpec

(***************************************************************************)
(* What the server reads for a reference is what the command reads.        *)
(***************************************************************************)
\* read_ref_value of serve.rs and of main.rs give the same text where the command
\* reads one.
LEMMA ServedIsRead ==
  ASSUME NEW c \in Content, NEW ref, WellNamed(ref), CanRead(c, ref)
  PROVE  CanServe(c, ref) /\ Served(c, ref) = ReadRef(c, ref)
<1>1. CASE ref.kind = "text"
  BY <1>1 DEF CanServe, Served, ReadRef
<1>2. CASE ref.kind = "index"
  BY <1>2 DEF CanRead, CanServe, Served, ReadRef
<1>3. CASE ref.kind \in {"string", "number", "numbers", "hexline", "zonehex"}
  <2>1. HasRec(c, ref.rec) BY <1>3 DEF CanRead, Scanned, Readable
  <2>2. AsciiLine(c, ref.rec) \in Int
    BY <2>1 DEF HasRec, HeadersOf, Headers, AsciiLine, HeaderLine
  <2>3. /\ LineAt(Lines(c), AsciiLine(c, ref.rec)) = LineAt(c, AsciiLine(c, ref.rec))
        /\ LineAt(Lines(c), AsciiLine(c, ref.rec) + 1) = LineAt(c, AsciiLine(c, ref.rec) + 1)
    BY <2>2, LinesReadsAlike
  <2>4. ref.kind = "string" =>
          LineAt(Lines(c), AsciiLine(c, ref.rec) + 1 + ref.slot)
            = LineAt(c, AsciiLine(c, ref.rec) + 1 + ref.slot)
    <3>1. ref.kind = "string" => AsciiLine(c, ref.rec) + 1 + ref.slot \in Int
      BY <2>2 DEF WellNamed
    <3> QED BY <3>1, LinesReadsAlike
  <2>5. CanServe(c, ref) BY <1>3 DEF CanRead, CanServe
  <2>6. CASE ref.kind = "string"
    BY <2>4, <2>5, <2>6 DEF Served, ReadRef, StringSlots, WellNamed
  <2>7. CASE ref.kind \in {"number", "numbers", "hexline"}
    BY <2>3, <2>5, <2>7 DEF Served, ReadRef
  <2>8. CASE ref.kind = "zonehex"
    BY <2>5, <2>8 DEF Served, ReadRef
  <2> QED BY <1>3, <2>5, <2>6, <2>7, <2>8
<1>4. CASE ref.kind = "zone"
  BY <1>4 DEF CanRead, CanServe, Served, ReadRef, Sliceable, Sliced
<1>5. CASE ref.kind = "lines"
  BY <1>5 DEF CanRead, CanServe, Served, ReadRef, Sliceable, Sliced
<1> QED BY <1>1, <1>2, <1>3, <1>4, <1>5 DEF CanRead

\* And the server reads nothing else, save the fields a Store refuses, unless the
\* slice makes it panic.
LEMMA ReadOrRefusedByStore ==
  ASSUME NEW c \in Content, NEW ref, WellNamed(ref), CanServe(c, ref), ~ Fatal(c, ref)
  PROVE  CanRead(c, ref) \/ (FromScan(ref) /\ ~ CanWriteRecord(c, ref.rec))
<1>1. CASE ref.kind = "lines"
  <2>1. ref.start \in Nat /\ ref.end \in Nat BY <1>1 DEF WellNamed
  <2>2. ref.start <= ref.end /\ InFile(c, RangeNamed(c, ref)) BY <1>1 DEF CanServe
  <2>3. RangeNamed(c, ref).start = ref.start /\ RangeNamed(c, ref).end = ref.end
    BY <1>1 DEF RangeNamed
  <2>4. ~ Panics(c, RangeNamed(c, ref)) BY <2>1, <2>2, <2>3 DEF Panics
  <2> QED BY <1>1, <2>2, <2>4 DEF CanRead, Sliceable
<1>2. CASE ref.kind = "zone"
  BY <1>2 DEF CanServe, CanRead, Fatal, Sliceable
<1>3. CASE ref.kind \notin {"lines", "zone"}
  BY <1>3 DEF CanServe, CanRead, FromScan
<1> QED BY <1>1, <1>2, <1>3

\* A slice of lines inside the file is a text.
LEMMA SlicedType ==
  ASSUME NEW c \in Content, NEW p, p.start \in Nat, p.end \in Nat, InFile(c, p)
  PROVE  Sliced(c, p) \in Content
<1>1. Lines(c) \in Seq(Line) /\ Len(Lines(c)) \in Nat BY LinesType
<1> DEFINE ls == Lines(c)  m == p.start + 1  n == p.end + 1
<1>2. m \in Nat \ {0} /\ n \in Nat /\ n <= Len(ls) BY <1>1 DEF InFile
<1>3. ls \in Seq(Line) /\ Len(ls) \in Nat BY <1>1
<1> HIDE DEF ls, m, n
<1>4. \A i \in m .. n : ls[i] \in Line BY <1>2, <1>3, ElementOfSeq
<1>5. SubSeq(ls, m, n) \in Seq(Line) BY <1>2, <1>3, <1>4, SubSeqProperties
<1> QED BY <1>5, JoinType DEF Sliced, ls, m, n

\* What a reference to the file reads is a text of at least one line.
LEMMA ReadIsText ==
  ASSUME NEW c \in Content, NEW ref, WellNamed(ref), CanRead(c, ref), ref.kind # "text"
  PROVE  /\ Len(ReadRef(c, ref)) \in Nat \ {0}
         /\ \E K : ReadRef(c, ref) \in Seq(K)
<1>1. CASE ref.kind = "lines"
  <2>1. /\ RangeNamed(c, ref).start \in Nat /\ RangeNamed(c, ref).end \in Nat
        /\ InFile(c, RangeNamed(c, ref))
    BY <1>1 DEF WellNamed, RangeNamed, CanRead, Sliceable
  <2>2. Sliced(c, RangeNamed(c, ref)) \in Content BY <2>1, SlicedType
  <2>3. ReadRef(c, ref) = Sliced(c, RangeNamed(c, ref)) BY <1>1 DEF ReadRef
  <2> QED BY <2>2, <2>3, EmptySeq, LenProperties DEF Content
<1>2. CASE ref.kind = "zone"
  <2>1. HasRec(c, ref.rec) /\ ref.slot \in ZoneIdx /\ RangeNamed(c, ref) = ZoneAt(c, ref.rec, ref.slot)
    BY <1>2 DEF WellNamed, RangeNamed, CanRead, Scanned, Readable
  <2>2. RangeNamed(c, ref).start \in Nat /\ RangeNamed(c, ref).end \in Nat
    BY <2>1, ZoneWordsType DEF ZonePair
  <2>3. CASE RangeNamed(c, ref) = NoZone
    <3> DEFINE v == << Blank >>  K == {Blank}
    <3>1. ReadRef(c, ref) = v BY <1>2, <2>3 DEF ReadRef, Empty
    <3>2. v \in Seq(K) /\ Len(v) = 1 OBVIOUS
    <3> HIDE DEF v, K
    <3> QED BY <3>1, <3>2
  <2>4. CASE RangeNamed(c, ref) # NoZone
    <3>1. InFile(c, RangeNamed(c, ref)) BY <1>2, <2>4 DEF CanRead, Sliceable
    <3>2. Sliced(c, RangeNamed(c, ref)) \in Content BY <2>2, <3>1, SlicedType
    <3>3. ReadRef(c, ref) = Sliced(c, RangeNamed(c, ref)) BY <1>2, <2>4 DEF ReadRef
    <3> QED BY <3>2, <3>3, EmptySeq, LenProperties DEF Content
  <2> QED BY <2>3, <2>4
<1>3. CASE ref.kind = "index"
  <2> DEFINE zone(z) == IF ZoneAt(c, ref.rec, z) = NoZone THEN << >>
                        ELSE Sliced(c, ZoneAt(c, ref.rec, z))
             own == [i \in 1 .. 6 |-> LineAt(c, HeaderLine(c, ref.rec) + i)]
  <2>1. HasRec(c, ref.rec) BY <1>3 DEF CanRead, Scanned, Readable
  <2>2. ASSUME NEW z \in ZoneIdx PROVE zone(z) \in Seq(Line)
    <3>1. CASE ZoneAt(c, ref.rec, z) = NoZone BY <3>1
    <3>2. CASE ZoneAt(c, ref.rec, z) # NoZone
      <4> DEFINE p == ZoneAt(c, ref.rec, z)
      <4>1. p.start \in Nat /\ p.end \in Nat BY <2>1, ZoneWordsType DEF ZonePair
      <4>2. p.start <= p.end /\ p.end < Len(Lines(c)) BY <1>3, <3>2 DEF CanRead
      <4>3. Len(Lines(c)) \in Nat BY LinesType
      <4>4. InFile(c, p) BY <4>1, <4>2, <4>3 DEF InFile
      <4> HIDE DEF p
      <4>5. Sliced(c, p) \in Content BY <4>1, <4>4, SlicedType
      <4> QED BY <3>2, <4>5 DEF Content, p
    <3> QED BY <3>1, <3>2
  <2>3. own \in Seq(Line) /\ Len(own) = 6
    <3>1. HeaderLine(c, ref.rec) \in Int /\ c \in Seq(Line)
      BY <2>1 DEF HasRec, HeadersOf, Headers, HeaderLine, Content
    <3>2. \A i \in 1 .. 6 : LineAt(c, HeaderLine(c, ref.rec) + i) \in Line
      BY <3>1, LineAtType
    <3> QED BY <3>2
  <2>4. zone(0) \in Seq(Line) /\ zone(1) \in Seq(Line) /\ zone(2) \in Seq(Line)
    BY <2>2 DEF ZoneIdx
  <2>5. ReadRef(c, ref) = own \o zone(0) \o zone(1) \o zone(2)
    BY <1>3 DEF ReadRef, Aggregate
  <2> DEFINE z0 == zone(0)  z1 == zone(1)  z2 == zone(2)
             two == own \o z0  three == two \o z1  four == three \o z2
  <2>6. z0 \in Seq(Line) /\ z1 \in Seq(Line) /\ z2 \in Seq(Line) BY <2>4
  <2>7. ReadRef(c, ref) = four BY <2>5
  <2> HIDE DEF own, z0, z1, z2
  <2>8. two \in Seq(Line) /\ Len(two) = Len(own) + Len(z0) /\ Len(z0) \in Nat
    BY <2>3, <2>6, ConcatProperties, LenProperties
  <2> HIDE DEF two
  <2>9. three \in Seq(Line) /\ Len(three) = Len(two) + Len(z1) /\ Len(z1) \in Nat
    BY <2>6, <2>8, ConcatProperties, LenProperties
  <2> HIDE DEF three
  <2>10. four \in Seq(Line) /\ Len(four) = Len(three) + Len(z2) /\ Len(z2) \in Nat
    BY <2>6, <2>9, ConcatProperties, LenProperties
  <2> HIDE DEF four
  <2> QED BY <2>3, <2>7, <2>8, <2>9, <2>10
<1>4. CASE ref.kind \in {"string", "number", "numbers", "hexline", "zonehex"}
  <2>1. PICK x : ReadRef(c, ref) = << x >>
    <3>1. CASE ref.kind = "string"
      BY <1>4, <3>1 DEF ReadRef, StringSlots, WellNamed
    <3>2. CASE ref.kind # "string" BY <1>4, <3>2 DEF ReadRef
    <3> QED BY <3>1, <3>2
  <2> DEFINE v == << x >>  K == {x}
  <2>2. ReadRef(c, ref) = v BY <2>1
  <2>3. v \in Seq(K) /\ Len(v) = 1 OBVIOUS
  <2> HIDE DEF v, K
  <2> QED BY <2>2, <2>3
<1> QED BY <1>1, <1>2, <1>3, <1>4 DEF CanRead

(***************************************************************************)
(* The search through the whole text finds what the search line by line    *)
(* finds: the piece lines() drops is empty, and no pattern occurs in it.   *)
(***************************************************************************)
LEMMA HoldsAsGrep ==
  ASSUME NEW K, NEW v \in Seq(K), v # << >>, NEW p, p # << >>
  PROVE  Holds(v, p) <=> Grep(v, p) # {}
<1>1. Len(v) \in Nat \ {0} BY EmptySeq, LenProperties
<1>2. /\ Len(Lines(v)) \in Nat /\ Len(Lines(v)) \in {Len(v) - 1, Len(v)}
      /\ \A i \in 1 .. Len(Lines(v)) : Lines(v)[i] = v[i]
      /\ Len(Lines(v)) = Len(v) \/ v[Len(v)] = Blank
  <2>1. CASE v[Len(v)] = Blank
    <3> DEFINE n == Len(v) - 1
    <3>1. n \in 0 .. Len(v) BY <1>1
    <3> HIDE DEF n
    <3>2. Len(SubSeq(v, 1, n)) = n /\ \A i \in 1 .. n : SubSeq(v, 1, n)[i] = v[i]
      BY <3>1, FirstLines
    <3>3. Lines(v) = SubSeq(v, 1, n) BY <2>1 DEF Lines, n
    <3>4. n = Len(v) - 1 /\ n \in Nat BY <1>1 DEF n
    <3> QED BY <2>1, <3>2, <3>3, <3>4
  <2>2. CASE v[Len(v)] # Blank BY <1>1, <2>2 DEF Lines
  <2> QED BY <2>1, <2>2
<1>3. ~ Hit(Blank, p) BY DEF Hit, Blank
<1>4. ASSUME NEW i \in 1 .. Len(v), Hit(v[i], p) PROVE Grep(v, p) # {}
  <2>1. i \in 1 .. Len(Lines(v)) BY <1>1, <1>2, <1>3, <1>4
  <2>2. i - 1 \in 0 .. Len(Lines(v)) - 1 /\ (i - 1) + 1 = i BY <1>2, <2>1
  <2>3. Hit(Lines(v)[(i - 1) + 1], p) BY <1>2, <1>4, <2>1, <2>2
  <2> QED BY <2>2, <2>3 DEF Grep
<1>5. ASSUME NEW j \in Grep(v, p) PROVE \E i \in 1 .. Len(v) : Hit(v[i], p)
  <2>1. j \in 0 .. Len(Lines(v)) - 1 /\ Hit(Lines(v)[j + 1], p) BY <1>5 DEF Grep
  <2>2. j + 1 \in 1 .. Len(Lines(v)) /\ j + 1 \in 1 .. Len(v) BY <1>1, <1>2, <2>1
  <2> QED BY <1>2, <2>1, <2>2
<1> QED BY <1>4, <1>5 DEF Holds

\* bool-and and bool-or over the lines, /query over the text.
LEMMA QueriesAgree ==
  ASSUME NEW K, NEW v \in Seq(K), v # << >>, NEW ps, << >> \notin ps
  PROVE  /\ QueryAnd(v, ps) = BoolAnd(v, ps).value
         /\ QueryOr(v, ps) = BoolOr(v, ps).value
<1>1. \A p \in ps : Holds(v, p) <=> Grep(v, p) # {} BY HoldsAsGrep
<1>2. BoolAnd(v, ps).value = (\A p \in ps : Grep(v, p) # {}) BY DEF BoolAnd
<1>3. BoolOr(v, ps).value = (UNION {Grep(v, p) : p \in ps} # {}) BY DEF BoolOr
<1>4. (UNION {Grep(v, p) : p \in ps} # {}) <=> \E p \in ps : Grep(v, p) # {} OBVIOUS
<1>5. QueryAnd(v, ps) = BoolAnd(v, ps).value BY <1>1, <1>2 DEF QueryAnd
<1>6. QueryOr(v, ps) = BoolOr(v, ps).value BY <1>1, <1>3, <1>4 DEF QueryOr
<1> QED BY <1>5, <1>6

(***************************************************************************)
(* Every answer that has not been collected is the one the text read at    *)
(* the start gives, however many commands have run since.                  *)
(***************************************************************************)
AnswerHolds(q, answer) ==
  /\ q \in Requests /\ ~ HandlerPanics(q)
  /\ q.kind # "wal" => answer = Answer(q)

\* A body that was cut has a client that is gone, so what is answered was whole.
AnswersOK ==
  \A c \in Client :
    /\ client[c].phase = "waiting" => client[c].body \in {"whole", "partial"}
    /\ client[c].phase = "answered" =>
         server # "bound" /\ AnswerHolds(client[c].request, client[c].answer)

\* An answer depends on nothing but the text, as long as it is not about the log.
LEMMA AnswerFollowsTheText ==
  ASSUME NEW q, q.kind # "wal", loaded' = loaded
  PROVE  Answer(q)' = Answer(q)
<1>1. \A i : Line0(i)' = Line0(i) BY DEF Line0
<1>2. Section(q.rec)' = Section(q.rec) BY <1>1 DEF Section, ForRecord
<1>3. SectionDb(q.rec)' = SectionDb(q.rec) BY <1>1 DEF SectionDb, ForRecord
<1>4. SectionAscii(q.rec)' = SectionAscii(q.rec) BY <1>1 DEF SectionAscii, ForRecord
<1>5. SectionZone(q.rec, q.slot)' = SectionZone(q.rec, q.slot) BY DEF SectionZone, ForRecord
<1>6. GrepAnswer(Decoded(q.pattern), q.index)' = GrepAnswer(Decoded(q.pattern), q.index)
  BY DEF GrepAnswer
<1>7. StateAnswer' = StateAnswer BY DEF StateAnswer
<1>8. RefAnswer(DecodedRef(q.ref))' = RefAnswer(DecodedRef(q.ref)) BY DEF RefAnswer
<1>9. \A l, o, r : CompareAnswer(l, o, r)' = CompareAnswer(l, o, r) BY DEF CompareAnswer
<1>10. QueryAnswer(q)' = QueryAnswer(q)
  BY <1>9, ZenonT(30) DEF QueryAnswer, CanScope, ScopeText
<1> QED BY <1>2, <1>3, <1>4, <1>5, <1>6, <1>7, <1>8, <1>9, <1>10 DEF Answer

LEMMA AnswerStays ==
  ASSUME NEW q, NEW answer, AnswerHolds(q, answer), loaded' = loaded
  PROVE  AnswerHolds(q, answer)'
<1>1. ~ HandlerPanics(q)' BY DEF AnswerHolds, HandlerPanics
<1>2. q.kind # "wal" => Answer(q)' = Answer(q) BY AnswerFollowsTheText
<1> QED BY <1>1, <1>2 DEF AnswerHolds

\* A step that changes one client and not the text.
LEMMA OtherAnswersStay ==
  ASSUME AnswersOK, DOMAIN client = Client, NEW h \in Client, NEW new,
         client' = [client EXCEPT ![h] = new], UNCHANGED << server, loaded >>,
         new.phase = "waiting" => new.body \in {"whole", "partial"},
         new.phase = "answered" => server # "bound" /\ AnswerHolds(new.request, new.answer)
  PROVE  AnswersOK'
<1> SUFFICES ASSUME NEW c \in Client
             PROVE  /\ client'[c].phase = "waiting" => client'[c].body \in {"whole", "partial"}
                    /\ client'[c].phase = "answered" =>
                         server' # "bound" /\ AnswerHolds(client[c].request, client[c].answer)'
  BY DEF AnswersOK
<1>1. CASE c = h
  <2>1. client'[c] = new BY <1>1
  <2>2. ASSUME new.phase = "answered" PROVE AnswerHolds(new.request, new.answer)'
    BY <2>2, AnswerStays
  <2>3. AnswerHolds(client[c].request, client[c].answer)' = AnswerHolds(new.request, new.answer)'
    BY <2>1 DEF AnswerHolds
  <2> QED BY <2>1, <2>2, <2>3
<1>2. CASE c # h
  <2>1. client'[c] = client[c] BY <1>2
  <2>2. ASSUME client[c].phase = "answered" PROVE AnswerHolds(client[c].request, client[c].answer)'
    <3>1. AnswerHolds(client[c].request, client[c].answer) BY <2>2 DEF AnswersOK
    <3>2. \A q, a : AnswerHolds(q, a) => q \in Requests /\ ~ HandlerPanics(q)'
      BY DEF AnswerHolds, HandlerPanics
    <3>3. \A q : q.kind # "wal" => Answer(q)' = Answer(q) BY AnswerFollowsTheText
    <3> QED BY <2>1, <3>1, <3>2, <3>3 DEF AnswerHolds
  <2> QED BY <2>1, <2>2 DEF AnswersOK
<1> QED BY <1>1, <1>2

\* A step that changes neither the clients nor the text.
LEMMA NoClientMoves ==
  ASSUME AnswersOK, UNCHANGED << loaded, client >>, server' \in {server, "panicked"}
  PROVE  AnswersOK'
<1> SUFFICES ASSUME NEW c \in Client
             PROVE  /\ client'[c].phase = "waiting" => client'[c].body \in {"whole", "partial"}
                    /\ client'[c].phase = "answered" =>
                         server' # "bound" /\ AnswerHolds(client[c].request, client[c].answer)'
  BY DEF AnswersOK
<1>1. \A q : HandlerPanics(q)' = HandlerPanics(q) BY DEF HandlerPanics
<1>2. \A q : q.kind # "wal" => Answer(q)' = Answer(q) BY AnswerFollowsTheText
<1> QED BY <1>1, <1>2 DEF AnswersOK, AnswerHolds

LEMMA StepKeepsAnswers == ServeInv /\ AnswersOK /\ [ServeNext]_serveVars => AnswersOK'
<1> SUFFICES ASSUME ServeInv, AnswersOK, [ServeNext]_serveVars PROVE AnswersOK'
  OBVIOUS
<1>1. DOMAIN client = Client BY DEF ServeInv, ClientsOK
<1>2. Silent.phase = "idle" BY DEF Silent
<1>3. CASE Start
  <2>1. server = "bound" /\ UNCHANGED client BY <1>3 DEF Start
  <2> QED BY <2>1 DEF AnswersOK
<1>4. CASE Handle
  <2>1. PICK h \in Client : h = Head(queue) /\ Waiting(h) /\ client[h].request \in Requests
    BY <1>4, HeadWaits DEF ServeInv, Handle
  <2>2. server = "up" /\ UNCHANGED << disk, loaded >> /\ client[h].body # "partial"
    BY <1>4, <2>1 DEF Handle
  <2>3. CASE server' = "panicked" /\ UNCHANGED client BY <2>2, <2>3, NoClientMoves
  <2>4. CASE /\ client' = [client EXCEPT ![h] = Answered(h)] /\ UNCHANGED server
             /\ ~ (client[h].body = "whole" /\ HandlerPanics(client[h].request))
    <3> DEFINE new == Answered(h)
    <3>1. CASE client[h].phase = "gone"
      <4>1. new = Silent BY <3>1 DEF Answered
      <4>2. client' = [client EXCEPT ![h] = new] /\ new.phase = "idle" BY <1>2, <2>4, <4>1
      <4> HIDE DEF new
      <4> QED BY <1>1, <2>2, <2>4, <4>2, OtherAnswersStay
    <3>2. CASE client[h].phase = "waiting"
      <4>1. client[h].body = "whole" BY <2>2, <3>2 DEF AnswersOK
      <4>2. ~ HandlerPanics(client[h].request) BY <2>4, <4>1
      <4>3. new = [phase |-> "answered", request |-> client[h].request,
                   answer |-> Answer(client[h].request)]
        BY <3>2 DEF Answered
      <4>4. AnswerHolds(new.request, new.answer) BY <2>1, <4>2, <4>3 DEF AnswerHolds
      <4>5. client' = [client EXCEPT ![h] = new] /\ new.phase = "answered" BY <2>4, <4>3
      <4> HIDE DEF new
      <4> QED BY <1>1, <2>2, <2>4, <4>4, <4>5, OtherAnswersStay
    <3> QED BY <2>1, <3>1, <3>2 DEF Waiting
  <2> QED BY <1>4, <2>1, <2>3, <2>4 DEF Handle
<1>5. ASSUME NEW c \in Client, NEW q \in Requests, NEW b \in {"whole", "partial"}, Send(c, q, b)
      PROVE  AnswersOK'
  <2> DEFINE new == [phase |-> "waiting", request |-> q, body |-> b]
  <2>1. /\ client' = [client EXCEPT ![c] = new] /\ UNCHANGED << server, loaded >>
        /\ new.phase = "waiting" /\ new.body \in {"whole", "partial"}
    BY <1>5 DEF Send
  <2> HIDE DEF new
  <2> QED BY <1>1, <2>1, OtherAnswersStay
<1>6. ASSUME NEW c \in Client, SendRest(c) PROVE AnswersOK'
  <2> DEFINE new == [client[c] EXCEPT !.body = "whole"]
  <2>1. client[c] # Silent /\ client[c].phase = "waiting" BY <1>2, <1>6 DEF SendRest
  <2>2. PICK q \in Requests, p \in {"waiting", "gone"}, b \in {"whole", "partial", "cut"} :
          client[c] = [phase |-> p, request |-> q, body |-> b]
    BY <2>1 DEF ServeInv, ClientsOK, ClientIsAt
  <2>3. new.phase = "waiting" /\ new.body = "whole" BY <2>1, <2>2
  <2>4. client' = [client EXCEPT ![c] = new] /\ UNCHANGED << server, loaded >>
    BY <1>6, <1>1 DEF SendRest
  <2> HIDE DEF new
  <2> QED BY <1>1, <2>3, <2>4, OtherAnswersStay
<1>7. ASSUME NEW c \in Client, HangUp(c) PROVE AnswersOK'
  <2> DEFINE new == [phase |-> "gone", request |-> client[c].request,
                     body |-> IF client[c].body = "partial" THEN "cut" ELSE client[c].body]
  <2>1. /\ client' = [client EXCEPT ![c] = new] /\ UNCHANGED << server, loaded >>
        /\ new.phase = "gone"
    BY <1>7 DEF HangUp
  <2> HIDE DEF new
  <2> QED BY <1>1, <2>1, OtherAnswersStay
<1>8. ASSUME NEW c \in Client, Collect(c) PROVE AnswersOK'
  <2>1. client' = [client EXCEPT ![c] = Silent] /\ UNCHANGED << server, loaded >>
    BY <1>8 DEF Collect
  <2> QED BY <1>1, <1>2, <2>1, OtherAnswersStay
<1>9. CASE UNCHANGED << server, loaded, client >> BY <1>9, NoClientMoves
<1> QED BY <1>3, <1>4, <1>5, <1>6, <1>7, <1>8, <1>9 DEF ServeNext, serveVars, CommandWrites

LEMMA NoAnswersYet == ServeInit => AnswersOK
  BY DEF ServeInit, AnswersOK, Silent

\* An answer that waits to be collected is that of its request.
LEMMA TheAnswer ==
  ASSUME AnswersOK, NEW c \in Client, NEW kind, kind # "wal", Got(c, kind)
  PROVE  /\ client[c].request \in Requests /\ client[c].request.kind = kind
         /\ ~ HandlerPanics(client[c].request)
         /\ client[c].answer = Answer(client[c].request)
  BY DEF AnswersOK, AnswerHolds, Got

\* A reference other than the word 0 and hex:A:B is taken for the same by both.
LEMMA TakenAlike ==
  ASSUME NEW ref, WellNamed(ref), ~ IsZero(ref)
  PROVE  /\ IF ref.kind = "colon" THEN Parsed(ref) = Unreadable ELSE Parsed(ref) = Command(ref)
         /\ WellNamed(Command(ref))
         /\ Fatal(loaded, Command(ref)) => Fatal(loaded, ref)
         /\ FromScan(Command(ref)) => Command(ref) = ref
         /\ FromScan(ref) => Command(ref) = ref
<1>1. CASE ref.kind = "colon"
  <2>1. Command(ref) = Literal(ref.start, ref.end) BY <1>1 DEF Command
  <2>2. Command(ref).kind = "lines" /\ Command(ref).start = ref.start /\ Command(ref).end = ref.end
    BY <2>1 DEF Literal
  <2>3. Parsed(ref) = Unreadable BY <1>1 DEF Parsed
  <2> QED BY <1>1, <2>2, <2>3 DEF WellNamed, Fatal, FromScan
<1>2. CASE WordIn(ref, HexWord)
  <2>1. PICK w \in DOMAIN HexWord : ref.value = << TextLine(w) >> BY <1>2 DEF WordIn
  <2>2. Word(ref) = w BY <2>1 DEF Word, TextLine
  <2>3. HexWord[w] \in Nat BY <2>1, WordAssumption
  <2>4. ref.kind = "bare" BY <1>2 DEF WordIn
  <2>5. Command(ref) = Literal(HexWord[w], HexWord[w]) /\ Parsed(ref) = Command(ref)
    BY <1>2, <2>2, <2>4 DEF Command, Parsed, LineNamed
  <2>6. Command(ref).kind = "lines" /\ Command(ref).start \in Nat /\ Command(ref).end \in Nat
    BY <2>3, <2>5 DEF Literal
  <2> QED BY <2>4, <2>5, <2>6 DEF WellNamed, Fatal, FromScan
<1>3. CASE ref.kind = "bare" /\ ~ WordIn(ref, HexWord)
  <2>1. Command(ref) = AsText(ref) /\ Parsed(ref) = Command(ref) BY <1>3 DEF Command, Parsed
  <2>2. Command(ref).kind = "text" BY <2>1 DEF AsText
  <2> QED BY <1>3, <2>1, <2>2 DEF WellNamed, Fatal, FromScan
<1>4. CASE ref.kind \notin {"bare", "colon"}
  BY <1>4 DEF Parsed, Command, WordIn
<1> QED BY <1>1, <1>2, <1>3, <1>4 DEF WordIn

\* What either reads of it.
LEMMA ReadAlike ==
  ASSUME loaded \in Content, NEW ref, WellNamed(ref), ~ IsZero(ref)
  PROVE  /\ CommandCan(ref) /\ ref.kind # "colon" => CanServe(loaded, Parsed(ref))
         /\ CanServe(loaded, Parsed(ref)) /\ ~ Fatal(loaded, ref) =>
              CommandCan(ref) \/ OnlyScanned(ref)
         /\ CanServe(loaded, Parsed(ref)) =>
              /\ Parsed(ref) = Command(ref)
              /\ CommandCan(ref) => Served(loaded, Parsed(ref)) = CommandReads(ref)
<1> DEFINE r == Command(ref)
<1>1. /\ IF ref.kind = "colon" THEN Parsed(ref) = Unreadable ELSE Parsed(ref) = r
      /\ WellNamed(r) /\ (Fatal(loaded, r) => Fatal(loaded, ref))
      /\ FromScan(r) => r = ref
  BY TakenAlike
<1> HIDE DEF r
<1>2. CASE ref.kind = "colon"
  BY <1>1, <1>2 DEF CanServe, Unreadable
<1>3. CASE ref.kind # "colon"
  <2>1. Parsed(ref) = r BY <1>1, <1>3
  <2>2. CanRead(loaded, r) => CanServe(loaded, r) /\ Served(loaded, r) = ReadRef(loaded, r)
    BY <1>1, ServedIsRead
  <2>3. CanServe(loaded, r) /\ ~ Fatal(loaded, r) =>
          CanRead(loaded, r) \/ (FromScan(r) /\ ~ CanWriteRecord(loaded, r.rec))
    BY <1>1, ReadOrRefusedByStore
  <2>4. (FromScan(r) /\ ~ CanWriteRecord(loaded, r.rec)) => OnlyScanned(ref)
    BY <1>1 DEF OnlyScanned
  <2>5. CommandCan(ref) = CanRead(loaded, r) /\ CommandReads(ref) = ReadRef(loaded, r)
    BY DEF CommandCan, CommandReads, r
  <2> QED BY <1>1, <2>1, <2>2, <2>3, <2>4, <2>5 DEF r
<1> QED BY <1>2, <1>3

LEMMA Codes ==
  /\ \A x : Reply(200, x).code = 200 /\ Reply(200, x).value = x
  /\ BadRequest.code = 400 /\ NotFound.code = 404 /\ Broken.code = 500
  /\ Bare(400).code = 400
  BY DEF Reply, Bare, BadRequest, NotFound, Broken

LEMMA RefsAnswerAsTheCommand ==
  ASSUME ServeInv, AnswersOK, NEW c \in Client, Got(c, "ref"),
         Ascii(client[c].request.ref), ~ IsZero(client[c].request.ref)
  PROVE  ReadsAsTheCommand(client[c].request.ref, client[c].answer)
<1> DEFINE q == client[c].request  ref == q.ref  answer == client[c].answer
           s == Parsed(ref)
<1>1. q \in Requests /\ q.kind = "ref" /\ ~ HandlerPanics(q) /\ answer = Answer(q)
  BY TheAnswer
<1>2. WellNamed(ref) /\ ~ Fatal(loaded, ref) /\ answer = RefAnswer(DecodedRef(ref))
  BY <1>1, RequestAssumption DEF HandlerPanics, Answer
<1>3. loaded \in Content BY DEF ServeInv, ServerOK
<1>4. answer = IF CanServe(loaded, s) THEN Reply(200, Served(loaded, s)) ELSE BadRequest
  BY <1>2 DEF RefAnswer, Ascii
<1>5. /\ CommandCan(ref) /\ ref.kind # "colon" => CanServe(loaded, s)
      /\ CanServe(loaded, s) => CommandCan(ref) \/ OnlyScanned(ref)
      /\ CanServe(loaded, s) /\ CommandCan(ref) => Served(loaded, s) = CommandReads(ref)
  BY <1>2, <1>3, ReadAlike
<1> HIDE DEF q, ref, answer, s
<1>6. (answer.code = 200) <=> CanServe(loaded, s) BY <1>4, Codes
<1>7. CanServe(loaded, s) => answer.value = Served(loaded, s) BY <1>4, Codes
<1>8. ReadsAsTheCommand(ref, answer) BY <1>5, <1>6, <1>7 DEF ReadsAsTheCommand
<1> QED BY <1>8 DEF q, ref, answer

\* A comparison whose sides make no slice panic.
LEMMA ComparedAlike ==
  ASSUME loaded \in Content, NEW q, WellNamed(q.left), WellNamed(q.right),
         ~ IsZero(q.left), ~ IsZero(q.right), ~ Fatal(loaded, q.left),
         CanServe(loaded, Parsed(q.left)) => ~ Fatal(loaded, q.right)
  PROVE  ComparesAsTheCommand(q, CompareAnswer(q.left, q.op, q.right))
<1> DEFINE answer == CompareAnswer(q.left, q.op, q.right)
           l == Parsed(q.left)  r == Parsed(q.right)
           v == Served(loaded, l)  w == Served(loaded, r)
           lcan == CanServe(loaded, l)  rcan == CanServe(loaded, r)
<1>1. /\ CommandCan(q.left) /\ q.left.kind # "colon" => lcan
      /\ lcan => CommandCan(q.left) \/ OnlyScanned(q.left)
      /\ lcan /\ CommandCan(q.left) => v = CommandReads(q.left)
  BY ReadAlike
<1>2. /\ CommandCan(q.right) /\ q.right.kind # "colon" => rcan
      /\ lcan /\ rcan => CommandCan(q.right) \/ OnlyScanned(q.right)
      /\ rcan /\ CommandCan(q.right) => w = CommandReads(q.right)
  BY ReadAlike
<1>3. answer = IF lcan /\ rcan /\ CanCompare(v, q.op, w) THEN Reply(200, Compared(v, q.op, w))
               ELSE BadRequest
  BY DEF CompareAnswer
<1> HIDE DEF answer, l, r, v, w, lcan, rcan
<1>4. (answer.code = 200) <=> (lcan /\ rcan /\ CanCompare(v, q.op, w)) BY <1>3, Codes
<1>5. answer.code = 200 => answer.value = Compared(v, q.op, w) BY <1>3, <1>4, Codes
<1>6. ASSUME CommandCompares(q), q.left.kind # "colon", q.right.kind # "colon"
      PROVE  answer.code = 200
  <2>1. /\ CommandCan(q.left) /\ CommandCan(q.right)
        /\ CanCompare(CommandReads(q.left), q.op, CommandReads(q.right))
    BY <1>6 DEF CommandCompares
  <2> QED BY <1>1, <1>2, <1>4, <1>6, <2>1
<1>7. ASSUME answer.code = 200, CommandCan(q.left), CommandCan(q.right)
      PROVE  CommandCompares(q) /\ SaysTheSame(q, answer)
  <2>1. v = CommandReads(q.left) /\ w = CommandReads(q.right) /\ CanCompare(v, q.op, w)
    BY <1>1, <1>2, <1>4, <1>7
  <2> QED BY <1>5, <1>7, <2>1 DEF CommandCompares, SaysTheSame
<1>8. ComparesAsTheCommand(q, answer)
  BY <1>1, <1>2, <1>4, <1>6, <1>7 DEF ComparesAsTheCommand
<1> QED BY <1>8 DEF answer

LEMMA BoolsAnswerAsTheCommand ==
  ASSUME ServeInv, AnswersOK, NEW c \in Client,
         \/ /\ Got(c, "ref-bool")
            /\ Ascii(client[c].request.left) /\ Ascii(client[c].request.right)
         \/ Got(c, "query") /\ client[c].request.form = "compare",
         ~ IsZero(client[c].request.left), ~ IsZero(client[c].request.right)
  PROVE  ComparesAsTheCommand(client[c].request, client[c].answer)
<1> DEFINE q == client[c].request  answer == client[c].answer
<1>1. loaded \in Content BY DEF ServeInv, ServerOK
<1>2. CASE Got(c, "ref-bool") /\ Ascii(q.left) /\ Ascii(q.right)
  <2>1. q \in Requests /\ q.kind = "ref-bool" /\ ~ HandlerPanics(q) /\ answer = Answer(q)
    BY <1>2, TheAnswer
  <2>2. WellNamed(q.left) /\ WellNamed(q.right) BY <2>1, RequestAssumption DEF Compares
  <2>3. answer = CompareAnswer(q.left, q.op, q.right) BY <1>2, <2>1 DEF Answer, Ascii
  <2>4. ~ Fatal(loaded, q.left) /\ (CanServe(loaded, Parsed(q.left)) => ~ Fatal(loaded, q.right))
    BY <1>2, <2>1 DEF HandlerPanics, Ascii
  <2> HIDE DEF q, answer
  <2>5. ComparesAsTheCommand(q, CompareAnswer(q.left, q.op, q.right))
    BY <1>1, <2>2, <2>4, ComparedAlike DEF q
  <2> QED BY <2>3, <2>5 DEF q, answer
<1>3. CASE Got(c, "query") /\ q.form = "compare"
  <2>1. q \in Requests /\ q.kind = "query" /\ ~ HandlerPanics(q) /\ answer = Answer(q)
    BY <1>3, TheAnswer
  <2>2. WellNamed(q.left) /\ WellNamed(q.right) BY <1>3, <2>1, RequestAssumption DEF Compares
  <2>3. answer = CompareAnswer(q.left, q.op, q.right) BY <1>3, <2>1 DEF Answer, QueryAnswer
  <2>4. ~ Fatal(loaded, q.left) /\ ~ Fatal(loaded, q.right)
    BY <1>3, <2>1 DEF HandlerPanics
  <2> HIDE DEF q, answer
  <2>5. ComparesAsTheCommand(q, CompareAnswer(q.left, q.op, q.right))
    BY <1>1, <2>2, <2>4, ComparedAlike DEF q
  <2> QED BY <2>3, <2>5 DEF q, answer
<1> QED BY <1>2, <1>3

\* What either searches in.
LEMMA ScopedAlike ==
  ASSUME loaded \in Content, NEW scope, WellNamed(scope), ~ IsZero(scope),
         scope # All => ~ Fatal(loaded, Expanded(scope))
  PROVE  /\ CommandCanScope(scope) /\ scope.kind # "colon" /\ ~ WordIn(scope, Numbered) =>
              CanScope(scope)
         /\ CanScope(scope) => CommandCanScope(scope) \/ OnlyScanned(CommandScope(scope))
         /\ CanScope(scope) /\ CommandCanScope(scope) =>
              /\ ScopeText(scope) = CommandScopeText(scope)
              /\ Len(ScopeText(scope)) \in Nat \ {0} /\ \E K : ScopeText(scope) \in Seq(K)
<1>1. CASE scope = All
  <2>1. ScopeText(scope) = loaded /\ CommandScopeText(scope) = loaded
        /\ CanScope(scope) /\ CommandCanScope(scope)
    BY <1>1 DEF ScopeText, CommandScopeText, CanScope, CommandCanScope
  <2> QED BY <2>1, EmptySeq, LenProperties DEF Content
<1>2. CASE scope # All
  <2> DEFINE e == Expanded(scope)  s == Parsed(e)  m == CommandScope(scope)
  <2>1. /\ WellNamed(e) /\ ~ IsZero(e) /\ ~ Fatal(loaded, e)
        /\ e = scope \/ e.kind \notin {"bare", "colon", "text"}
    BY <1>2, ExpandedIsNamed
  <2>2. /\ CanScope(scope) = (s.kind # "text" /\ CanServe(loaded, s))
        /\ ScopeText(scope) = Served(loaded, s)
        /\ CommandCanScope(scope) = (m.kind # "text" /\ CanRead(loaded, m))
        /\ CommandScopeText(scope) = ReadRef(loaded, m)
    BY <1>2 DEF CanScope, ScopeText, CommandCanScope, CommandScopeText
  <2>3. m = IF WordIn(e, Numbered) THEN [kind |-> "index", rec |-> Numbered[Word(e)]]
            ELSE Command(e)
    BY DEF CommandScope
  <2> HIDE DEF e, s, m
  <2>4. CASE WordIn(e, Numbered)
    <3>1. e = scope /\ e.kind = "bare" BY <2>1, <2>4 DEF WordIn
    <3>2. ~ WordIn(e, HexWord)
      <4> SUFFICES ASSUME WordIn(e, HexWord) PROVE FALSE
        OBVIOUS
      <4>1. PICK w \in DOMAIN Numbered : e.value = << TextLine(w) >> BY <2>4 DEF WordIn
      <4>2. PICK x \in DOMAIN HexWord : e.value = << TextLine(x) >> BY DEF WordIn
      <4>3. Word(e) = w /\ Word(e) = x BY <4>1, <4>2 DEF Word, TextLine
      <4>4. w = Nought BY <4>1, <4>2, <4>3, WordAssumption
      <4> QED BY <2>1, <3>1, <4>1, <4>4 DEF IsZero
    <3>3. s = AsText(e) BY <3>1, <3>2 DEF Parsed, s
    <3>4. s.kind = "text" BY <3>3 DEF AsText
    <3> QED BY <2>2, <2>4, <3>1, <3>4
  <2>5. CASE ~ WordIn(e, Numbered)
    <3>1. m = Command(e) BY <2>3, <2>5
    <3>2. /\ CommandCan(e) /\ e.kind # "colon" => CanServe(loaded, s)
          /\ CanServe(loaded, s) => CommandCan(e) \/ OnlyScanned(e)
          /\ CanServe(loaded, s) =>
               /\ s = m
               /\ CommandCan(e) => Served(loaded, s) = CommandReads(e)
      BY <2>1, <3>1, ReadAlike DEF s
    <3>3. CommandCan(e) = CanRead(loaded, m) /\ CommandReads(e) = ReadRef(loaded, m)
      BY <3>1 DEF CommandCan, CommandReads
    <3>4. /\ WellNamed(m) /\ (FromScan(e) => m = e)
          /\ IF e.kind = "colon" THEN s = Unreadable ELSE s = m
      BY <2>1, <3>1, TakenAlike DEF s
    <3>5. CanRead(loaded, m) /\ m.kind # "text" =>
            Len(ReadRef(loaded, m)) \in Nat \ {0} /\ \E K : ReadRef(loaded, m) \in Seq(K)
      BY <3>4, ReadIsText
    <3>6. OnlyScanned(e) => OnlyScanned(m) BY <3>4 DEF OnlyScanned
    <3>7. ASSUME CommandCanScope(scope), scope.kind # "colon" PROVE CanScope(scope)
      <4>1. m.kind # "text" /\ CanRead(loaded, m) /\ e.kind # "colon" BY <2>1, <2>2, <3>7
      <4> QED BY <2>2, <3>2, <3>3, <3>4, <4>1
    <3>8. ASSUME CanScope(scope) PROVE CommandCanScope(scope) \/ OnlyScanned(m)
      <4>1. s.kind # "text" /\ CanServe(loaded, s) BY <2>2, <3>8
      <4>2. s = m /\ (CommandCan(e) \/ OnlyScanned(e)) BY <3>2, <4>1
      <4> QED BY <2>2, <3>3, <3>6, <4>1, <4>2
    <3>9. ASSUME CanScope(scope), CommandCanScope(scope)
          PROVE  /\ ScopeText(scope) = CommandScopeText(scope)
                 /\ Len(ScopeText(scope)) \in Nat \ {0} /\ \E K : ScopeText(scope) \in Seq(K)
      <4>1. CanServe(loaded, s) /\ m.kind # "text" /\ CanRead(loaded, m) BY <2>2, <3>9
      <4>2. Served(loaded, s) = ReadRef(loaded, m) BY <3>2, <3>3, <4>1
      <4> QED BY <2>2, <3>5, <4>1, <4>2
    <3> QED BY <3>7, <3>8, <3>9 DEF m
  <2> QED BY <2>4, <2>5
<1> QED BY <1>1, <1>2

LEMMA SearchesAnswerAsTheCommand ==
  ASSUME ServeInv, AnswersOK, NEW c \in Client, Got(c, "query"),
         client[c].request.form = "search", ~ IsZero(client[c].request.scope)
  PROVE  SearchesAsTheCommand(client[c].request, client[c].answer)
<1> DEFINE q == client[c].request  answer == client[c].answer  scope == q.scope
           op == q.operation  ps == q.patterns  text == ScopeText(scope)
<1>1. q \in Requests /\ q.kind = "query" /\ ~ HandlerPanics(q) /\ answer = Answer(q)
  BY TheAnswer
<1>2. answer = QueryAnswer(q) /\ WellNamed(scope)
  BY <1>1, RequestAssumption DEF Answer, Searches
<1>3. scope # All => ~ Fatal(loaded, Expanded(scope))
  BY <1>1 DEF HandlerPanics, Searches
<1>4. loaded \in Content BY DEF ServeInv, ServerOK
<1>5. answer = IF ~ CanScope(scope) THEN Bare(400)
               ELSE IF op = "and" THEN Reply(200, QueryAnd(text, ps))
               ELSE IF op = "or"  THEN Reply(200, QueryOr(text, ps))
               ELSE Bare(400)
  BY <1>2 DEF QueryAnswer
<1> HIDE DEF q, answer, scope, op, ps, text
<1>6. (answer.code = 200) <=> (CanScope(scope) /\ op \in {"and", "or"}) BY <1>5, Codes
<1>7. answer.code = 200 =>
        answer.value = IF op = "and" THEN QueryAnd(text, ps) ELSE QueryOr(text, ps)
  BY <1>5, <1>6, Codes
<1>8. /\ CommandCanScope(scope) /\ scope.kind # "colon" /\ ~ WordIn(scope, Numbered) =>
           CanScope(scope)
      /\ CanScope(scope) => CommandCanScope(scope) \/ OnlyScanned(CommandScope(scope))
      /\ CanScope(scope) /\ CommandCanScope(scope) =>
           /\ text = CommandScopeText(scope)
           /\ Len(text) \in Nat \ {0} /\ \E K : text \in Seq(K)
  BY <1>2, <1>3, <1>4, ScopedAlike DEF scope, text, q
<1>9. ASSUME answer.code = 200, CommandCanScope(scope), << >> \notin ps
      PROVE  answer.value = CommandSearches(q)
  <2>1. text = CommandScopeText(scope) /\ Len(text) \in Nat \ {0}
    BY <1>6, <1>8, <1>9
  <2>2. PICK K : text \in Seq(K) BY <1>6, <1>8, <1>9
  <2>3. text # << >> BY <2>1, <2>2, EmptySeq
  <2>4. /\ QueryAnd(text, ps) = BoolAnd(text, ps).value
        /\ QueryOr(text, ps) = BoolOr(text, ps).value
    BY <1>9, <2>2, <2>3, QueriesAgree
  <2>5. CommandSearches(q) = IF op = "and" THEN BoolAnd(text, ps).value
                             ELSE BoolOr(text, ps).value
    BY <2>1 DEF CommandSearches, scope, op, ps
  <2> QED BY <1>7, <1>9, <2>4, <2>5
<1>10. /\ CommandCanScope(scope) /\ op \in {"and", "or"} /\ scope.kind # "colon"
          /\ ~ WordIn(scope, Numbered) => answer.code = 200
       /\ answer.code = 200 /\ CommandCanScope(scope) =>
            << >> \in ps \/ answer.value = CommandSearches(q)
       /\ answer.code = 200 /\ ~ CommandCanScope(scope) => OnlyScanned(CommandScope(scope))
  BY <1>6, <1>8, <1>9
<1>11. SearchesAsTheCommand(q, answer)
  BY <1>10 DEF SearchesAsTheCommand, scope, op, ps
<1> QED BY <1>11 DEF q, answer

LEMMA AnswersAsTheCommand == ASSUME ServeInv, AnswersOK PROVE ServerAnswersAsTheCommand
<1> SUFFICES ASSUME NEW c \in Client
             PROVE  LET q == client[c].request
                        answer == client[c].answer
                    IN  /\ Got(c, "ref") /\ Ascii(q.ref) /\ ~ IsZero(q.ref) =>
                             ReadsAsTheCommand(q.ref, answer)
                        /\ Got(c, "ref-bool") /\ Ascii(q.left) /\ Ascii(q.right)
                           /\ ~ IsZero(q.left) /\ ~ IsZero(q.right) =>
                             ComparesAsTheCommand(q, answer)
                        /\ Got(c, "query") /\ q.form = "compare"
                           /\ ~ IsZero(q.left) /\ ~ IsZero(q.right) =>
                             ComparesAsTheCommand(q, answer)
                        /\ Got(c, "query") /\ q.form = "search" /\ ~ IsZero(q.scope) =>
                             SearchesAsTheCommand(q, answer)
  BY DEF ServerAnswersAsTheCommand
<1> QED BY RefsAnswerAsTheCommand, BoolsAnswerAsTheCommand, SearchesAnswerAsTheCommand

\* Whatever commands do to the file while the server runs, /ref, /ref-bool and
\* /query say of the document it read what ref-get, ref-bool, bool-and and
\* bool-or say of it, and fail where they fail: the parse_ref_spec of serve.rs
\* and that of main.rs take every spelling alike but "0" and hex:A:B, the two
\* read_ref_value agree on every kind of reference but for fields a Store
\* refuses, and the search through the whole text agrees with the search line by
\* line.
THEOREM ServerIsTheCommand == ServeSpec => []ServerAnswersAsTheCommand
<1>1. ServeInv /\ AnswersOK => ServerAnswersAsTheCommand BY AnswersAsTheCommand
<1>2. ServeInit => ServeInv /\ AnswersOK BY InitIsInv, NoAnswersYet
<1>3. ServeInv /\ AnswersOK /\ [ServeNext]_serveVars => (ServeInv /\ AnswersOK)'
  BY StepKeepsInv, StepKeepsAnswers
<1> QED BY <1>1, <1>2, <1>3, PTL DEF ServeSpec

(***************************************************************************)
(* One endpoint against another.                                           *)
(***************************************************************************)
\* What /ref says of a zone or of a string.
LEMMA RefReads ==
  ASSUME AnswersOK, NEW d \in Client, Got(d, "ref"), client[d].answer.code = 200,
         client[d].request.ref.kind \in {"zone", "string"}
  PROVE  LET ref == client[d].request.ref
         IN  /\ CanServe(loaded, ref) /\ ~ Fatal(loaded, ref) /\ WellNamed(ref)
             /\ client[d].answer.value = Served(loaded, ref)
<1> DEFINE p == client[d].request  other == client[d].answer  ref == p.ref
<1>1. p \in Requests /\ p.kind = "ref" /\ ~ HandlerPanics(p) /\ other = Answer(p)
  BY TheAnswer
<1>2. WellNamed(ref) /\ ~ Fatal(loaded, ref) BY <1>1, RequestAssumption DEF HandlerPanics
<1>3. other = RefAnswer(DecodedRef(ref)) BY <1>1, SMTT(30) DEF Answer
<1>4. Parsed(DecodedRef(ref)) = ref BY DEF DecodedRef, Parsed, WordIn
<1>5. other = IF CanServe(loaded, ref) THEN Reply(200, Served(loaded, ref)) ELSE BadRequest
  BY <1>3, <1>4 DEF RefAnswer
<1> HIDE DEF other, ref
<1>6. CanServe(loaded, ref) /\ other.value = Served(loaded, ref)
  BY <1>5, Codes DEF other
<1> QED BY <1>2, <1>6 DEF other, ref

LEMMA ZonesAreRefs ==
  ASSUME ServeInv, AnswersOK, NEW c \in Client, NEW d \in Client
  PROVE  ZoneAsRef(c, d)
<1> SUFFICES ASSUME Got(c, "zone"), Got(d, "ref"),
                    client[c].answer.code = 200, client[d].answer.code = 200,
                    client[d].request.ref.kind = "zone",
                    client[d].request.ref.rec = client[c].request.rec,
                    client[d].request.ref.slot = client[c].request.slot
             PROVE  client[c].answer.value = client[d].answer.value
  BY DEF ZoneAsRef, BothServed
<1> DEFINE q == client[c].request  answer == client[c].answer
           ref == client[d].request.ref  other == client[d].answer
           a == AsciiLine(loaded, q.rec)  p == ZoneAt(loaded, q.rec, q.slot)
           ls == Lines(loaded)
<1>1. answer = SectionZone(q.rec, q.slot)
  <2>1. q.kind = "zone" /\ answer = Answer(q) BY TheAnswer
  <2> QED BY <2>1 DEF Answer
<1>2. /\ HasRec(loaded, q.rec) /\ q.slot \in ZoneIdx
      /\ answer.value = Join(Extracted(loaded, a, q.slot))
  BY <1>1, Codes DEF SectionZone, ForRecord
<1>3. CanServe(loaded, ref) /\ other.value = Served(loaded, ref) BY RefReads
<1>4. RangeNamed(loaded, ref) = p /\ Scanned(loaded, q.rec) /\ (p # NoZone => InFile(loaded, p))
  BY <1>3 DEF RangeNamed, CanServe
<1>5. loaded \in Content /\ Len(ls) \in Nat BY LinesType DEF ServeInv, ServerOK
<1>6. a < Len(ls) /\ a \in Nat /\ p \in ZonePair
  <2>1. String3Line(loaded, q.rec) < Len(ls) BY <1>4 DEF Scanned, Readable
  <2>2. HeaderLine(loaded, q.rec) \in Nat
    BY <1>2 DEF HasRec, HeadersOf, Headers, HeaderLine
  <2>3. a < Len(ls) BY <1>5, <2>1, <2>2 DEF AsciiLine, String3Line
  <2> QED BY <1>2, <1>5, <2>3, ZoneWordsType
<1>7. ZoneHere(loaded, a, q.slot) = p BY DEF ZoneHere, ZoneAt
<1>8. CASE p = NoZone
  <2>1. Extracted(loaded, a, q.slot) = << >> BY <1>7, <1>8 DEF Extracted
  <2>2. Served(loaded, ref) = Empty BY <1>4, <1>8, SMTT(30) DEF Served
  <2> QED BY <1>2, <1>3, <2>1, <2>2 DEF Join, Empty
<1>9. CASE p # NoZone
  <2>1. p.end < Len(ls) BY <1>4, <1>9, SMTT(30) DEF InFile
  <2>2. Extracted(loaded, a, q.slot) = SubSeq(ls, p.start + 1, p.end + 1)
    BY <1>5, <1>6, <1>7, <1>9, <2>1, SMTT(30) DEF Extracted, ZonePair
  <2>3. Served(loaded, ref) = Join(SubSeq(ls, p.start + 1, p.end + 1))
    BY <1>4, <1>9, SMTT(30) DEF Served
  <2> QED BY <1>2, <1>3, <2>2, <2>3
<1> QED BY <1>8, <1>9

LEMMA StatesAreRefs ==
  ASSUME ServeInv, AnswersOK, NEW c \in Client, NEW d \in Client
  PROVE  StateAsRef(c, d)
<1> SUFFICES ASSUME Got(c, "state"), Got(d, "ref"),
                    client[c].answer.code = 200, client[d].answer.code = 200,
                    client[d].request.ref.kind = "zone"
             PROVE  client[c].answer.value[client[d].request.ref.rec].zones[client[d].request.ref.slot]
                      = client[d].answer.value
  BY Zenon DEF StateAsRef, BothServed
<1> DEFINE answer == client[c].answer
           ref == client[d].request.ref  other == client[d].answer
           p == ZoneAt(loaded, ref.rec, ref.slot)
<1>1. answer = StateAnswer
  <2>1. client[c].request.kind = "state" /\ answer = Answer(client[c].request) BY TheAnswer
  <2> QED BY <2>1 DEF Answer
<1>2. answer.value = State(loaded) BY <1>1, Codes DEF StateAnswer
<1>3. /\ CanServe(loaded, ref) /\ ~ Fatal(loaded, ref) /\ WellNamed(ref)
      /\ other.value = Served(loaded, ref)
  BY RefReads
<1>4. ref.rec \in Rec /\ ref.slot \in ZoneIdx BY <1>3 DEF WellNamed
<1>5. RangeNamed(loaded, ref) = p BY DEF RangeNamed
<1>6. Readable(loaded, ref.rec) /\ (p # NoZone => Sliceable(loaded, p))
  BY <1>3, <1>5 DEF CanServe, Fatal, Scanned, Sliceable
<1>7. answer.value[ref.rec].zones[ref.slot] = Contents(loaded, ref.rec, ref.slot)
  BY <1>2, <1>4, <1>6 DEF State
<1>8. Contents(loaded, ref.rec, ref.slot) = Served(loaded, ref)
  BY <1>5, <1>6, SMTT(30) DEF Contents, Served, Sliced
<1>9. other.value = answer.value[ref.rec].zones[ref.slot] BY <1>3, <1>7, <1>8
<1> QED BY <1>9, Zenon

LEMMA StringsAreRefs ==
  ASSUME AnswersOK, NEW c \in Client, NEW d \in Client,
         Got(c, "db"), Got(d, "ref"),
         client[c].answer.code = 200, client[d].answer.code = 200,
         client[d].request.ref.kind = "string",
         client[d].request.ref.rec = client[c].request.rec
  PROVE  client[d].answer.value
           = << client[c].answer.value.strings[client[d].request.ref.slot] >>
<1> DEFINE q == client[c].request  answer == client[c].answer
           ref == client[d].request.ref  other == client[d].answer
           a == AsciiLine(loaded, q.rec)
<1>1. answer = SectionDb(q.rec)
  <2>1. q.kind = "db" /\ answer = Answer(q) BY TheAnswer
  <2> QED BY <2>1 DEF Answer
<1>2. answer.value.strings = [i \in 1 .. 3 |-> Line0(a + 1 + i)]
  BY <1>1, Codes DEF SectionDb, ForRecord
<1>3. WellNamed(ref) /\ other.value = Served(loaded, ref) BY RefReads
<1>4. ref.slot \in 1 .. 3 BY <1>3 DEF WellNamed
<1>5. answer.value.strings[ref.slot] = LineAt(Lines(loaded), a + 1 + ref.slot)
  BY <1>2, <1>4 DEF Line0
<1>6. other.value = << LineAt(Lines(loaded), a + 1 + ref.slot) >> BY <1>3 DEF Served
<1> QED BY <1>5, <1>6

\* A comparison and its contrary.
LEMMA ContrariesAreTold ==
  ASSUME AnswersOK, NEW c \in Client, NEW d \in Client,
         Got(c, "ref-bool"), Got(d, "ref-bool"),
         client[c].answer.code = 200, client[d].answer.code = 200,
         client[c].request.left = client[d].request.left,
         client[c].request.right = client[d].request.right,
         << client[c].request.op, client[d].request.op >>
           \in {<< "eq", "ne" >>, << "gt", "lte" >>, << "lt", "gte" >>}
  PROVE  client[c].answer.value # client[d].answer.value
<1> DEFINE q == client[c].request  answer == client[c].answer
           p == client[d].request  other == client[d].answer
           l == Parsed(DecodedRef(q.left))  r == Parsed(DecodedRef(q.right))
           v == Served(loaded, l)  w == Served(loaded, r)
<1>1. answer = CompareAnswer(DecodedRef(q.left), q.op, DecodedRef(q.right))
  <2>1. q.kind = "ref-bool" /\ answer = Answer(q) BY TheAnswer
  <2> QED BY <2>1 DEF Answer
<1>2. other = CompareAnswer(DecodedRef(q.left), p.op, DecodedRef(q.right))
  <2>1. p.kind = "ref-bool" /\ other = Answer(p) BY TheAnswer
  <2> QED BY <2>1 DEF Answer
<1>3. CanCompare(v, q.op, w) /\ answer.value = Compared(v, q.op, w)
  BY <1>1, Codes DEF CompareAnswer
<1>4. CanCompare(v, p.op, w) /\ other.value = Compared(v, p.op, w)
  BY <1>2, Codes DEF CompareAnswer
<1>5. \/ q.op = "eq" /\ p.op = "ne"
      \/ q.op = "gt" /\ p.op = "lte"
      \/ q.op = "lt" /\ p.op = "gte"
  OBVIOUS
<1> DEFINE qop == q.op  pop == p.op  av == answer.value  ov == other.value
<1> HIDE DEF v, w, qop, pop, av, ov
<1>6. IsNumeral(v) => WorthOf(v) \in Int BY MatchingAssumption DEF IsNumeral, WorthOf
<1>7. IsNumeral(w) => WorthOf(w) \in Int BY MatchingAssumption DEF IsNumeral, WorthOf
<1>8. CASE qop = "eq" /\ pop = "ne"
  <2>1. av = Compared(v, "eq", w) /\ ov = Compared(v, "ne", w)
    BY <1>3, <1>4, <1>8 DEF qop, pop, av, ov
  <2> QED BY <2>1 DEF Compared, av, ov
<1>9. CASE qop = "gt" /\ pop = "lte"
  <2>1. av = (WorthOf(v) > WorthOf(w)) /\ ov = (WorthOf(v) <= WorthOf(w))
    BY <1>3, <1>4, <1>9 DEF qop, pop, av, ov, Compared
  <2>2. IsNumeral(v) /\ IsNumeral(w) BY <1>3, <1>9 DEF CanCompare, Numeric, qop
  <2> QED BY <1>6, <1>7, <2>1, <2>2 DEF av, ov
<1>10. CASE qop = "lt" /\ pop = "gte"
  <2>1. av = (WorthOf(v) < WorthOf(w)) /\ ov = (WorthOf(v) >= WorthOf(w))
    BY <1>3, <1>4, <1>10 DEF qop, pop, av, ov, Compared
  <2>2. IsNumeral(v) /\ IsNumeral(w) BY <1>3, <1>10 DEF CanCompare, Numeric, qop
  <2> QED BY <1>6, <1>7, <2>1, <2>2 DEF av, ov
<1> QED BY <1>5, <1>8, <1>9, <1>10 DEF qop, pop

LEMMA GetsArePosts ==
  ASSUME AnswersOK, NEW c \in Client, NEW d \in Client,
         Got(c, "ref-bool"), Got(d, "query"), client[d].request.form = "compare",
         client[c].request.left = client[d].request.left,
         client[c].request.op = client[d].request.op,
         client[c].request.right = client[d].request.right,
         Ascii(client[c].request.left), Ascii(client[c].request.right)
  PROVE  client[c].answer = client[d].answer
<1> DEFINE q == client[c].request  p == client[d].request
<1>1. client[c].answer = CompareAnswer(DecodedRef(q.left), q.op, DecodedRef(q.right))
  <2>1. q.kind = "ref-bool" /\ client[c].answer = Answer(q) BY TheAnswer
  <2> QED BY <2>1 DEF Answer
<1>2. client[d].answer = QueryAnswer(p)
  <2>1. p.kind = "query" /\ client[d].answer = Answer(p) BY TheAnswer
  <2> QED BY <2>1 DEF Answer
<1>3. client[d].answer = CompareAnswer(p.left, p.op, p.right) BY <1>2 DEF QueryAnswer
<1>4. DecodedRef(q.left) = q.left /\ DecodedRef(q.right) = q.right BY DEF Ascii
<1> QED BY <1>1, <1>3, <1>4

\* Whichever endpoints two clients asked, and whatever commands did to the file
\* in between, they are not told two things about one zone, field or comparison:
\* the handlers slice, cut and compare alike.
THEOREM EndpointsTellTheSame == ServeSpec => []EndpointsAgree
<1>1. ServeInv /\ AnswersOK => EndpointsAgree
  <2> SUFFICES ASSUME ServeInv, AnswersOK, NEW c \in Client, NEW d \in Client
               PROVE  /\ ZoneAsRef(c, d) /\ StateAsRef(c, d) /\ StringsAsRef(c, d)
                      /\ ContrariesDiffer(c, d) /\ GetAsPost(c, d)
    BY DEF EndpointsAgree
  <2>1. ZoneAsRef(c, d) BY ZonesAreRefs
  <2>2. StateAsRef(c, d) BY StatesAreRefs
  <2>3. StringsAsRef(c, d) BY StringsAreRefs DEF StringsAsRef, BothServed
  <2>4. ContrariesDiffer(c, d) BY ContrariesAreTold DEF ContrariesDiffer, BothServed
  <2>5. GetAsPost(c, d) BY GetsArePosts DEF GetAsPost
  <2> QED BY <2>1, <2>2, <2>3, <2>4, <2>5
<1>2. ServeInit => ServeInv /\ AnswersOK BY InitIsInv, NoAnswersYet
<1>3. ServeInv /\ AnswersOK /\ [ServeNext]_serveVars => (ServeInv /\ AnswersOK)'
  BY StepKeepsInv, StepKeepsAnswers
<1> QED BY <1>1, <1>2, <1>3, PTL DEF ServeSpec

\* The proofs below tell the calls apart by their operation.
LEMMA FilesAreFound == ASSUME FindFile PROVE call'.op = "file"
BY DEF FindFile, Call

(***************************************************************************)
(* The two ways to search a text.                                          *)
(***************************************************************************)
LEMMA LinesLength == ASSUME NEW v \in Content PROVE Len(Lines(v)) \in Nat
BY LinesType

\* Counting is finding: a text has finitely many lines.
LEMMA CountIsFound ==
  ASSUME NEW v \in Content, NEW p
  PROVE  Count(v, p) > 0 <=> Grep(v, p) # {}
<1>1. Len(Lines(v)) \in Nat BY LinesLength
<1>2. Grep(v, p) \subseteq 0 .. Len(Lines(v)) - 1 BY DEF Grep
<1>3. IsFiniteSet(0 .. Len(Lines(v)) - 1) BY <1>1, FS_Interval
<1>4. IsFiniteSet(Grep(v, p)) BY <1>2, <1>3, FS_Subset
<1>5. Cardinality(Grep(v, p)) \in Nat BY <1>4, FS_CardinalityType
<1>6. Cardinality(Grep(v, p)) = 0 <=> Grep(v, p) = {} BY <1>4, FS_EmptySet
<1> QED BY <1>5, <1>6 DEF Count

\* grep_multi reports the lines bool-or reports, each with what it holds.
LEMMA MultiIsOr ==
  ASSUME NEW v, NEW p, NEW q
  PROVE  {m[1] : m \in GrepMulti(v, {p, q})} = BoolOr(v, {p, q}).matches
<1> DEFINE at   == 0 .. Len(Lines(v)) - 1
           hits(i) == {x \in {p, q} : Hit(Lines(v)[i + 1], x)}
           multi == GrepMulti(v, {p, q})
<1>1. \A m : m \in multi <=> /\ m \in at \X SUBSET {p, q}
                             /\ m[2] # {} /\ m[2] = hits(m[1])
  BY DEF GrepMulti
<1>2. BoolOr(v, {p, q}).matches = Grep(v, p) \cup Grep(v, q) BY DEF BoolOr
<1>3. \A i : i \in Grep(v, p) \cup Grep(v, q) <=> i \in at /\ hits(i) # {} BY DEF Grep
<1> HIDE DEF at, hits, multi
<1>4. ASSUME NEW m \in multi PROVE m[1] \in at /\ hits(m[1]) # {}
  <2>1. m \in at \X SUBSET {p, q} /\ m[2] # {} /\ m[2] = hits(m[1]) BY <1>1, <1>4
  <2> QED BY <2>1
<1>5. ASSUME NEW i \in at, hits(i) # {} PROVE \E m \in multi : m[1] = i
  <2> DEFINE m == << i, hits(i) >>
  <2>1. hits(i) \in SUBSET {p, q} BY DEF hits
  <2>2. m[1] = i /\ m[2] = hits(i) /\ m \in at \X SUBSET {p, q} BY <1>5, <2>1
  <2>3. m \in multi BY <1>1, <1>5, <2>2
  <2> QED BY <2>2, <2>3
<1>6. {m[1] : m \in multi} = Grep(v, p) \cup Grep(v, q) BY <1>3, <1>4, <1>5
<1> QED BY <1>2, <1>6 DEF multi

\* What the line-by-line commands say of a text, in terms of what it holds.
LEMMA LinesSayWhatTheTextHolds ==
  ASSUME NEW v \in Content, NEW p, NEW q, p # << >>, q # << >>
  PROVE  /\ BoolAnd(v, {p, q}).value = QueryAnd(v, {p, q})
         /\ BoolOr(v, {p, q}).value = QueryOr(v, {p, q})
         /\ BoolNand(v, p, q).value = (Holds(v, p) /\ ~ Holds(v, q))
         /\ BoolXor(v, p, q).value
              = ((Holds(v, p) /\ ~ Holds(v, q)) \/ (Holds(v, q) /\ ~ Holds(v, p)))
         /\ (Count(v, p) > 0) = Holds(v, p)
         /\ IsZoneEmpty(v) => ~ Holds(v, p)
<1>1. v \in Seq(Line) /\ v # << >> BY DEF Content
<1>2. /\ Holds(v, p) <=> Grep(v, p) # {}
      /\ Holds(v, q) <=> Grep(v, q) # {}
  BY <1>1, HoldsAsGrep
<1>3. Holds(v, p) \in BOOLEAN /\ Holds(v, q) \in BOOLEAN BY DEF Holds
<1>4. << >> \notin {p, q} OBVIOUS
<1>5. /\ BoolAnd(v, {p, q}).value = QueryAnd(v, {p, q})
      /\ BoolOr(v, {p, q}).value = QueryOr(v, {p, q})
  BY <1>1, <1>4, QueriesAgree
<1>6. BoolNand(v, p, q).value = (Holds(v, p) /\ ~ Holds(v, q)) BY <1>2, <1>3 DEF BoolNand
<1>7. BoolXor(v, p, q).value
        = ((Holds(v, p) /\ ~ Holds(v, q)) \/ (Holds(v, q) /\ ~ Holds(v, p)))
  BY <1>2, <1>3 DEF BoolXor
<1>8. Count(v, p) > 0 <=> Grep(v, p) # {} BY CountIsFound
<1>9. (Count(v, p) > 0) = Holds(v, p) BY <1>2, <1>3, <1>8
<1>10. IsZoneEmpty(v) => Grep(v, p) = {}
  <2>1. ~ Hit(Blank, p) BY DEF Hit, Blank
  <2>2. Len(Lines(v)) \in Nat BY LinesLength
  <2>3. \A i \in 0 .. Len(Lines(v)) - 1 : i + 1 \in 1 .. Len(Lines(v)) BY <2>2
  <2> QED BY <2>1, <2>3 DEF IsZoneEmpty, Grep
<1> QED BY <1>2, <1>5, <1>6, <1>7, <1>9, <1>10

\* Of any text the commands are given.
LEMMA SearchesAgree == ASSUME SearchText PROVE MatchersAgree'
<1>1. PICK v \in Texts, p \in Patterns, q \in Patterns :
        Call([op |-> "search", text |-> v, one |-> p, other |-> q],
             [and |-> BoolAnd(v, {p, q}), or |-> BoolOr(v, {p, q}),
              nand |-> BoolNand(v, p, q), xor |-> BoolXor(v, p, q),
              count |-> Count(v, p), multi |-> GrepMulti(v, {p, q})])
  BY DEF SearchText
<1>2. /\ call'.text = v /\ call'.one = p /\ call'.other = q
      /\ call'.answer = [and |-> BoolAnd(v, {p, q}), or |-> BoolOr(v, {p, q}),
                         nand |-> BoolNand(v, p, q), xor |-> BoolXor(v, p, q),
                         count |-> Count(v, p), multi |-> GrepMulti(v, {p, q})]
  BY <1>1 DEF Call
<1>3. v \in Content BY OperatorsAssumption
<1>4. {m[1] : m \in GrepMulti(v, {p, q})} = BoolOr(v, {p, q}).matches BY MultiIsOr
<1>5. SUFFICES ASSUME p # << >>, q # << >> PROVE MatchersAgree'
  BY <1>2 DEF MatchersAgree
<1>6. /\ BoolAnd(v, {p, q}).value = QueryAnd(v, {p, q})
      /\ BoolOr(v, {p, q}).value = QueryOr(v, {p, q})
      /\ BoolNand(v, p, q).value = (Holds(v, p) /\ ~ Holds(v, q))
      /\ BoolXor(v, p, q).value
           = ((Holds(v, p) /\ ~ Holds(v, q)) \/ (Holds(v, q) /\ ~ Holds(v, p)))
      /\ (Count(v, p) > 0) = Holds(v, p)
      /\ IsZoneEmpty(v) => ~ Holds(v, p)
  BY <1>3, <1>5, LinesSayWhatTheTextHolds
<1>7. /\ call'.answer.and = BoolAnd(v, {p, q}) /\ call'.answer.or = BoolOr(v, {p, q})
      /\ call'.answer.nand = BoolNand(v, p, q) /\ call'.answer.xor = BoolXor(v, p, q)
      /\ call'.answer.count = Count(v, p) /\ call'.answer.multi = GrepMulti(v, {p, q})
  BY <1>2
<1> QED BY <1>2, <1>4, <1>6, <1>7 DEF MatchersAgree

\* For every text and every two patterns: bool-and, -or, -nand and -xor
\* (bool_ops.rs), count-lines and grep_multi (fast_ops.rs), which go through the
\* lines, answer what if-contains and /query answer, which search the whole text.
THEOREM SearchesSayTheSame == Spec => []MatchersAgree
<1>1. Init => MatchersAgree BY DEF Init, None, MatchersAgree
<1>2. MatchersAgree /\ [Next]_call => MatchersAgree'
  <2> SUFFICES ASSUME MatchersAgree, [Next]_call PROVE MatchersAgree' OBVIOUS
  <2>1. CASE UNCHANGED call BY <2>1 DEF MatchersAgree
  <2>2. CASE SearchText BY <2>2, SearchesAgree
  <2>3. CASE call'.op # "search" BY <2>3 DEF MatchersAgree
  <2>4. Next => SearchText \/ call'.op # "search"
    BY FilesAreFound
    DEF Next, Call, CompareNumbers, WriteJson, ReadHexWords, ConvertTo, ExpandReference,
           StoreValue, SaveSchema, StartSchema, ReplaceRecords, RefuseReplacement, ReadLog
  <2> QED BY <2>1, <2>2, <2>3, <2>4
<1> QED BY <1>1, <1>2, PTL DEF Spec

(***************************************************************************)
(* The markers of a compact reference.                                     *)
(***************************************************************************)
\* What a marker fits begins with it, and goes on with a digit or a plus.
SlotBegins == S!Decimal \cup {"+"}

LEMMA FitsBegins ==
  ASSUME NEW C, NEW s \in Seq(C), NEW T, NEW m, m.marker \in Seq(T), S!Fits(m, s)
  PROVE  /\ \A k \in 1 .. Len(m.marker) : s[k] = m.marker[k]
         /\ Len(m.marker) + 1 \in 1 .. Len(s)
         /\ s[Len(m.marker) + 1] \in SlotBegins
<1> DEFINE n == Len(m.marker)
           rest == S!Behind(m.marker, s)
<1>1. n \in Nat /\ Len(s) \in Nat OBVIOUS
<1>2. n <= Len(s) /\ SubSeq(m.marker, 1, n) = SubSeq(s, 1, n)
  BY DEF S!Fits, S!IsPrefix
<1>3. \A k \in 1 .. n : s[k] = m.marker[k]
  <2> TAKE k \in 1 .. n
  <2>1. SubSeq(s, 1, n)[k] = s[k] BY <1>1, <1>2
  <2>2. SubSeq(m.marker, 1, n)[k] = m.marker[k] BY <1>1
  <2> QED BY <1>2, <2>1, <2>2
<1>4. S!IsSlot(rest) BY DEF S!Fits
<1>5. rest = SubSeq(s, n + 1, Len(s)) BY DEF S!Behind
<1>6. rest \in Seq(C) /\ Len(rest) = Len(s) - n
  <2>1. n + 1 \in 1 .. Len(s) + 1 BY <1>1, <1>2
  <2>2. /\ SubSeq(s, n + 1, Len(s)) \in Seq(C)
        /\ Len(SubSeq(s, n + 1, Len(s))) = Len(s) - (n + 1) + 1
    BY <2>1, Rest
  <2>3. rest \in Seq(C) /\ Len(rest) = Len(s) - (n + 1) + 1 BY <1>5, <2>2
  <2> QED BY <1>1, <2>3
<1> HIDE DEF rest
<1>7. S!AsSlot(rest) # << >> /\ \A i \in 1 .. Len(S!AsSlot(rest)) : S!AsSlot(rest)[i] \in S!Decimal
  BY <1>4 DEF S!IsSlot
<1>8. rest # << >> BY <1>7 DEF S!AsSlot
<1>9. Len(rest) \in Nat \ {0} BY <1>6, <1>8, EmptySeq, LenProperties
<1>10. rest[1] \in SlotBegins
  <2>1. CASE Head(rest) = "+" BY <1>8, <1>6, <2>1 DEF SlotBegins
  <2>2. CASE Head(rest) # "+"
    <3>1. S!AsSlot(rest) = rest BY <2>2 DEF S!AsSlot
    <3> QED BY <1>7, <1>9, <1>6, <3>1 DEF SlotBegins
  <2> QED BY <2>1, <2>2
<1>11. rest[1] = s[n + 1]
  <2>1. n + 1 \in 1 .. Len(s) BY <1>1, <1>6, <1>9
  <2>2. Head(rest) = s[n + 1] BY <1>1, <1>5, <2>1, HeadTailOfSubSeq
  <2>3. Head(rest) = rest[1] BY <1>6, <1>8
  <2> QED BY <2>2, <2>3
<1> QED BY <1>1, <1>3, <1>6, <1>9, <1>10, <1>11

MarkerLetters == {"s", "d", "b", "z", "h", "r"}

\* The six markers, letter by letter.
LEMMA MarkersBegin ==
  ASSUME NEW C, NEW s \in Seq(C), NEW i \in DOMAIN S!Slotted, S!Fits(S!Slotted[i], s)
  PROVE  /\ i = 1 => s[1] = "s"
         /\ i = 2 => s[1] = "d" /\ s[3] \in SlotBegins
         /\ i = 3 => s[1] = "z" /\ s[2] = "h"
         /\ i = 4 => s[1] = "r" /\ s[2] = "h"
         /\ i = 5 => s[1] = "z" /\ s[2] \in SlotBegins
         /\ i = 6 => s[1] = "r" /\ s[2] \in SlotBegins
         /\ Len(s) > 1
         /\ i \in 1 .. 6
<1>1. i \in 1 .. 6 BY DEF S!Slotted
<1>2. /\ S!Slotted[1].marker = << "s" >> /\ S!Slotted[2].marker = << "d", "b" >>
      /\ S!Slotted[3].marker = << "z", "h" >> /\ S!Slotted[4].marker = << "r", "h" >>
      /\ S!Slotted[5].marker = << "z" >> /\ S!Slotted[6].marker = << "r" >>
  BY DEF S!Slotted
<1>3. /\ Len(S!Slotted[1].marker) = 1 /\ Len(S!Slotted[2].marker) = 2
      /\ Len(S!Slotted[3].marker) = 2 /\ Len(S!Slotted[4].marker) = 2
      /\ Len(S!Slotted[5].marker) = 1 /\ Len(S!Slotted[6].marker) = 1
  BY DEF S!Slotted
<1> DEFINE m == S!Slotted[i]
<1> HIDE DEF m
<1>8. m.marker \in Seq(MarkerLetters)
  <2>1. /\ \A x \in MarkerLetters : << x >> \in Seq(MarkerLetters)
        /\ \A x, y \in MarkerLetters : << x, y >> \in Seq(MarkerLetters)
    OBVIOUS
  <2>2. /\ "s" \in MarkerLetters /\ "d" \in MarkerLetters /\ "b" \in MarkerLetters
        /\ "z" \in MarkerLetters /\ "h" \in MarkerLetters /\ "r" \in MarkerLetters
    BY DEF MarkerLetters
  <2>3. /\ S!Slotted[1].marker \in Seq(MarkerLetters)
        /\ S!Slotted[2].marker \in Seq(MarkerLetters)
        /\ S!Slotted[3].marker \in Seq(MarkerLetters)
        /\ S!Slotted[4].marker \in Seq(MarkerLetters)
        /\ S!Slotted[5].marker \in Seq(MarkerLetters)
        /\ S!Slotted[6].marker \in Seq(MarkerLetters)
    BY <1>2, <2>1, <2>2
  <2>4. i = 1 \/ i = 2 \/ i = 3 \/ i = 4 \/ i = 5 \/ i = 6 BY <1>1
  <2> QED BY <2>3, <2>4 DEF m
<1>4. S!Fits(m, s) BY DEF m
<1>5. /\ \A k \in 1 .. Len(m.marker) : s[k] = m.marker[k]
      /\ Len(m.marker) + 1 \in 1 .. Len(s)
      /\ s[Len(m.marker) + 1] \in SlotBegins
  BY <1>4, <1>8, FitsBegins
<1>6. CASE i \in {1, 5, 6}
  <2>1. Len(m.marker) = 1 BY <1>3, <1>6 DEF m
  <2>2. s[1] = m.marker[1] /\ s[2] \in SlotBegins
    <3>1. s[Len(m.marker) + 1] = s[2] BY <2>1
    <3> QED BY <1>5, <2>1, <3>1
  <2>3. Len(s) > 1 BY <1>5, <2>1
  <2> QED BY <1>2, <1>6, <2>2, <2>3 DEF m
<1>7. CASE i \in {2, 3, 4}
  <2>1. Len(m.marker) = 2 BY <1>3, <1>7 DEF m
  <2>2. s[1] = m.marker[1] /\ s[2] = m.marker[2] /\ s[3] \in SlotBegins
    <3>1. s[Len(m.marker) + 1] = s[3] BY <2>1
    <3> QED BY <1>5, <2>1, <3>1
  <2>3. Len(s) > 1 BY <1>5, <2>1
  <2> QED BY <1>2, <1>7, <2>2, <2>3 DEF m
<1> QED BY <1>1, <1>6, <1>7

\* zh before z, rh before r, and db before the plain dbl: no text fits two.
LEMMA OneMarkerFits ==
  ASSUME NEW C, NEW s \in Seq(C), NEW i \in DOMAIN S!Slotted, NEW j \in DOMAIN S!Slotted,
         S!Fits(S!Slotted[i], s), S!Fits(S!Slotted[j], s)
  PROVE  i = j
<1>1. "h" \notin SlotBegins /\ "s" \notin SlotBegins /\ "l" \notin SlotBegins
  BY DEF SlotBegins, S!Decimal
<1> QED BY <1>1, MarkersBegin

\* No marker fits what names a line of its own.
LEMMA PlainFitsNoMarker ==
  ASSUME NEW C, NEW q \in S!Plain, q[1] \in Seq(C), NEW i \in DOMAIN S!Slotted
  PROVE  ~ S!Fits(S!Slotted[i], q[1])
<1>1. "h" \notin SlotBegins /\ "s" \notin SlotBegins /\ "l" \notin SlotBegins
  BY DEF SlotBegins, S!Decimal
<1> DEFINE s == q[1]
<1>2. \/ s = << "d", "b", "l" >> \/ s = << "h", "l" >>
      \/ s = << "h", "w", "l" >> \/ s = << "r", "s" >>
  BY DEF S!Plain
<1>3. \/ s[1] = "d" /\ s[3] = "l"
      \/ s[1] = "h"
      \/ s[1] = "r" /\ s[2] = "s"
  BY <1>2
<1>4. s \in Seq(C) OBVIOUS
<1> HIDE DEF s
<1>5. ASSUME S!Fits(S!Slotted[i], s) PROVE FALSE
  <2>1. /\ i = 1 => s[1] = "s"
        /\ i = 2 => s[1] = "d" /\ s[3] \in SlotBegins
        /\ i = 3 => s[1] = "z" /\ s[2] = "h"
        /\ i = 4 => s[1] = "r" /\ s[2] = "h"
        /\ i = 5 => s[1] = "z" /\ s[2] \in SlotBegins
        /\ i = 6 => s[1] = "r" /\ s[2] \in SlotBegins
        /\ i \in 1 .. 6
    BY <1>4, <1>5, MarkersBegin
  <2> QED BY <1>1, <1>3, <2>1
<1> QED BY <1>5 DEF s

\* Each of them names one line, and none is empty.
LEMMA PlainIsPlain ==
  ASSUME NEW p \in S!Plain, NEW q \in S!Plain, p[1] = q[1]
  PROVE  p = q /\ p[1] # << >>
BY DEF S!Plain

\* The three ways to read what follows the index exclude each other, and each
\* gives one reading at most.
LEMMA ReadingsAreOne ==
  ASSUME NEW C, NEW s \in Seq(C), S!Readings(s) # {}
  PROVE  Cardinality(S!Readings(s)) = 1
<1> DEFINE fits   == {j \in DOMAIN S!Slotted : S!Fits(S!Slotted[j], s)}
           slot(i) == [kind |-> S!Slotted[i].kind,
                       slot |-> S!SlotOf(S!Behind(S!Slotted[i].marker, s))]
           plain  == {q \in S!Plain : q[1] = s}
           named(p) == [kind |-> p[2], slot |-> 0]
           whole  == IF s = << >> THEN {[kind |-> "index", slot |-> 0]} ELSE {}
<1>1. S!Readings(s) = {slot(i) : i \in fits} \cup {named(p) : p \in plain} \cup whole
  BY DEF S!Readings
<1>2. \A i, j \in fits : i = j BY OneMarkerFits
<1>3. \A p, q \in plain : p = q BY PlainIsPlain
<1>4. ASSUME NEW q \in plain PROVE fits = {} /\ whole = {}
  <2>1. q[1] = s /\ q \in S!Plain BY <1>4
  <2>2. fits = {} BY <2>1, PlainFitsNoMarker
  <2>3. s # << >> BY <2>1, PlainIsPlain
  <2> QED BY <2>2, <2>3
<1>5. ASSUME NEW i \in fits PROVE whole = {}
  <2>1. Len(s) > 1 BY <1>5, MarkersBegin
  <2> QED BY <2>1
<1> HIDE DEF fits, plain, slot, named
<1>6. \E x : S!Readings(s) = {x}
  <2>1. CASE fits # {}
    <3>1. PICK i \in fits : TRUE BY <2>1
    <3>2. fits = {i} BY <1>2, <3>1
    <3>3. plain = {} /\ whole = {} BY <1>4, <1>5, <3>1, <3>2
    <3>4. S!Readings(s) = {slot(i)} BY <1>1, <3>2, <3>3
    <3> QED BY <3>4
  <2>2. CASE plain # {}
    <3>1. PICK p \in plain : TRUE BY <2>2
    <3>2. plain = {p} BY <1>3, <3>1
    <3>3. fits = {} /\ whole = {} BY <1>4, <3>1
    <3>4. S!Readings(s) = {named(p)} BY <1>1, <3>2, <3>3
    <3> QED BY <3>4
  <2>3. CASE fits = {} /\ plain = {}
    <3>1. S!Readings(s) = whole BY <1>1, <2>3
    <3> QED BY <3>1
  <2> QED BY <2>1, <2>2, <2>3
<1> QED BY <1>6, FS_Singleton

\* For every text behind the index of a compact reference that means something
\* (compact_ref of qol.rs), the order in which the markers are tried does not
\* matter: it has one reading.
THEOREM CompactRefsReadOneWay == Spec => []CompactRefsHaveOneReading
<1>1. Init => CompactRefsHaveOneReading BY DEF Init, None, CompactRefsHaveOneReading
<1>2. CompactRefsHaveOneReading /\ [Next]_call => CompactRefsHaveOneReading'
  <2> SUFFICES ASSUME CompactRefsHaveOneReading, [Next]_call PROVE CompactRefsHaveOneReading'
    OBVIOUS
  <2>1. CASE UNCHANGED call BY <2>1 DEF CompactRefsHaveOneReading
  <2>2. CASE ExpandReference
    <3>1. PICK s \in Endings :
            /\ S!Readings(s) # {}
            /\ Call([op |-> "compact", suffix |-> s], S!Readings(s))
      BY <2>2 DEF ExpandReference
    <3>2. s \in Seq(STRING) BY OperatorsAssumption
    <3>3. Cardinality(S!Readings(s)) = 1 BY <3>1, <3>2, ReadingsAreOne
    <3>4. call'.answer = S!Readings(s) BY <3>1 DEF Call
    <3> QED BY <3>3, <3>4 DEF CompactRefsHaveOneReading
  <2>3. CASE call'.op # "compact" BY <2>3 DEF CompactRefsHaveOneReading
  <2>4. Next => ExpandReference \/ call'.op # "compact"
    BY FilesAreFound
    DEF Next, Call, CompareNumbers, WriteJson, ReadHexWords, ConvertTo, SearchText,
           StoreValue, SaveSchema, StartSchema, ReplaceRecords, RefuseReplacement, ReadLog
  <2> QED BY <2>1, <2>2, <2>3, <2>4
<1> QED BY <1>1, <1>2, PTL DEF Spec

(***************************************************************************)
(* Induction, and functions defined by recursion.                          *)
(***************************************************************************)
\* Every set of numbers has a least one.
LEMMA LeastNatural ==
  ASSUME NEW T, T \subseteq Nat, T # {}
  PROVE  \E m \in T : \A k \in T : m <= k
<1> DEFINE Below(n) == {k \in Nat : k < n}
           U == {Below(n) : n \in T}
<1>1. \A n \in Nat : IsFiniteSet(Below(n))
  <2> TAKE n \in Nat
  <2>1. IsFiniteSet(0 .. n - 1) BY FS_Interval
  <2>2. Below(n) = 0 .. n - 1 OBVIOUS
  <2> QED BY <2>1, <2>2
<1>2. U \subseteq FiniteSubsetsOf(Nat) BY <1>1 DEF FiniteSubsetsOf
<1>3. U # {} OBVIOUS
<1>4. IsWellFoundedOn(StrictSubsetOrdering(Nat), FiniteSubsetsOf(Nat))
  BY FS_StrictSubsetOrderingWellFounded
<1>5. PICK x \in U : \A y \in U : ~ (<< y, x >> \in StrictSubsetOrdering(Nat))
  <2> HIDE DEF U
  <2> QED BY <1>2, <1>3, <1>4, WFMin
<1>6. PICK m \in T : x = Below(m) BY <1>5
<1>7. ASSUME NEW k \in T, k < m PROVE FALSE
  <2>1. Below(k) \in U /\ m \in Nat /\ k \in Nat OBVIOUS
  <2>2. Below(k) \subseteq Below(m) /\ k \in Below(m) /\ k \notin Below(k) BY <1>7, <2>1
  <2>3. Below(k) \subseteq Nat /\ Below(m) \subseteq Nat OBVIOUS
  <2>4. << Below(k), Below(m) >> \in StrictSubsetOrdering(Nat)
    BY <2>2, <2>3 DEF StrictSubsetOrdering
  <2> QED BY <1>5, <1>6, <2>1, <2>4
<1> QED BY <1>7

\* Induction, as a fact about sets of numbers.
LEMMA Induction ==
  ASSUME NEW P, 0 \in P, \A n \in Nat : n \in P => n + 1 \in P
  PROVE  \A n \in Nat : n \in P
<1>1. SUFFICES ASSUME Nat \ P # {} PROVE FALSE OBVIOUS
<1>2. PICK m \in Nat \ P : \A k \in Nat \ P : m <= k
  <2> DEFINE T == Nat \ P
  <2> HIDE DEF T
  <2>1. \E m \in T : \A k \in T : m <= k BY <1>1, LeastNatural DEF T
  <2> QED BY <2>1 DEF T
<1>3. m # 0 /\ m - 1 \in Nat BY <1>2
<1>4. m - 1 \in P BY <1>2, <1>3
<1>5. (m - 1) + 1 \in P BY <1>3, <1>4
<1> QED BY <1>2, <1>5

\* What next makes of what came before, from first on.
Follows(f, n, first, next) ==
  f[0] = first /\ \A k \in 0 .. n - 1 : f[k + 1] = next[k][f[k]]

LEMMA OneFollows ==
  ASSUME NEW first, NEW next, NEW n \in Nat, NEW m \in Nat, NEW f, NEW g,
         Follows(f, n, first, next), Follows(g, m, first, next)
  PROVE  \A k \in Nat : k <= n /\ k <= m => f[k] = g[k]
<1> DEFINE P == {k \in Nat : k <= n /\ k <= m => f[k] = g[k]}
<1>1. 0 \in P BY DEF Follows
<1>2. \A k \in Nat : k \in P => k + 1 \in P
  <2> SUFFICES ASSUME NEW k \in Nat, k \in P, k + 1 <= n, k + 1 <= m PROVE f[k + 1] = g[k + 1]
    OBVIOUS
  <2>1. f[k] = g[k] OBVIOUS
  <2>2. k \in 0 .. n - 1 /\ k \in 0 .. m - 1 OBVIOUS
  <2> QED BY <2>1, <2>2 DEF Follows
<1> HIDE DEF P
<1>3. \A k \in Nat : k \in P BY <1>1, <1>2, Induction
<1> QED BY <1>3 DEF P

LEMMA EachFollows ==
  ASSUME NEW K, NEW first \in K, NEW next \in [Nat -> [K -> K]]
  PROVE  \A n \in Nat : \E f \in [0 .. n -> K] : Follows(f, n, first, next)
<1> DEFINE P == {n \in Nat : \E f \in [0 .. n -> K] : Follows(f, n, first, next)}
<1>1. 0 \in P
  <2> DEFINE f == [k \in 0 .. 0 |-> first]
  <2>1. f \in [0 .. 0 -> K] /\ Follows(f, 0, first, next) BY DEF Follows
  <2> QED BY <2>1
<1>2. \A n \in Nat : n \in P => n + 1 \in P
  <2> SUFFICES ASSUME NEW n \in Nat, n \in P PROVE n + 1 \in P OBVIOUS
  <2>1. PICK f \in [0 .. n -> K] : Follows(f, n, first, next) OBVIOUS
  <2> DEFINE g == [k \in 0 .. n + 1 |-> IF k <= n THEN f[k] ELSE next[n][f[n]]]
  <2>2. next[n][f[n]] \in K
    <3>1. f[n] \in K OBVIOUS
    <3> QED BY <3>1
  <2>3. g \in [0 .. n + 1 -> K] BY <2>2
  <2>4. g[0] = first /\ \A k \in 0 .. n : g[k] = f[k]
    BY <2>1 DEF Follows
  <2>5. g[n + 1] = next[n][f[n]] OBVIOUS
  <2>6. ASSUME NEW k \in 0 .. n PROVE g[k + 1] = next[k][g[k]]
    <3>1. CASE k = n BY <3>1, <2>4, <2>5
    <3>2. CASE k # n
      <4>1. k \in 0 .. n - 1 /\ k + 1 \in 0 .. n BY <3>2
      <4>2. f[k + 1] = next[k][f[k]] BY <2>1, <4>1 DEF Follows
      <4> QED BY <2>4, <4>1, <4>2
    <3> QED BY <3>1, <3>2
  <2> HIDE DEF g
  <2>7. Follows(g, n + 1, first, next)
    <3>1. (n + 1) - 1 = n OBVIOUS
    <3> QED BY <2>4, <2>6, <3>1 DEF Follows
  <2> QED BY <2>3, <2>7
<1> HIDE DEF P
<1>3. \A k \in Nat : k \in P BY <1>1, <1>2, Induction
<1> QED BY <1>3 DEF P

\* There is a function that is defined by recursion.
ByRecursion(K, first, next) ==
  CHOOSE f \in [Nat -> K] : f[0] = first /\ \A k \in Nat : f[k + 1] = next[k][f[k]]

LEMMA Recursion ==
  ASSUME NEW K, NEW first \in K, NEW next \in [Nat -> [K -> K]]
  PROVE  /\ ByRecursion(K, first, next) \in [Nat -> K]
         /\ ByRecursion(K, first, next)[0] = first
         /\ \A k \in Nat : ByRecursion(K, first, next)[k + 1] = next[k][ByRecursion(K, first, next)[k]]
<1> DEFINE g(n) == CHOOSE f \in [0 .. n -> K] : Follows(f, n, first, next)
           h == [n \in Nat |-> g(n)[n]]
<1>1. \A n \in Nat : g(n) \in [0 .. n -> K] /\ Follows(g(n), n, first, next)
  BY EachFollows
<1> HIDE DEF g
<1>2. \A n \in Nat : n \in 0 .. n /\ g(n)[n] \in K BY <1>1
<1>3. h \in [Nat -> K] BY <1>2
<1>4. h[0] = first BY <1>1 DEF Follows
<1>5. ASSUME NEW k \in Nat PROVE h[k + 1] = next[k][h[k]]
  <2>1. k + 1 \in Nat /\ k \in 0 .. (k + 1) - 1 OBVIOUS
  <2>2. g(k + 1)[k + 1] = next[k][g(k + 1)[k]] BY <1>1, <2>1 DEF Follows
  <2>3. g(k + 1)[k] = g(k)[k]
    <3> DEFINE u == g(k)
               v == g(k + 1)
               m == k + 1
    <3>1. /\ u \in [0 .. k -> K] /\ Follows(u, k, first, next)
          /\ v \in [0 .. m -> K] /\ Follows(v, m, first, next)
          /\ m \in Nat
      BY <1>1, <2>1
    <3> HIDE DEF u, v, m
    <3>2. \A j \in Nat : j <= k /\ j <= m => u[j] = v[j] BY <3>1, OneFollows
    <3>3. u[k] = v[k] BY <3>2 DEF m
    <3> QED BY <3>3 DEF u, v, m
  <2> QED BY <2>1, <2>2, <2>3
<1> QED BY <1>3, <1>4, <1>5 DEF ByRecursion

(***************************************************************************)
(* The least and the greatest of some numbers.                             *)
(***************************************************************************)
LEMMA LeastIs ==
  ASSUME NEW T, T \subseteq Nat, T # {}
  PROVE  D!Min(T) \in T /\ \A k \in T : D!Min(T) <= k
BY LeastNatural DEF D!Min

LEMMA GreatestIs ==
  ASSUME NEW n \in Nat, NEW T, T \subseteq 0 .. n, T # {}
  PROVE  D!Max(T) \in T /\ \A k \in T : k <= D!Max(T)
<1> DEFINE U == {n - k : k \in T}
<1>0. \A k \in T : n - k \in Nat OBVIOUS
<1>1. U \subseteq Nat /\ U # {} BY <1>0
<1>2. PICK m \in U : \A k \in U : m <= k
  <2> HIDE DEF U
  <2> QED BY <1>1, LeastNatural
<1>3. n - m \in T /\ \A k \in T : k <= n - m
  <2>1. PICK t \in T : m = n - t BY <1>2
  <2>2. \A k \in T : n - t <= n - k BY <1>2, <2>1
  <2> QED BY <2>1, <2>2
<1> QED BY <1>3 DEF D!Max

(***************************************************************************)
(* Digits without end, and the numbers their beginnings spell.             *)
(***************************************************************************)
Digits == [Nat -> 0 .. 9]

DigitAdded(a) == [k \in Nat |-> [x \in Nat |-> 10 * x + a[k + 1]]]
WorthUpTo(a) == ByRecursion(Nat, 0, DigitAdded(a))

LEMMA WorthIs ==
  ASSUME NEW a \in Digits
  PROVE  /\ WorthUpTo(a) \in [Nat -> Nat] /\ WorthUpTo(a)[0] = 0
         /\ \A k \in Nat : WorthUpTo(a)[k + 1] = 10 * WorthUpTo(a)[k] + a[k + 1]
<1> DEFINE next  == DigitAdded(a)
           first == 0
           N     == Nat
           w     == ByRecursion(N, first, next)
<1>1. \A k \in Nat : a[k + 1] \in Nat BY DEF Digits
<1>2. first \in N /\ next \in [Nat -> [N -> N]] BY <1>1 DEF DigitAdded
<1>3. \A k, x \in Nat : next[k][x] = 10 * x + a[k + 1] BY DEF DigitAdded
<1>4. WorthUpTo(a) = w BY DEF WorthUpTo
<1>5. first = 0 /\ N = Nat OBVIOUS
<1> HIDE DEF next, first, N
<1>6. w \in [Nat -> N] /\ w[0] = first /\ \A k \in Nat : w[k + 1] = next[k][w[k]]
  BY <1>2, Recursion
<1> HIDE DEF w
<1>7. \A k \in Nat : w[k] \in Nat BY <1>5, <1>6
<1>8. \A k \in Nat : w[k + 1] = 10 * w[k] + a[k + 1] BY <1>3, <1>6, <1>7
<1> QED BY <1>4, <1>5, <1>6, <1>8

LEMMA WorthStarts ==
  ASSUME NEW a \in Digits
  PROVE  WorthUpTo(a)[0] = 0
BY WorthIs

LEMMA WorthGoesOn ==
  ASSUME NEW a \in Digits, NEW k \in Nat
  PROVE  /\ WorthUpTo(a)[k] \in Nat /\ WorthUpTo(a)[k + 1] \in Nat /\ a[k + 1] \in 0 .. 9
         /\ WorthUpTo(a)[k + 1] = 10 * WorthUpTo(a)[k] + a[k + 1]
<1>1. k + 1 \in Nat /\ a[k + 1] \in 0 .. 9 BY DEF Digits
<1> QED BY <1>1, WorthIs

\* The same digits spell the same number.
LEMMA SameDigitsSameWorth ==
  ASSUME NEW a \in Digits, NEW b \in Digits, NEW n \in Nat, \A i \in 1 .. n : a[i] = b[i]
  PROVE  WorthUpTo(a)[n] = WorthUpTo(b)[n]
<1> DEFINE P == {k \in Nat : k <= n => WorthUpTo(a)[k] = WorthUpTo(b)[k]}
<1>1. 0 \in P BY WorthStarts
<1>2. \A k \in Nat : k \in P => k + 1 \in P
  <2> SUFFICES ASSUME NEW k \in Nat, WorthUpTo(a)[k] = WorthUpTo(b)[k], k + 1 <= n
               PROVE  WorthUpTo(a)[k + 1] = WorthUpTo(b)[k + 1]
    OBVIOUS
  <2>1. a[k + 1] = b[k + 1] OBVIOUS
  <2> QED BY <2>1, WorthGoesOn
<1> HIDE DEF P
<1>3. \A k \in Nat : k \in P BY <1>1, <1>2, Induction
<1> QED BY <1>3 DEF P

\* The first digit in which two rows differ decides, however far they go on.
LEMMA SmallerDigitSmallerWorth ==
  ASSUME NEW a \in Digits, NEW b \in Digits, NEW m \in Nat, m > 0,
         \A i \in 1 .. m - 1 : a[i] = b[i], a[m] < b[m],
         NEW n \in Nat, m <= n
  PROVE  WorthUpTo(a)[n] < WorthUpTo(b)[n]
<1> DEFINE P == {k \in Nat : m <= k => WorthUpTo(a)[k] < WorthUpTo(b)[k]}
<1>1. 0 \in P OBVIOUS
<1>2. \A k \in Nat : k \in P => k + 1 \in P
  <2> SUFFICES ASSUME NEW k \in Nat, m <= k => WorthUpTo(a)[k] < WorthUpTo(b)[k], m <= k + 1
               PROVE  WorthUpTo(a)[k + 1] < WorthUpTo(b)[k + 1]
    OBVIOUS
  <2> DEFINE x == WorthUpTo(a)[k]
             y == WorthUpTo(b)[k]
             u == WorthUpTo(a)[k + 1]
             v == WorthUpTo(b)[k + 1]
  <2>1. /\ x \in Nat /\ y \in Nat /\ a[k + 1] \in 0 .. 9 /\ b[k + 1] \in 0 .. 9
        /\ u = 10 * x + a[k + 1] /\ v = 10 * y + b[k + 1]
    BY WorthGoesOn
  <2>2. CASE m = k + 1
    <3>1. \A i \in 1 .. k : a[i] = b[i] BY <2>2
    <3>2. x = y BY <3>1, SameDigitsSameWorth
    <3>3. a[k + 1] < b[k + 1] BY <2>2
    <3> HIDE DEF x, y, u, v
    <3> QED BY <2>1, <3>2, <3>3 DEF u, v
  <2>3. CASE m <= k
    <3>1. x < y BY <2>3
    <3> HIDE DEF x, y, u, v
    <3>2. u < v BY <2>1, <3>1
    <3> QED BY <3>2 DEF u, v
  <2> QED BY <2>2, <2>3
<1> HIDE DEF P
<1>3. \A k \in Nat : k \in P BY <1>1, <1>2, Induction
<1> QED BY <1>3 DEF P

\* Zeros in front count for nothing.
LEMMA ZerosInFront ==
  ASSUME NEW a \in Digits, NEW b \in Digits, NEW n \in Nat,
         \A i \in 1 .. n : a[i] = 0, \A i \in Nat : i > 0 => a[n + i] = b[i]
  PROVE  \A k \in Nat : WorthUpTo(a)[n + k] = WorthUpTo(b)[k]
<1> DEFINE Z == {k \in Nat : k <= n => WorthUpTo(a)[k] = 0}
           P == {k \in Nat : WorthUpTo(a)[n + k] = WorthUpTo(b)[k]}
<1>1. 0 \in Z BY WorthStarts
<1>2. \A k \in Nat : k \in Z => k + 1 \in Z
  <2> SUFFICES ASSUME NEW k \in Nat, WorthUpTo(a)[k] = 0, k + 1 <= n
               PROVE  WorthUpTo(a)[k + 1] = 0
    OBVIOUS
  <2>1. a[k + 1] = 0 OBVIOUS
  <2>2. WorthUpTo(a)[k + 1] = 10 * WorthUpTo(a)[k] + a[k + 1] BY WorthGoesOn
  <2>3. WorthUpTo(a)[k + 1] = 10 * 0 + 0 BY <2>1, <2>2
  <2> QED BY <2>3
<1>3. n \in Z
  <2> HIDE DEF Z
  <2> QED BY <1>1, <1>2, Induction
<1>4. 0 \in P BY <1>3, WorthStarts
<1>5. \A k \in Nat : k \in P => k + 1 \in P
  <2> SUFFICES ASSUME NEW k \in Nat, WorthUpTo(a)[n + k] = WorthUpTo(b)[k]
               PROVE  WorthUpTo(a)[n + (k + 1)] = WorthUpTo(b)[k + 1]
    OBVIOUS
  <2> DEFINE m == n + k
  <2>1. m \in Nat /\ n + (k + 1) = m + 1 OBVIOUS
  <2>2. a[n + (k + 1)] = b[k + 1] OBVIOUS
  <2>3. WorthUpTo(a)[m + 1] = 10 * WorthUpTo(a)[m] + a[m + 1] BY <2>1, WorthGoesOn
  <2>4. WorthUpTo(b)[k + 1] = 10 * WorthUpTo(b)[k] + b[k + 1] BY WorthGoesOn
  <2> QED BY <2>1, <2>2, <2>3, <2>4
<1> HIDE DEF P
<1>6. \A k \in Nat : k \in P BY <1>4, <1>5, Induction
<1> QED BY <1>6 DEF P

(***************************************************************************)
(* The number a finite row of digits spells.                               *)
(***************************************************************************)
Pad(s) == [i \in Nat |-> IF i \in 1 .. Len(s) THEN s[i] ELSE 0]

LEMMA PadIs ==
  ASSUME NEW s \in Seq(0 .. 9)
  PROVE  /\ Pad(s) \in Digits
         /\ \A i \in 1 .. Len(s) : Pad(s)[i] = s[i]
         /\ \A i \in Nat : i > Len(s) => Pad(s)[i] = 0
BY DEF Pad, Digits

\* A function on the first numbers that is defined by recursion is what there is
\* on all of them.
LEMMA NumberIsWorth ==
  ASSUME NEW s \in Seq(0 .. 9)
  PROVE  D!Number(s) = WorthUpTo(Pad(s))[Len(s)]
<1> DEFINE n == Len(s)
           a == Pad(s)
           w == WorthUpTo(a)
           upTo == CHOOSE f : f = [k \in 0 .. n |-> IF k = 0 THEN 0 ELSE 10 * f[k - 1] + s[k]]
           g == [k \in 0 .. n |-> w[k]]
<1>1. n \in Nat /\ a \in Digits /\ \A i \in 1 .. n : a[i] = s[i] BY PadIs
<1> HIDE DEF n, a
<1>2. w[0] = 0 /\ \A k \in Nat : w[k + 1] = 10 * w[k] + a[k + 1] BY <1>1, WorthIs
<1> HIDE DEF w
<1>3. \A k \in 0 .. n : g[k] = IF k = 0 THEN 0 ELSE 10 * g[k - 1] + s[k]
  <2> TAKE k \in 0 .. n
  <2>1. CASE k = 0 BY <1>2, <2>1
  <2>2. CASE k # 0
    <3>1. k - 1 \in Nat /\ k - 1 \in 0 .. n /\ (k - 1) + 1 = k /\ k \in 1 .. n BY <1>1, <2>2
    <3>2. w[k] = 10 * w[k - 1] + a[k] BY <1>2, <3>1
    <3>3. g[k] = w[k] /\ g[k - 1] = w[k - 1] BY <3>1
    <3> QED BY <1>1, <2>2, <3>1, <3>2, <3>3
  <2> QED BY <2>1, <2>2
<1>4. g = [k \in 0 .. n |-> IF k = 0 THEN 0 ELSE 10 * g[k - 1] + s[k]] BY <1>3
<1> HIDE DEF g
<1>5. upTo = [k \in 0 .. n |-> IF k = 0 THEN 0 ELSE 10 * upTo[k - 1] + s[k]] BY <1>4
<1> HIDE DEF upTo
<1>6. upTo[0] = 0 /\ \A k \in Nat : k + 1 <= n => upTo[k + 1] = 10 * upTo[k] + s[k + 1]
  <2>1. upTo[0] = 0 BY <1>1, <1>5
  <2>2. ASSUME NEW k \in Nat, k + 1 <= n PROVE upTo[k + 1] = 10 * upTo[k] + s[k + 1]
    <3>1. k + 1 \in 0 .. n /\ k + 1 # 0 /\ (k + 1) - 1 = k BY <1>1, <2>2
    <3> QED BY <1>5, <3>1
  <2> QED BY <2>1, <2>2
<1> DEFINE P == {k \in Nat : k <= n => upTo[k] = w[k]}
<1>7. 0 \in P BY <1>2, <1>6
<1>8. \A k \in Nat : k \in P => k + 1 \in P
  <2> SUFFICES ASSUME NEW k \in Nat, k <= n => upTo[k] = w[k] PROVE k + 1 \in P OBVIOUS
  <2>1. ASSUME k + 1 <= n PROVE upTo[k + 1] = w[k + 1]
    <3>1. k <= n /\ k + 1 \in 1 .. n BY <1>1, <2>1
    <3> QED BY <1>1, <1>2, <1>6, <2>1, <3>1
  <2>2. k + 1 \in Nat OBVIOUS
  <2> QED BY <2>1, <2>2
<1> HIDE DEF P
<1>9. n \in P BY <1>1, <1>7, <1>8, Induction
<1>10. upTo[n] = w[n] BY <1>1, <1>9 DEF P
<1>11. D!Number(s) = upTo[n] BY DEF D!Number, upTo, n
<1> QED BY <1>10, <1>11 DEF w, a, n

LEMMA TenToIs ==
  /\ D!TenTo[0] = 1
  /\ \A n \in Nat : D!TenTo[n] \in Nat /\ D!TenTo[n + 1] = 10 * D!TenTo[n]
<1> DEFINE next  == [k \in Nat |-> [x \in Nat |-> 10 * x]]
           first == 1
           N     == Nat
           g     == ByRecursion(N, first, next)
           f     == D!TenTo
<1>1. first \in N /\ next \in [Nat -> [N -> N]] OBVIOUS
<1>2. \A k, x \in Nat : next[k][x] = 10 * x OBVIOUS
<1>3. first = 1 /\ N = Nat OBVIOUS
<1> HIDE DEF next, first, N
<1>4. g \in [Nat -> N] /\ g[0] = first /\ \A k \in Nat : g[k + 1] = next[k][g[k]]
  BY <1>1, Recursion
<1> HIDE DEF g
<1>5. g \in [Nat -> Nat] /\ g[0] = 1 /\ \A k \in Nat : g[k + 1] = 10 * g[k]
  <2>1. \A k \in Nat : g[k] \in Nat BY <1>3, <1>4
  <2> QED BY <2>1, <1>2, <1>3, <1>4
<1>6. \A n \in Nat : g[n] = IF n = 0 THEN 1 ELSE 10 * g[n - 1]
  <2> TAKE n \in Nat
  <2>1. CASE n = 0 BY <1>5, <2>1
  <2>2. CASE n # 0
    <3>1. n - 1 \in Nat /\ (n - 1) + 1 = n BY <2>2
    <3>2. g[(n - 1) + 1] = 10 * g[n - 1] BY <1>5, <3>1
    <3> QED BY <2>2, <3>1, <3>2
  <2> QED BY <2>1, <2>2
<1>7. g = [n \in Nat |-> IF n = 0 THEN 1 ELSE 10 * g[n - 1]] BY <1>5, <1>6
<1>8. f = [n \in Nat |-> IF n = 0 THEN 1 ELSE 10 * f[n - 1]] BY <1>7 DEF D!TenTo
<1> HIDE DEF f
<1>9. f[0] = 1 BY <1>8
<1>10. \A n \in Nat : f[n + 1] = 10 * f[n]
  <2> TAKE n \in Nat
  <2>1. n + 1 \in Nat /\ n + 1 # 0 /\ (n + 1) - 1 = n OBVIOUS
  <2>2. f[n + 1] = 10 * f[(n + 1) - 1] BY <1>8, <2>1
  <2> QED BY <2>1, <2>2
<1> DEFINE P == {n \in Nat : f[n] \in Nat}
<1>11. \A n \in Nat : n \in P
  <2>1. 0 \in P BY <1>9
  <2>2. \A n \in Nat : n \in P => n + 1 \in P BY <1>10
  <2> HIDE DEF P
  <2> QED BY <2>1, <2>2, Induction
<1> QED BY <1>9, <1>10, <1>11 DEF f

\* Zeros behind a row are powers of ten.
LEMMA ZerosBehind ==
  ASSUME NEW a \in Digits, NEW n \in Nat, \A i \in Nat : i > n => a[i] = 0
  PROVE  \A j \in Nat : WorthUpTo(a)[n + j] = WorthUpTo(a)[n] * D!TenTo[j]
<1> DEFINE w == WorthUpTo(a)
           f == D!TenTo
           v == w[n]
           P == {j \in Nat : w[n + j] = v * f[j]}
<1>1. w \in [Nat -> Nat] /\ \A k \in Nat : w[k + 1] = 10 * w[k] + a[k + 1] BY WorthIs
<1>2. f[0] = 1 /\ \A j \in Nat : f[j] \in Nat /\ f[j + 1] = 10 * f[j] BY TenToIs
<1>3. v \in Nat BY <1>1
<1> HIDE DEF w, f, v
<1>4. 0 \in P
  <2>1. w[n + 0] = v BY DEF v
  <2> QED BY <1>2, <1>3, <2>1
<1>5. \A j \in Nat : j \in P => j + 1 \in P
  <2> SUFFICES ASSUME NEW j \in Nat, w[n + j] = v * f[j] PROVE w[n + (j + 1)] = v * f[j + 1]
    OBVIOUS
  <2> DEFINE m == n + j
             x == f[j]
             y == w[m]
  <2>1. m \in Nat /\ n + (j + 1) = m + 1 /\ m + 1 > n OBVIOUS
  <2>2. a[m + 1] = 0 BY <2>1
  <2>3. w[m + 1] = 10 * w[m] + a[m + 1] BY <1>1, <2>1
  <2>4. x \in Nat /\ f[j + 1] = 10 * x BY <1>2
  <2>5. y = v * x /\ y \in Nat BY <1>1, <2>1
  <2>6. n + (j + 1) = m + 1 OBVIOUS
  <2> HIDE DEF m, x, y
  <2>7. w[m + 1] = 10 * y BY <2>2, <2>3, <2>5 DEF y
  <2>8. v * (10 * x) = 10 * (v * x) BY <1>3, <2>4
  <2> QED BY <2>4, <2>5, <2>6, <2>7, <2>8
<1> HIDE DEF P
<1>6. \A j \in Nat : j \in P BY <1>4, <1>5, Induction
<1> QED BY <1>6 DEF P, w, f, v

\* Multiplying by a power of ten is putting zeros behind.
LEMMA NumberTimesTen ==
  ASSUME NEW s \in Seq(0 .. 9), NEW j \in Nat
  PROVE  D!Number(s) * D!TenTo[j] = WorthUpTo(Pad(s))[Len(s) + j]
<1>1. Len(s) \in Nat /\ Pad(s) \in Digits /\ \A i \in Nat : i > Len(s) => Pad(s)[i] = 0 BY PadIs
<1> QED BY <1>1, NumberIsWorth, ZerosBehind

LEMMA SameCardinality ==
  ASSUME NEW K
  PROVE  D!Cardinality(K) = Cardinality(K)
BY DEF D!Cardinality, Cardinality, D!IsFiniteSet, IsFiniteSet

LEMMA UnsignedIs ==
  ASSUME NEW lit \in Seq(0 .. 13)
  PROVE  D!Unsigned(lit) \in Seq(0 .. 13)
BY DEF D!Unsigned

LEMMA AllWithin ==
  ASSUME NEW K, NEW T, NEW s \in Seq(K), \A i \in 1 .. Len(s) : s[i] \in T
  PROVE  s \in Seq(T)
OBVIOUS

LEMMA SliceIs ==
  ASSUME NEW K, NEW s \in Seq(K), NEW m \in Int, NEW n \in Int, 1 <= m, n <= Len(s)
  PROVE  /\ SubSeq(s, m, n) \in Seq(K)
         /\ Len(SubSeq(s, m, n)) = IF m <= n THEN n - m + 1 ELSE 0
         /\ \A i \in 1 .. n - m + 1 : SubSeq(s, m, n)[i] = s[m + i - 1]
OBVIOUS

LEMMA HalvesAreDigits ==
  ASSUME NEW u \in Seq(0 .. 13), Cardinality(D!Dots(u)) <= 1,
         \A i \in 1 .. Len(u) : u[i] \in D!Digit \cup {D!Dot}
  PROVE  D!Whole(u) \in Seq(0 .. 9) /\ D!Fraction(u) \in Seq(0 .. 9)
<1> DEFINE n == Len(u)
           dots == D!Dots(u)
<1>1. n \in Nat OBVIOUS
<1>2. dots = {i \in 1 .. n : u[i] = D!Dot} BY DEF D!Dots
<1>3. IsFiniteSet(dots)
  <2>1. IsFiniteSet(1 .. n) BY <1>1, FS_Interval
  <2> QED BY <1>2, <2>1, FS_Subset
<1>4. \A i, j \in dots : i = j
  <2> SUFFICES ASSUME NEW i \in dots, NEW j \in dots, i # j PROVE FALSE OBVIOUS
  <2>1. {i, j} \subseteq dots OBVIOUS
  <2>2. Cardinality({i, j}) <= Cardinality(dots) BY <1>3, <2>1, FS_Subset
  <2>3. Cardinality({i, j}) = 2
    <3>1. IsFiniteSet({i}) /\ Cardinality({i}) = 1 BY FS_Singleton
    <3>2. {i, j} = {i} \cup {j} OBVIOUS
    <3>3. Cardinality({i} \cup {j}) = Cardinality({i}) + 1 BY <3>1, FS_AddElement
    <3>4. Cardinality({i} \cup {j}) = 1 + 1 BY <3>1, <3>3
    <3>5. Cardinality({i, j}) = 1 + 1 BY Zenon, <3>2, <3>4
    <3> QED BY <3>5
  <2>4. Cardinality(dots) \in Nat BY <1>3, FS_CardinalityType
  <2> QED BY <2>2, <2>3, <2>4
<1>5. \A i \in 1 .. n : i \notin dots => u[i] \in 0 .. 9 BY <1>2 DEF D!Digit
<1>6. CASE dots = {}
  <2>1. D!Point(u) = n + 1 BY <1>6 DEF D!Point
  <2>2. D!Whole(u) = SubSeq(u, 1, n) BY <1>1, <2>1 DEF D!Whole
  <2>3. D!Fraction(u) = SubSeq(u, n + 2, n) BY <1>1, <2>1 DEF D!Fraction
  <2>4. u \in Seq(0 .. 9) BY <1>5, <1>6
  <2> QED BY <1>1, <2>2, <2>3, <2>4, SliceIs
<1>7. CASE dots # {}
  <2>1. PICK p \in dots : TRUE BY <1>7
  <2>2. dots = {p} /\ p \in 1 .. n BY <1>2, <1>4, <2>1
  <2>3. D!Max(dots) = p BY <2>2 DEF D!Max
  <2>4. D!Point(u) = p BY <1>7, <2>3 DEF D!Point
  <2>5. D!Whole(u) = SubSeq(u, 1, p - 1) /\ D!Fraction(u) = SubSeq(u, p + 1, n)
    BY <2>4 DEF D!Whole, D!Fraction
  <2> DEFINE v == SubSeq(u, 1, p - 1)
             w == SubSeq(u, p + 1, n)
  <2>6. v \in Seq(0 .. 13) /\ Len(v) = p - 1 /\ \A i \in 1 .. p - 1 : v[i] = u[i]
    BY <1>1, <2>2
  <2>7. w \in Seq(0 .. 13) /\ Len(w) = n - p /\ \A i \in 1 .. n - p : w[i] = u[p + i]
    BY <1>1, <2>2
  <2> HIDE DEF v, w
  <2>8. \A i \in 1 .. Len(v) : v[i] \in 0 .. 9
    <3>1. \A i \in 1 .. p - 1 : i \in 1 .. n /\ i \notin dots BY <1>1, <2>2
    <3> QED BY <1>5, <2>6, <3>1
  <2>9. \A i \in 1 .. Len(w) : w[i] \in 0 .. 9
    <3>1. \A i \in 1 .. n - p : p + i \in 1 .. n /\ p + i \notin dots BY <1>1, <2>2
    <3> QED BY <1>5, <2>7, <3>1
  <2>10. v \in Seq(0 .. 9) /\ w \in Seq(0 .. 9) BY <2>6, <2>7, <2>8, <2>9, AllWithin
  <2> QED BY <2>5, <2>10 DEF v, w
<1> QED BY <1>6, <1>7

\* What is left when the zeros in front are gone.
LEMMA NoLeadingZerosIs ==
  ASSUME NEW s \in Seq(0 .. 9)
  PROVE  /\ D!NoLeadingZeros(s) \in Seq(0 .. 9)
         /\ Len(D!NoLeadingZeros(s)) <= Len(s)
         /\ \A i \in 1 .. Len(s) - Len(D!NoLeadingZeros(s)) : s[i] = 0
         /\ \A i \in 1 .. Len(D!NoLeadingZeros(s)) :
              D!NoLeadingZeros(s)[i] = s[Len(s) - Len(D!NoLeadingZeros(s)) + i]
         /\ D!NoLeadingZeros(s) # << >> => D!NoLeadingZeros(s)[1] # 0
<1> DEFINE n  == Len(s)
           ks == {k \in 0 .. n : \A i \in 1 .. k : s[i] = 0}
           m  == D!Max(ks)
           r  == SubSeq(s, m + 1, n)
<1>1. n \in Nat OBVIOUS
<1>2. D!NoLeadingZeros(s) = r BY DEF D!NoLeadingZeros
<1>3. m \in ks /\ \A k \in ks : k <= m
  <2>1. ks \subseteq 0 .. n /\ 0 \in ks BY <1>1
  <2> HIDE DEF ks
  <2> QED BY <1>1, <2>1, GreatestIs
<1>4. m \in 0 .. n /\ \A i \in 1 .. m : s[i] = 0 BY <1>3
<1> HIDE DEF m
<1>5. r \in Seq(0 .. 9) /\ Len(r) = n - m /\ \A i \in 1 .. n - m : r[i] = s[m + i]
  BY <1>1, <1>4
<1>6. m < n => s[m + 1] # 0
  <2> SUFFICES ASSUME m < n, s[m + 1] = 0 PROVE FALSE OBVIOUS
  <2>1. m + 1 \in ks BY <1>1, <1>4
  <2> HIDE DEF ks
  <2> QED BY <1>3, <1>4, <2>1
<1> HIDE DEF r
<1>7. r # << >> => m < n BY <1>1, <1>4, <1>5
<1>8. n - Len(r) = m BY <1>1, <1>4, <1>5
<1>9. r # << >> => r[1] # 0
  <2> SUFFICES ASSUME r # << >> PROVE r[1] # 0 OBVIOUS
  <2>1. 1 \in 1 .. n - m BY <1>1, <1>4, <1>7
  <2> QED BY <1>5, <1>6, <1>7, <2>1
<1> QED BY <1>1, <1>2, <1>4, <1>5, <1>8, <1>9

LEMMA SpareIs ==
  ASSUME NEW s \in Seq(0 .. 9), NEW scale \in Nat
  PROVE  /\ D!Spare(s, scale) \in 0 .. scale /\ D!Spare(s, scale) <= Len(s)
         /\ \A i \in 0 .. D!Spare(s, scale) - 1 : s[Len(s) - i] = 0
<1> DEFINE ks == {k \in 0 .. scale : k <= Len(s) /\ \A i \in 0 .. k - 1 : s[Len(s) - i] = 0}
<1>1. ks \subseteq 0 .. scale /\ 0 \in ks OBVIOUS
<1>2. D!Spare(s, scale) = D!Max(ks) BY DEF D!Spare
<1>3. D!Max(ks) \in ks
  <2> HIDE DEF ks
  <2> QED BY <1>1, GreatestIs
<1> QED BY <1>2, <1>3

(***************************************************************************)
(* The digits of a literal, and how many are behind the point.             *)
(***************************************************************************)
DigitsOf(lit) == D!Whole(D!Unsigned(lit)) \o D!Fraction(D!Unsigned(lit))
Places(lit)   == Len(D!Fraction(D!Unsigned(lit)))
Minuses(lit)  == Head(lit) = D!Minus

LEMMA DigitsOfIs ==
  ASSUME NEW lit \in Seq(0 .. 13), D!IsDecimal(lit)
  PROVE  DigitsOf(lit) \in Seq(0 .. 9) /\ Places(lit) \in Nat
<1> DEFINE u == D!Unsigned(lit)
<1>1. u \in Seq(0 .. 13) BY UnsignedIs
<1>2. Cardinality(D!Dots(u)) <= 1 /\ \A i \in 1 .. Len(u) : u[i] \in D!Digit \cup {D!Dot}
  BY SameCardinality DEF D!IsDecimal
<1> HIDE DEF u
<1>3. D!Whole(u) \in Seq(0 .. 9) /\ D!Fraction(u) \in Seq(0 .. 9) BY <1>1, <1>2, HalvesAreDigits
<1>4. D!Whole(u) \o D!Fraction(u) \in Seq(0 .. 9) /\ Len(D!Fraction(u)) \in Nat BY <1>3
<1> QED BY <1>4 DEF DigitsOf, Places, u

\* What is behind the sign of a number that is not zero: its first digit counts,
\* and however many zeros follow, the digits spell the same.
Significant(p, lit) ==
  /\ p.sign = IF Minuses(lit) THEN -1 ELSE 1
  /\ p.digits \in Seq(0 .. 9) /\ p.digits # << >> /\ p.digits[1] # 0
  /\ p.scale \in 0 .. Places(lit)
  /\ \A j \in Nat :
       WorthUpTo(Pad(DigitsOf(lit)))[Len(DigitsOf(lit)) + j]
         = WorthUpTo(Pad(p.digits))[Len(p.digits) + (Places(lit) - p.scale) + j]

Nothing(p, lit) ==
  p.sign = 0 /\ \A j \in Nat : WorthUpTo(Pad(DigitsOf(lit)))[Len(DigitsOf(lit)) + j] = 0

LEMMA PartsAre ==
  ASSUME NEW lit \in Seq(0 .. 13), D!IsDecimal(lit)
  PROVE  Significant(D!Parts(lit), lit) \/ Nothing(D!Parts(lit), lit)
<1> DEFINE d == DigitsOf(lit)
           f == Places(lit)
           s == D!NoLeadingZeros(d)
           k == D!Spare(s, f)
           n == Len(s) - k
           t == SubSeq(s, 1, n)
           m == Len(d) - Len(s)
<1>1. d \in Seq(0 .. 9) /\ f \in Nat BY DigitsOfIs
<1>2. D!Parts(lit) = IF s = << >> THEN [sign |-> 0, digits |-> << 0 >>, scale |-> 0]
                     ELSE [sign   |-> IF Minuses(lit) THEN -1 ELSE 1,
                           digits |-> t, scale  |-> f - k]
  BY DEF D!Parts, DigitsOf, Places, Minuses
<1> HIDE DEF d, f
<1>3. /\ s \in Seq(0 .. 9) /\ Len(s) <= Len(d)
      /\ \A i \in 1 .. m : d[i] = 0
      /\ \A i \in 1 .. Len(s) : s[i] = d[m + i]
      /\ s # << >> => s[1] # 0
  BY <1>1, NoLeadingZerosIs
<1>4. m \in Nat /\ Len(s) \in Nat /\ Len(d) \in Nat /\ Len(d) = m + Len(s) BY <1>1, <1>3
<1> HIDE DEF s, m
<1>5. k \in 0 .. f /\ k <= Len(s) /\ \A i \in 0 .. k - 1 : s[Len(s) - i] = 0
  BY <1>1, <1>3, SpareIs
<1> HIDE DEF k
<1>6. n \in 0 .. Len(s) /\ Len(s) = n + k BY <1>4, <1>5
<1>7. t \in Seq(0 .. 9) /\ Len(t) = n /\ \A i \in 1 .. n : t[i] = s[i]
  <2> HIDE DEF n
  <2>1. n \in Int /\ 1 \in Int /\ 1 <= 1 /\ n <= Len(s) BY <1>4, <1>6
  <2>2. t \in Seq(0 .. 9) /\ Len(t) = (IF 1 <= n THEN n - 1 + 1 ELSE 0) BY <1>3, <2>1, SliceIs
  <2> QED BY <1>3, <1>4, <1>6, <2>1, <2>2, SliceIs
<1>8. \A i \in 1 .. Len(s) : i > n => s[i] = 0
  <2> TAKE i \in 1 .. Len(s)
  <2>1. i > n => Len(s) - i \in 0 .. k - 1 /\ i = Len(s) - (Len(s) - i) BY <1>4, <1>5, <1>6
  <2> QED BY <1>5, <2>1
<1> HIDE DEF t, n
<1>9. Pad(d) \in Digits /\ Pad(t) \in Digits BY <1>1, <1>7, PadIs
<1>10. \A i \in 1 .. m : Pad(d)[i] = 0
  <2>1. \A i \in 1 .. m : i \in 1 .. Len(d) BY <1>4
  <2> QED BY <1>1, <1>3, <2>1, PadIs
<1>11. \A i \in Nat : i > 0 => Pad(d)[m + i] = Pad(t)[i]
  <2> SUFFICES ASSUME NEW i \in Nat, i > 0 PROVE Pad(d)[m + i] = Pad(t)[i] OBVIOUS
  <2>1. CASE i <= n
    <3>1. i \in 1 .. n /\ i \in 1 .. Len(s) /\ m + i \in 1 .. Len(d) BY <1>4, <1>6, <2>1
    <3>2. Pad(t)[i] = t[i] BY <1>7, <3>1, PadIs
    <3>3. Pad(d)[m + i] = d[m + i] BY <1>1, <3>1, PadIs
    <3> QED BY <1>3, <1>7, <3>1, <3>2, <3>3
  <2>2. CASE i > n /\ i <= Len(s)
    <3>1. i \in 1 .. Len(s) /\ m + i \in 1 .. Len(d) BY <1>4, <2>2
    <3>2. Pad(t)[i] = 0 BY <1>7, <2>2, PadIs
    <3>3. Pad(d)[m + i] = d[m + i] BY <1>1, <3>1, PadIs
    <3> QED BY <1>3, <1>8, <2>2, <3>1, <3>2, <3>3
  <2>3. CASE i > Len(s)
    <3>1. i > n /\ m + i \in Nat /\ m + i > Len(d) BY <1>4, <1>6, <2>3
    <3>2. Pad(t)[i] = 0 BY <1>7, <3>1, PadIs
    <3>3. Pad(d)[m + i] = 0 BY <1>1, <3>1, PadIs
    <3> QED BY <3>2, <3>3
  <2> QED BY <1>4, <1>6, <2>1, <2>2, <2>3
<1>12. \A q \in Nat : WorthUpTo(Pad(d))[m + q] = WorthUpTo(Pad(t))[q]
  BY <1>4, <1>9, <1>10, <1>11, ZerosInFront
<1>13. CASE s = << >>
  <2>1. Len(s) = 0 /\ n = 0 BY <1>4, <1>6, <1>13
  <2>2. \A i \in Nat : Pad(t)[i] = 0 BY <1>7, <2>1 DEF Pad
  <2>3. \A j \in Nat : WorthUpTo(Pad(t))[j] = 0
    <3>1. WorthUpTo(Pad(t))[0] = 0 BY <1>9, WorthStarts
    <3>2. \A j \in Nat : WorthUpTo(Pad(t))[0 + j] = WorthUpTo(Pad(t))[0] * D!TenTo[j]
      BY <1>9, <2>2, ZerosBehind
    <3> TAKE j \in Nat
    <3> DEFINE x == D!TenTo[j]
    <3>3. x \in Nat BY TenToIs
    <3>4. WorthUpTo(Pad(t))[0 + j] = 0 * x BY <3>1, <3>2
    <3> HIDE DEF x
    <3> QED BY <3>3, <3>4
  <2>4. \A j \in Nat : WorthUpTo(Pad(d))[Len(d) + j] = 0
    <3>1. Len(d) = m BY <1>4, <2>1
    <3> QED BY <1>12, <2>3, <3>1
  <2>5. Nothing(D!Parts(lit), lit) BY <1>2, <1>13, <2>4 DEF Nothing, d
  <2> QED BY <2>5
<1>14. CASE s # << >>
  <2> DEFINE p == D!Parts(lit)
  <2>1. p.sign = (IF Minuses(lit) THEN -1 ELSE 1) /\ p.digits = t /\ p.scale = f - k
    BY <1>2, <1>14
  <2> HIDE DEF p
  <2>2. Len(s) > 0 /\ s[1] # 0 BY <1>3, <1>4, <1>14
  <2>3. n > 0 BY <1>4, <1>6, <1>8, <2>2
  <2>4. t # << >> /\ t[1] # 0 BY <1>6, <1>7, <2>2, <2>3
  <2>5. f - k \in 0 .. f BY <1>1, <1>5
  <2>6. \A j \in Nat : WorthUpTo(Pad(d))[Len(d) + j] = WorthUpTo(Pad(t))[Len(t) + (f - (f - k)) + j]
    <3> TAKE j \in Nat
    <3>1. /\ Len(d) + j = m + (Len(s) + j) /\ Len(s) + j \in Nat
          /\ Len(t) + (f - (f - k)) + j = Len(s) + j
      BY <1>1, <1>4, <1>5, <1>6, <1>7
    <3> QED BY <1>12, <3>1
  <2>7. Significant(p, lit) BY <1>7, <2>1, <2>4, <2>5, <2>6 DEF Significant, d, f
  <2> QED BY <2>7 DEF p
<1> QED BY <1>13, <1>14

LEMMA DigitAtIs ==
  ASSUME NEW s \in Seq(0 .. 9), NEW i \in Nat, i > 0
  PROVE  D!DigitAt(s, i) = Pad(s)[i]
BY DEF D!DigitAt, Pad

\* Of two numbers as long, the digits decide.
LEMMA AsLongComparesDigits ==
  ASSUME NEW a \in Seq(0 .. 9), NEW b \in Seq(0 .. 9), NEW n \in Nat, Len(a) <= n, Len(b) <= n
  PROVE  D!Sign(WorthUpTo(Pad(a))[n] - WorthUpTo(Pad(b))[n]) = D!CompareDigits(a, b)
<1> DEFINE x == Pad(a)
           y == Pad(b)
           differ == {i \in 1 .. Len(a) + Len(b) : D!DigitAt(a, i) # D!DigitAt(b, i)}
           m == D!Min(differ)
           v == WorthUpTo(x)[n]
           w == WorthUpTo(y)[n]
<1>1. Len(a) \in Nat /\ Len(b) \in Nat OBVIOUS
<1>2. x \in Digits /\ y \in Digits BY PadIs
<1>3. \A i \in Nat : i > Len(a) => x[i] = 0 BY PadIs
<1>4. \A i \in Nat : i > Len(b) => y[i] = 0 BY PadIs
<1>5. \A i \in Nat : i > 0 => D!DigitAt(a, i) = x[i] /\ D!DigitAt(b, i) = y[i] BY DigitAtIs
<1>6. D!CompareDigits(a, b)
        = IF differ = {} THEN 0 ELSE D!Sign(D!DigitAt(a, m) - D!DigitAt(b, m))
  BY DEF D!CompareDigits
<1>7. v \in Nat /\ w \in Nat BY <1>2, WorthIs
<1> HIDE DEF x, y, m
<1>8. \A i \in Nat : i > 0 /\ i \notin differ => x[i] = y[i]
  <2> TAKE i \in Nat
  <2>1. CASE i \in 1 .. Len(a) + Len(b) BY <1>5, <2>1
  <2>2. CASE i > Len(a) + Len(b)
    <3>1. i > Len(a) /\ i > Len(b) BY <1>1, <2>2
    <3> QED BY <1>3, <1>4, <3>1
  <2> QED BY <1>1, <2>1, <2>2
<1>9. CASE differ = {}
  <2>1. \A i \in 1 .. n : x[i] = y[i] BY <1>8, <1>9
  <2>2. v = w BY <1>2, <2>1, SameDigitsSameWorth
  <2>3. v - w = 0 BY <1>7, <2>2
  <2> HIDE DEF v, w
  <2> QED BY <1>6, <1>9, <2>3 DEF D!Sign, v, w, x, y
<1>10. CASE differ # {}
  <2>1. differ \subseteq Nat BY <1>1
  <2>2. m \in differ /\ \A i \in differ : m <= i
    <3> HIDE DEF differ
    <3> QED BY <1>10, <2>1, LeastIs DEF m
  <2>3. m \in Nat /\ m > 0 /\ D!DigitAt(a, m) = x[m] /\ D!DigitAt(b, m) = y[m] /\ x[m] # y[m]
    BY <1>1, <1>5, <2>2
  <2>4. \A i \in 1 .. m - 1 : x[i] = y[i]
    <3>1. \A i \in 1 .. m - 1 : i \in Nat /\ i > 0 /\ i \notin differ
      <4> HIDE DEF differ
      <4> QED BY <2>2, <2>3
    <3> HIDE DEF differ
    <3> QED BY <1>8, <3>1
  <2>5. m <= n
    <3>1. m <= Len(a) \/ m <= Len(b) BY <1>1, <1>3, <1>4, <2>3
    <3> QED BY <1>1, <2>3, <3>1
  <2>6. x[m] \in 0 .. 9 /\ y[m] \in 0 .. 9 BY <1>2, <2>3 DEF Digits
  <2> HIDE DEF differ, v, w
  <2>7. D!CompareDigits(a, b) = D!Sign(x[m] - y[m]) BY <1>6, <1>10, <2>3
  <2>8. CASE x[m] < y[m]
    <3>1. v < w BY <1>2, <2>3, <2>4, <2>5, <2>8, SmallerDigitSmallerWorth DEF v, w
    <3>2. v - w < 0 BY <1>7, <3>1
    <3> DEFINE p == x[m]
               q == y[m]
    <3>4. p \in Int /\ q \in Int /\ p < q BY <2>6, <2>8
    <3> HIDE DEF p, q
    <3>5. p - q < 0 BY <3>4
    <3>3. D!Sign(v - w) = -1 /\ D!Sign(x[m] - y[m]) = -1 BY <3>2, <3>5 DEF D!Sign, p, q
    <3> QED BY <2>7, <3>3 DEF v, w, x, y
  <2>9. CASE y[m] < x[m]
    <3>0. \A i \in 1 .. m - 1 : y[i] = x[i] BY <2>4
    <3>1. w < v BY <1>2, <2>3, <3>0, <2>5, <2>9, SmallerDigitSmallerWorth DEF v, w
    <3>2. v - w > 0 /\ x[m] - y[m] > 0 BY <1>7, <2>6, <2>9, <3>1
    <3> DEFINE p == x[m] - y[m]
               q == v - w
    <3>4. p \in Int /\ q \in Int /\ p > 0 /\ q > 0 BY <1>7, <2>6, <3>2, SMTT(30)
    <3> HIDE DEF p, q
    <3>5. D!Sign(q) = 1 /\ D!Sign(p) = 1 BY <3>4 DEF D!Sign
    <3>3. D!Sign(v - w) = 1 /\ D!Sign(x[m] - y[m]) = 1 BY <3>5 DEF p, q
    <3> QED BY <2>7, <3>3 DEF v, w, x, y
  <2> QED BY <2>3, <2>6, <2>8, <2>9, SMTT(30)
<1> QED BY <1>9, <1>10

\* The longer of two numbers is the greater, if its first digit counts.
LEMMA LongerIsGreater ==
  ASSUME NEW a \in Seq(0 .. 9), a # << >>, a[1] # 0, NEW b \in Seq(0 .. 9),
         NEW n \in Nat, NEW k \in Nat, k < n
  PROVE  WorthUpTo(Pad(b))[k] < WorthUpTo(Pad(a))[n]
<1> DEFINE x == Pad(a)
           y == Pad(b)
           z == n - k
           c == [i \in Nat |-> IF i <= z THEN 0 ELSE y[i - z]]
<1>1. x \in Digits /\ y \in Digits BY PadIs
<1>2. 1 \in 1 .. Len(a)
  <2>1. Len(a) \in Nat \ {0} BY EmptySeq
  <2> QED BY <2>1
<1>3. x[1] = a[1] /\ a[1] \in 0 .. 9 BY <1>2, PadIs
<1>4. z \in Nat /\ z >= 1 /\ n = z + k OBVIOUS
<1> HIDE DEF x, y, z
<1>5. c \in Digits
  <2>1. \A i \in Nat : c[i] \in 0 .. 9 BY <1>1, <1>4 DEF Digits
  <2> QED BY <2>1 DEF Digits
<1>6. \A i \in 1 .. z : c[i] = 0 OBVIOUS
<1>7. \A i \in Nat : i > 0 => c[z + i] = y[i]
  <2> TAKE i \in Nat
  <2>1. i > 0 => z + i \in Nat /\ ~ (z + i <= z) /\ (z + i) - z = i BY <1>4
  <2> QED BY <2>1
<1>8. c[1] = 0 BY <1>4
<1> HIDE DEF c
<1>9. WorthUpTo(c)[z + k] = WorthUpTo(y)[k] BY <1>1, <1>4, <1>5, <1>6, <1>7, ZerosInFront, ZenonT(30)
<1>10. c[1] < x[1] BY <1>3, <1>8
<1> DEFINE one == 1
<1>11. /\ one \in Nat /\ one > 0 /\ (\A i \in 1 .. one - 1 : c[i] = x[i])
       /\ c[one] < x[one] /\ one <= n
  BY <1>4, <1>10
<1> HIDE DEF one
<1>12. WorthUpTo(c)[n] < WorthUpTo(x)[n] BY <1>1, <1>5, <1>11, SmallerDigitSmallerWorth
<1> QED BY <1>4, <1>9, <1>12 DEF x, y

LEMMA FirstDigitCounts ==
  ASSUME NEW a \in Seq(0 .. 9), a # << >>, a[1] # 0, NEW n \in Nat, n > 0
  PROVE  WorthUpTo(Pad(a))[n] \in Nat /\ WorthUpTo(Pad(a))[n] > 0
<1>1. WorthUpTo(Pad(a))[n] \in Nat BY PadIs, WorthIs
<1> DEFINE b == << >>
           k == 0
<1>2. b \in Seq(0 .. 9) /\ k \in Nat /\ k < n OBVIOUS
<1>3. WorthUpTo(Pad(b))[k] = 0 BY <1>2, PadIs, WorthIs
<1> HIDE DEF b, k
<1>4. WorthUpTo(Pad(b))[k] < WorthUpTo(Pad(a))[n] BY <1>2, LongerIsGreater
<1> QED BY <1>1, <1>3, <1>4

\* The two sides as whole numbers, with as many digits behind the point.
Scaled(lit, other) == WorthUpTo(Pad(DigitsOf(lit)))[Len(DigitsOf(lit)) + Places(other)]

LEMMA OrderIs ==
  ASSUME NEW l \in Seq(0 .. 13), D!IsDecimal(l), NEW r \in Seq(0 .. 13), D!IsDecimal(r)
  PROVE  /\ Scaled(l, r) \in Nat /\ Scaled(r, l) \in Nat
         /\ D!Order(l, r) = D!Sign((IF Minuses(l) THEN - Scaled(l, r) ELSE Scaled(l, r))
                                     - (IF Minuses(r) THEN - Scaled(r, l) ELSE Scaled(r, l)))
<1> DEFINE a == DigitsOf(l)
           b == DigitsOf(r)
           x == D!Number(a)
           y == D!Number(b)
           s == D!TenTo[Places(r)]
           t == D!TenTo[Places(l)]
           v == Scaled(l, r)
           w == Scaled(r, l)
<1>1. a \in Seq(0 .. 9) /\ b \in Seq(0 .. 9) /\ Places(l) \in Nat /\ Places(r) \in Nat
  BY DigitsOfIs
<1>2. x * s = v /\ y * t = w BY <1>1, NumberTimesTen DEF Scaled
<1>3. v \in Nat /\ w \in Nat
  <2>1. Pad(a) \in Digits /\ Pad(b) \in Digits BY <1>1, PadIs
  <2>2. Len(a) + Places(r) \in Nat /\ Len(b) + Places(l) \in Nat BY <1>1
  <2> QED BY <2>1, <2>2, WorthIs DEF Scaled
<1>4. x \in Nat /\ y \in Nat
  <2>1. Pad(a) \in Digits /\ Pad(b) \in Digits BY <1>1, PadIs
  <2>2. Len(a) \in Nat /\ Len(b) \in Nat BY <1>1
  <2> QED BY <1>1, <2>1, <2>2, WorthIs, NumberIsWorth
<1>5. s \in Nat /\ t \in Nat BY <1>1, TenToIs
<1>6. D!Order(l, r) = D!Sign((IF Minuses(l) THEN -x ELSE x) * s - (IF Minuses(r) THEN -y ELSE y) * t)
  BY DEF D!Order, D!Meaning, DigitsOf, Places, Minuses
<1> HIDE DEF x, y, s, t, v, w
<1>7. (-x) * s = -v /\ (-y) * t = -w BY <1>2, <1>4, <1>5
<1>8. /\ (IF Minuses(l) THEN -x ELSE x) * s = IF Minuses(l) THEN -v ELSE v
      /\ (IF Minuses(r) THEN -y ELSE y) * t = IF Minuses(r) THEN -w ELSE w
  BY <1>2, <1>7
<1>9. D!Order(l, r) = D!Sign((IF Minuses(l) THEN -v ELSE v) - (IF Minuses(r) THEN -w ELSE w))
  BY <1>6, <1>8
<1> QED BY <1>3, <1>9 DEF v, w

\* Two numbers that are not zero, without their signs: how far the first digit is
\* in front of the point comes first, then the digits.
Size(p) == Len(p.digits) - p.scale
Magnitude(p, q) ==
  IF Size(p) # Size(q) THEN D!Sign(Size(p) - Size(q)) ELSE D!CompareDigits(p.digits, q.digits)

LEMMA SignificantCounts ==
  ASSUME NEW l, NEW r, Places(l) \in Nat, Places(r) \in Nat, NEW p, Significant(p, l)
  PROVE  Scaled(l, r) > 0
<1> DEFINE a == p.digits
           f == Places(l)
           g == Places(r)
           c == p.scale
           i == Len(a)
           n == i + (f - c) + g
<1>1. a \in Seq(0 .. 9) /\ a # << >> /\ a[1] # 0 /\ c \in 0 .. f BY DEF Significant
<1>2. f \in Nat /\ g \in Nat OBVIOUS
<1>3. Scaled(l, r) = WorthUpTo(Pad(a))[n] BY DEF Significant, Scaled
<1>4. i \in Nat \ {0} BY <1>1, EmptySeq
<1> HIDE DEF a, f, g, c, i
<1>5. n \in Nat /\ n > 0 BY <1>1, <1>2, <1>4
<1> HIDE DEF n
<1> QED BY <1>1, <1>3, <1>5, FirstDigitCounts

LEMMA MagnitudesCompare ==
  ASSUME NEW l, NEW r, Places(l) \in Nat, Places(r) \in Nat,
         NEW p, NEW q, Significant(p, l), Significant(q, r)
  PROVE  /\ Scaled(l, r) \in Nat /\ Scaled(l, r) > 0
         /\ Scaled(r, l) \in Nat /\ Scaled(r, l) > 0
         /\ D!Sign(Scaled(l, r) - Scaled(r, l)) = Magnitude(p, q)
<1> DEFINE a == p.digits
           b == q.digits
           f == Places(l)
           g == Places(r)
           n == Len(a) + (f - p.scale) + g
           k == Len(b) + (g - q.scale) + f
           v == Scaled(l, r)
           w == Scaled(r, l)
<1>1. /\ a \in Seq(0 .. 9) /\ a # << >> /\ a[1] # 0 /\ b \in Seq(0 .. 9) /\ b # << >> /\ b[1] # 0
      /\ p.scale \in 0 .. f /\ q.scale \in 0 .. g
  BY DEF Significant
<1>2. f \in Nat /\ g \in Nat OBVIOUS
<1>3. v = WorthUpTo(Pad(a))[n] /\ w = WorthUpTo(Pad(b))[k]
  <2>1. v = WorthUpTo(Pad(a))[n] BY <1>2 DEF Significant, Scaled
  <2>2. w = WorthUpTo(Pad(b))[k] BY <1>2 DEF Significant, Scaled
  <2> QED BY <2>1, <2>2
<1>4. Len(a) \in Nat \ {0} /\ Len(b) \in Nat \ {0} BY <1>1, EmptySeq
<1> DEFINE c == p.scale
           d == q.scale
           i == Len(a)
           j == Len(b)
<1>5. c \in 0 .. f /\ d \in 0 .. g /\ i \in Nat \ {0} /\ j \in Nat \ {0} BY <1>1, <1>4
<1>6. n = i + (f - c) + g /\ k = j + (g - d) + f OBVIOUS
<1>7. Size(p) = i - c /\ Size(q) = j - d BY DEF Size
<1>8. Magnitude(p, q) = IF Size(p) # Size(q) THEN D!Sign(Size(p) - Size(q)) ELSE D!CompareDigits(a, b)
  BY DEF Magnitude
<1> HIDE DEF f, g, n, k, v, w, c, d
<1>9. n \in Nat /\ n > 0 /\ k \in Nat /\ k > 0 /\ i <= n /\ j <= k /\ n - k = (i - c) - (j - d)
  BY <1>2, <1>5, <1>6
<1>10. v \in Nat /\ v > 0 /\ w \in Nat /\ w > 0 BY <1>1, <1>3, <1>9, FirstDigitCounts
<1> DEFINE y == Size(p)
           z == Size(q)
<1>12. y \in Int /\ z \in Int /\ n - k = y - z BY <1>1, <1>5, <1>7, <1>9, <1>2
<1> HIDE DEF y, z, i, j
<1>11. D!Sign(v - w) = Magnitude(p, q)
  <2>1. CASE n = k
    <3>1. ~ (y # z) BY <1>9, <1>12, <2>1
    <3>2. D!Sign(WorthUpTo(Pad(a))[n] - WorthUpTo(Pad(b))[n]) = D!CompareDigits(a, b)
      <4>1. Len(a) <= n /\ Len(b) <= n /\ n \in Nat BY <1>9, <2>1 DEF i, j
      <4> HIDE DEF a, b
      <4> QED BY <1>1, <4>1, AsLongComparesDigits
    <3> QED BY <1>3, <1>8, <2>1, <3>1, <3>2 DEF y, z
  <2>2. CASE n < k
    <3>1. v < w BY <1>1, <1>3, <1>9, <2>2, LongerIsGreater
    <3>2. v - w < 0 BY <1>10, <3>1
    <3>3. y - z < 0 /\ y # z BY <1>9, <1>12, <2>2
    <3> QED BY <1>8, <3>2, <3>3 DEF D!Sign, y, z
  <2>3. CASE k < n
    <3>1. w < v BY <1>1, <1>3, <1>9, <2>3, LongerIsGreater
    <3>2. v - w > 0 BY <1>10, <3>1
    <3>3. y - z > 0 /\ y # z BY <1>9, <1>12, <2>3
    <3>4. ~ (v - w < 0) BY <1>10, <3>1
    <3>5. ~ (y - z < 0) BY <1>9, <1>12, <2>3
    <3> QED BY <1>8, <3>2, <3>3, <3>4, <3>5 DEF D!Sign, y, z
  <2> QED BY <1>9, <2>1, <2>2, <2>3
<1> QED BY <1>10, <1>11 DEF v, w

\* Zero has no sign, and nothing in it counts.
LEMMA NothingIsZero ==
  ASSUME NEW l, NEW r, Places(r) \in Nat, NEW p, Nothing(p, l)
  PROVE  Scaled(l, r) = 0 /\ p.sign = 0
BY DEF Nothing, Scaled

LEMMA CmpIsOrder ==
  ASSUME NEW l \in Seq(0 .. 13), D!IsDecimal(l), NEW r \in Seq(0 .. 13), D!IsDecimal(r)
  PROVE  D!Cmp(l, r) = D!Order(l, r)
<1> DEFINE p == D!Parts(l)
           q == D!Parts(r)
           v == Scaled(l, r)
           w == Scaled(r, l)
           o == D!Order(l, r)
<1>1. Places(l) \in Nat /\ Places(r) \in Nat BY DigitsOfIs
<1>2. v \in Nat /\ w \in Nat
  BY OrderIs
<1>3. o = D!Sign((IF Minuses(l) THEN -v ELSE v) - (IF Minuses(r) THEN -w ELSE w))
  BY OrderIs
<1>4. D!Cmp(l, r) = IF p.sign # q.sign THEN D!Sign(p.sign - q.sign)
                    ELSE IF p.sign = 0 THEN 0
                    ELSE p.sign * Magnitude(p, q)
  BY DEF D!Cmp, Magnitude, Size
<1>5. Significant(p, l) \/ Nothing(p, l) BY PartsAre
<1>6. Significant(q, r) \/ Nothing(q, r) BY PartsAre
<1>7. Significant(p, l) => p.sign = IF Minuses(l) THEN -1 ELSE 1 BY DEF Significant
<1>8. Significant(q, r) => q.sign = IF Minuses(r) THEN -1 ELSE 1 BY DEF Significant
<1>9. Nothing(p, l) => v = 0 /\ p.sign = 0 BY <1>1, NothingIsZero
<1>10. Nothing(q, r) => w = 0 /\ q.sign = 0 BY <1>1, NothingIsZero
<1>11. Significant(p, l) => v > 0
  BY <1>1, SignificantCounts
<1>12. Significant(q, r) => w > 0
  BY <1>1, SignificantCounts
<1>13. Significant(p, l) /\ Significant(q, r) => D!Sign(v - w) = Magnitude(p, q)
  BY <1>1, MagnitudesCompare
<1> DEFINE i == p.sign
           j == q.sign
           m == Magnitude(p, q)
<1>14. D!Cmp(l, r) = IF i # j THEN D!Sign(i - j) ELSE IF i = 0 THEN 0 ELSE i * m
  BY <1>4
<1> HIDE DEF v, w, o, i, j, m, p, q
<1>15. CASE Significant(p, l) /\ Significant(q, r)
  <2>1. i = (IF Minuses(l) THEN -1 ELSE 1) /\ j = (IF Minuses(r) THEN -1 ELSE 1)
    BY <1>7, <1>8, <1>15 DEF i, j
  <2>2. v > 0 /\ w > 0 /\ m = D!Sign(v - w) BY <1>11, <1>12, <1>13, <1>15 DEF m
  <2>3. CASE Minuses(l) /\ Minuses(r)
    <3>1. D!Cmp(l, r) = -m BY <1>14, <2>1, <2>2, <2>3 DEF D!Sign
    <3>2. o = D!Sign(w - v) BY <1>2, <1>3, <2>3
    <3> QED BY <1>2, <2>2, <3>1, <3>2 DEF D!Sign, o
  <2>4. CASE ~ Minuses(l) /\ ~ Minuses(r)
    <3>1. D!Cmp(l, r) = m BY <1>14, <2>1, <2>2, <2>4 DEF D!Sign
    <3>2. o = D!Sign(v - w) BY <1>2, <1>3, <2>4
    <3> QED BY <1>2, <2>2, <3>1, <3>2 DEF D!Sign, o
  <2>5. CASE Minuses(l) /\ ~ Minuses(r)
    <3>1. D!Cmp(l, r) = -1 BY <1>14, <2>1, <2>5 DEF D!Sign
    <3>2. o = D!Sign(-v - w) BY <1>2, <1>3, <2>5
    <3> QED BY <1>2, <2>2, <3>1, <3>2 DEF D!Sign, o
  <2>6. CASE ~ Minuses(l) /\ Minuses(r)
    <3>1. D!Cmp(l, r) = 1 BY <1>14, <2>1, <2>6 DEF D!Sign
    <3>2. o = D!Sign(v + w) BY <1>2, <1>3, <2>6
    <3> QED BY <1>2, <2>2, <3>1, <3>2 DEF D!Sign, o
  <2> QED BY <2>3, <2>4, <2>5, <2>6
<1>16. CASE Significant(p, l) /\ Nothing(q, r)
  <2>1. i = (IF Minuses(l) THEN -1 ELSE 1) /\ j = 0 /\ v > 0 /\ w = 0
    BY <1>7, <1>10, <1>11, <1>16 DEF i, j
  <2>2. D!Cmp(l, r) = D!Sign(i) BY <1>14, <2>1
  <2>3. o = D!Sign(IF Minuses(l) THEN -v ELSE v) BY <1>2, <1>3, <2>1
  <2> QED BY <1>2, <2>1, <2>2, <2>3 DEF D!Sign, o
<1>17. CASE Nothing(p, l) /\ Significant(q, r)
  <2>1. j = (IF Minuses(r) THEN -1 ELSE 1) /\ i = 0 /\ w > 0 /\ v = 0
    BY <1>8, <1>9, <1>12, <1>17 DEF i, j
  <2>2. D!Cmp(l, r) = D!Sign(-j) BY <1>14, <2>1
  <2>3. o = D!Sign(IF Minuses(r) THEN w ELSE -w) BY <1>2, <1>3, <2>1
  <2> QED BY <1>2, <2>1, <2>2, <2>3 DEF D!Sign, o
<1>18. CASE Nothing(p, l) /\ Nothing(q, r)
  <2>1. i = 0 /\ j = 0 /\ v = 0 /\ w = 0 BY <1>9, <1>10, <1>18 DEF i, j
  <2>2. D!Cmp(l, r) = 0 BY <1>14, <2>1
  <2>3. o = D!Sign(0) BY <1>3, <2>1
  <2> QED BY <2>2, <2>3 DEF D!Sign, o
<1> QED BY <1>5, <1>6, <1>15, <1>16, <1>17, <1>18

LEMMA Headed ==
  ASSUME NEW K, NEW s \in Seq(K), s # << >>
  PROVE  Head(s) = s[1] /\ 1 \in 1 .. Len(s)
<1>1. Len(s) \in Nat \ {0} BY EmptySeq
<1> QED BY <1>1

\* A row of digits, with or without a minus, and something behind it.
LEMMA UnsignedRow ==
  ASSUME NEW a \in Seq(0 .. 9), a # << >>, NEW c \in Seq(0 .. 13)
  PROVE  /\ a \o c \in Seq(0 .. 13) /\ a \o c # << >>
         /\ Len(a \o c) = Len(a) + Len(c)
         /\ \A i \in 1 .. Len(a) : (a \o c)[i] = a[i]
         /\ \A i \in 1 .. Len(c) : (a \o c)[Len(a) + i] = c[i]
         /\ Head(a \o c) = a[1] /\ D!Unsigned(a \o c) = a \o c
<1> DEFINE s == a \o c
<1>1. Len(a) \in Nat \ {0} /\ Len(c) \in Nat BY EmptySeq
<1>2. a \in Seq(0 .. 13) OBVIOUS
<1>3. /\ s \in Seq(0 .. 13) /\ Len(s) = Len(a) + Len(c)
      /\ \A i \in 1 .. Len(a) : s[i] = a[i]
      /\ \A i \in 1 .. Len(c) : s[Len(a) + i] = c[i]
  BY <1>1, <1>2, ConcatProperties
<1>4. 1 \in 1 .. Len(a) /\ a[1] \in 0 .. 9 /\ s # << >> BY <1>1, <1>3
<1> HIDE DEF s
<1>5. Head(s) = a[1] BY <1>3, <1>4, Headed
<1>6. D!Unsigned(s) = s
  <2>1. Head(s) \notin {D!Plus, D!Minus} BY <1>4, <1>5 DEF D!Plus, D!Minus
  <2> QED BY <2>1 DEF D!Unsigned
<1> QED BY <1>3, <1>4, <1>5, <1>6 DEF s

LEMMA SignedRow ==
  ASSUME NEW s \in Seq(0 .. 13)
  PROVE  /\ << D!Minus >> \o s \in Seq(0 .. 13)
         /\ << D!Minus >> \o s # << >> /\ Head(<< D!Minus >> \o s) = D!Minus
         /\ Tail(<< D!Minus >> \o s) = s
         /\ D!Unsigned(<< D!Minus >> \o s) = s
<1> DEFINE t == << D!Minus >> \o s
<1>1. << D!Minus >> \in Seq(0 .. 13) /\ Len(<< D!Minus >>) = 1 BY DEF D!Minus
<1>2. t \in Seq(0 .. 13) /\ Len(t) = 1 + Len(s) /\ t[1] = D!Minus
      /\ \A i \in 1 .. Len(s) : t[1 + i] = s[i]
  BY <1>1, ConcatProperties
<1>3. t # << >> BY <1>2
<1> HIDE DEF t
<1>4. Head(t) = D!Minus BY <1>2, <1>3, Headed
<1>5. Tail(t) = s
  <2>1. Tail(t) \in Seq(0 .. 13) /\ Len(Tail(t)) = Len(s) /\ \A i \in 1 .. Len(s) : Tail(t)[i] = s[i]
    <3>1. /\ Tail(t) \in Seq(0 .. 13) /\ Len(Tail(t)) = Len(t) - 1
          /\ \A i \in 1 .. Len(Tail(t)) : Tail(t)[i] = t[i + 1]
      BY <1>2, <1>3, HeadTailProperties
    <3>2. Len(s) \in Nat OBVIOUS
    <3>3. \A i \in 1 .. Len(s) : t[i + 1] = s[i] BY <1>2, <3>2
    <3> QED BY <1>2, <3>1, <3>2, <3>3
  <2> QED BY <2>1, SeqEqual
<1>6. D!Unsigned(t) = s BY <1>3, <1>4, <1>5 DEF D!Unsigned
<1> QED BY <1>2, <1>3, <1>4, <1>5, <1>6 DEF t

\* Where the point is.
LEMMA PlainBody ==
  ASSUME NEW a \in Seq(0 .. 9)
  PROVE  D!Dots(a) = {} /\ D!Whole(a) = a /\ D!Fraction(a) = << >>
<1>1. D!Dots(a) = {} BY DEF D!Dots, D!Dot
<1>2. D!Point(a) = Len(a) + 1 BY <1>1 DEF D!Point
<1>3. D!Whole(a) = SubSeq(a, 1, Len(a)) /\ D!Fraction(a) = SubSeq(a, Len(a) + 2, Len(a))
  BY <1>2 DEF D!Whole, D!Fraction
<1> QED BY <1>1, <1>3, SubSeqFull, SubSeqEmpty

Pointed(a, f) == a \o (<< D!Dot >> \o f)

LEMMA PointedBody ==
  ASSUME NEW a \in Seq(0 .. 9), a # << >>, NEW f \in Seq(0 .. 9)
  PROVE  /\ << D!Dot >> \o f \in Seq(0 .. 13)
         /\ D!Dots(Pointed(a, f)) = {Len(a) + 1}
         /\ D!Whole(Pointed(a, f)) = a /\ D!Fraction(Pointed(a, f)) = f
         /\ \A i \in 1 .. Len(Pointed(a, f)) : Pointed(a, f)[i] \in D!Digit \cup {D!Dot}
<1> DEFINE c == << D!Dot >> \o f
           s == Pointed(a, f)
           n == Len(a)
<1>1. << D!Dot >> \in Seq(0 .. 13) /\ Len(<< D!Dot >>) = 1 /\ f \in Seq(0 .. 13) BY DEF D!Dot
<1>2. c \in Seq(0 .. 13) /\ Len(c) = 1 + Len(f) /\ c[1] = D!Dot
      /\ \A i \in 1 .. Len(f) : c[1 + i] = f[i]
  BY <1>1, ConcatProperties
<1> HIDE DEF c
<1>3. /\ s \in Seq(0 .. 13) /\ Len(s) = n + Len(c)
      /\ \A i \in 1 .. n : s[i] = a[i]
      /\ \A i \in 1 .. Len(c) : s[n + i] = c[i]
  BY <1>2, UnsignedRow DEF Pointed, c
<1>4. n \in Nat /\ Len(f) \in Nat OBVIOUS
<1> HIDE DEF s
<1>5. Len(s) = n + 1 + Len(f) BY <1>2, <1>3, <1>4
<1>6. s[n + 1] = D!Dot BY <1>2, <1>3, <1>4
<1>7. \A i \in 1 .. Len(f) : s[n + 1 + i] = f[i]
  <2> TAKE i \in 1 .. Len(f)
  <2>1. 1 + i \in 1 .. Len(c) /\ n + 1 + i = n + (1 + i) BY <1>2, <1>4
  <2> QED BY <1>2, <1>3, <2>1
<1>8. \A i \in 1 .. n : s[i] \in 0 .. 9 BY <1>3
<1>9. \A i \in 1 .. Len(f) : s[n + 1 + i] \in 0 .. 9 BY <1>7
<1>10. \A i \in 1 .. Len(s) : i # n + 1 => s[i] \in 0 .. 9
  <2> TAKE i \in 1 .. Len(s)
  <2>1. CASE i > n + 1
    <3> DEFINE j == i - (n + 1)
    <3>1. j \in 1 .. Len(f) /\ i = n + 1 + j BY <1>4, <1>5, <2>1
    <3> HIDE DEF j
    <3>2. s[n + 1 + j] \in 0 .. 9 BY <1>9, <3>1
    <3> QED BY <3>1, <3>2
  <2>2. CASE i < n + 1
    <3>1. i \in 1 .. n BY <1>4, <1>5, <2>2
    <3> QED BY <1>8, <3>1
  <2> QED BY <1>4, <2>1, <2>2
<1>11. D!Dots(s) = {n + 1}
  <2>1. \A i \in 1 .. Len(s) : s[i] = D!Dot <=> i = n + 1 BY <1>6, <1>10 DEF D!Dot
  <2>2. n + 1 \in 1 .. Len(s) BY <1>4, <1>5
  <2> QED BY <2>1, <2>2 DEF D!Dots
<1>12. D!Point(s) = n + 1
  <2>1. D!Max({n + 1}) = n + 1 BY <1>4 DEF D!Max
  <2> QED BY <1>11, <2>1 DEF D!Point
<1>13. D!Whole(s) = SubSeq(s, 1, n) /\ D!Fraction(s) = SubSeq(s, n + 2, Len(s))
  <2>1. (n + 1) - 1 = n /\ (n + 1) + 1 = n + 2 BY <1>4
  <2> QED BY <1>12, <2>1 DEF D!Whole, D!Fraction
<1>14. SubSeq(s, 1, n) = a
  <2>1. /\ SubSeq(s, 1, n) \in Seq(0 .. 13) /\ Len(SubSeq(s, 1, n)) = n
        /\ \A i \in 1 .. n : SubSeq(s, 1, n)[i] = s[i]
    BY <1>3, <1>4, <1>5
  <2>2. a \in Seq(0 .. 13) OBVIOUS
  <2> QED BY <1>3, <2>1, <2>2, SeqEqual
<1>15. SubSeq(s, n + 2, Len(s)) = f
  <2>1. n + 2 \in 1 .. Len(s) + 1 BY <1>4, <1>5
  <2> DEFINE r == SubSeq(s, n + 2, Len(s))
  <2>2. r \in Seq(0 .. 13) /\ Len(r) = Len(f) /\ \A i \in 1 .. Len(f) : r[i] = s[n + 1 + i]
    BY <1>3, <1>4, <1>5, <2>1, SMTT(30)
  <2>3. f \in Seq(0 .. 13) OBVIOUS
  <2> HIDE DEF r
  <2>4. r = f BY <1>7, <2>2, <2>3, SeqEqual
  <2> QED BY <2>4 DEF r
<1>16. \A i \in 1 .. Len(s) : s[i] \in D!Digit \cup {D!Dot} BY <1>6, <1>10 DEF D!Digit
<1> QED BY <1>2, <1>11, <1>13, <1>14, <1>15, <1>16 DEF s, c

(***************************************************************************)
(* What json_literal writes.                                               *)
(***************************************************************************)
OneZero == << 0 >>
OrOneZero(s) == IF s = << >> THEN OneZero ELSE s

\* The digits it keeps in front of the point, and behind it.
Ahead(lit) == OrOneZero(D!NoLeadingZeros(D!Whole(D!Unsigned(lit))))
After(lit) == IF D!Dots(D!Unsigned(lit)) = {} THEN << >>
              ELSE OrOneZero(D!Fraction(D!Unsigned(lit)))
Body(lit)  == IF D!Dots(D!Unsigned(lit)) = {} THEN Ahead(lit) ELSE Pointed(Ahead(lit), After(lit))
Negative(lit) == Minuses(lit) /\ D!Parts(lit).sign # 0

LEMMA HalvesOf ==
  ASSUME NEW lit \in Seq(0 .. 13), D!IsDecimal(lit)
  PROVE  /\ D!Whole(D!Unsigned(lit)) \in Seq(0 .. 9) /\ D!Fraction(D!Unsigned(lit)) \in Seq(0 .. 9)
         /\ D!Dots(D!Unsigned(lit)) = {} => D!Fraction(D!Unsigned(lit)) = << >>
<1> DEFINE u == D!Unsigned(lit)
<1>1. u \in Seq(0 .. 13) BY UnsignedIs
<1>2. Cardinality(D!Dots(u)) <= 1 /\ \A i \in 1 .. Len(u) : u[i] \in D!Digit \cup {D!Dot}
  BY SameCardinality DEF D!IsDecimal
<1> HIDE DEF u
<1>3. D!Whole(u) \in Seq(0 .. 9) /\ D!Fraction(u) \in Seq(0 .. 9) BY <1>1, <1>2, HalvesAreDigits
<1>4. ASSUME D!Dots(u) = {} PROVE D!Fraction(u) = << >>
  <2>1. D!Fraction(u) = SubSeq(u, Len(u) + 2, Len(u)) BY <1>1, <1>4 DEF D!Fraction, D!Point
  <2>2. Len(u) \in Nat BY <1>1
  <2> QED BY <2>1, <2>2, SubSeqEmpty
<1> QED BY <1>3, <1>4 DEF u

LEMMA FrontAndBack ==
  ASSUME NEW lit \in Seq(0 .. 13), D!IsDecimal(lit)
  PROVE  /\ Ahead(lit) \in Seq(0 .. 9) /\ Ahead(lit) # << >> /\ After(lit) \in Seq(0 .. 9)
         /\ Ahead(lit)[1] = 0 => Len(Ahead(lit)) = 1
         /\ D!Dots(D!Unsigned(lit)) # {} => After(lit) # << >>
<1>1. D!Whole(D!Unsigned(lit)) \in Seq(0 .. 9) /\ D!Fraction(D!Unsigned(lit)) \in Seq(0 .. 9)
  BY HalvesOf
<1> DEFINE s == D!NoLeadingZeros(D!Whole(D!Unsigned(lit)))
           f == D!Fraction(D!Unsigned(lit))
<1>2. s \in Seq(0 .. 9) /\ (s # << >> => s[1] # 0) BY <1>1, NoLeadingZerosIs
<1>3. Ahead(lit) = OrOneZero(s) /\ After(lit) \in {<< >>, OrOneZero(f)}
  BY DEF Ahead, After
<1>4. OneZero \in Seq(0 .. 9) /\ OneZero # << >> /\ Len(OneZero) = 1 /\ OneZero[1] = 0
  BY DEF OneZero
<1>5. f \in Seq(0 .. 9) BY <1>1
<1> HIDE DEF s, f
<1>6. OrOneZero(f) # << >> /\ OrOneZero(f) \in Seq(0 .. 9) BY <1>4, <1>5 DEF OrOneZero
<1>7. D!Dots(D!Unsigned(lit)) # {} => After(lit) = OrOneZero(f) BY DEF After, f
<1>8. /\ OrOneZero(s) \in Seq(0 .. 9) /\ OrOneZero(s) # << >>
      /\ OrOneZero(s)[1] = 0 => Len(OrOneZero(s)) = 1
  <2>1. CASE s = << >>
    <3>1. OrOneZero(s) = OneZero BY <2>1 DEF OrOneZero
    <3> QED BY <1>4, <3>1
  <2>2. CASE s # << >>
    <3>1. OrOneZero(s) = s BY <2>2 DEF OrOneZero
    <3> QED BY <1>2, <2>2, <3>1
  <2> QED BY <2>1, <2>2
<1>12. << >> \in Seq(0 .. 9) OBVIOUS
<1>9. After(lit) \in Seq(0 .. 9) BY <1>3, <1>6, <1>12
<1>10. /\ Ahead(lit) \in Seq(0 .. 9) /\ Ahead(lit) # << >>
       /\ Ahead(lit)[1] = 0 => Len(Ahead(lit)) = 1
  BY <1>3, <1>8
<1>11. D!Dots(D!Unsigned(lit)) # {} => After(lit) # << >> BY <1>6, <1>7
<1> QED BY <1>9, <1>10, <1>11

LEMMA BodyIs ==
  ASSUME NEW lit \in Seq(0 .. 13), D!IsDecimal(lit)
  PROVE  /\ Body(lit) \in Seq(0 .. 13) /\ Body(lit) # << >>
         /\ Head(Body(lit)) = Ahead(lit)[1] /\ D!Unsigned(Body(lit)) = Body(lit)
         /\ D!Whole(Body(lit)) = Ahead(lit) /\ D!Fraction(Body(lit)) = After(lit)
         /\ \A i \in 1 .. Len(Body(lit)) : Body(lit)[i] \in D!Digit \cup {D!Dot}
         /\ \E i \in 1 .. Len(Body(lit)) : Body(lit)[i] \in D!Digit
         /\ \E n \in Nat : D!Dots(Body(lit)) \subseteq {n}
         /\ D!Dots(Body(lit)) # {} => D!Dots(D!Unsigned(lit)) # {}
<1> DEFINE a == Ahead(lit)
           f == After(lit)
           s == Body(lit)
<1>1. a \in Seq(0 .. 9) /\ a # << >> /\ f \in Seq(0 .. 9) BY FrontAndBack
<1>2. s = IF D!Dots(D!Unsigned(lit)) = {} THEN a ELSE Pointed(a, f) BY DEF Body
<1>3. D!Dots(D!Unsigned(lit)) = {} => f = << >> BY DEF After
<1>4. Len(a) \in Nat \ {0} /\ 1 \in 1 .. Len(a) /\ a[1] \in 0 .. 9
  <2>1. Len(a) \in Nat \ {0} BY <1>1, EmptySeq
  <2> QED BY <1>1, <2>1
<1> HIDE DEF a, f, s
<1>5. CASE D!Dots(D!Unsigned(lit)) = {}
  <2>1. s = a BY <1>2, <1>5
  <2>2. D!Dots(s) = {} /\ D!Whole(s) = a /\ D!Fraction(s) = << >> BY <1>1, <2>1, PlainBody
  <2>3. s \in Seq(0 .. 13) /\ \A i \in 1 .. Len(s) : s[i] \in D!Digit BY <1>1, <2>1 DEF D!Digit
  <2>4. Head(s) = a[1] BY <1>1, <2>1, Headed
  <2>5. D!Unsigned(s) = s
    <3>1. Head(s) \notin {D!Plus, D!Minus} BY <1>4, <2>4 DEF D!Plus, D!Minus
    <3> QED BY <3>1 DEF D!Unsigned
  <2>6. \E i \in 1 .. Len(s) : s[i] \in D!Digit BY <1>4, <2>1, <2>3
  <2>7. D!Dots(s) \subseteq {0} /\ 0 \in Nat BY <2>2
  <2> QED BY <1>1, <1>3, <1>5, <2>1, <2>2, <2>3, <2>4, <2>5, <2>6, <2>7 DEF a, f, s
<1>6. CASE D!Dots(D!Unsigned(lit)) # {}
  <2>1. s = Pointed(a, f) BY <1>2, <1>6
  <2>2. /\ D!Dots(s) = {Len(a) + 1} /\ D!Whole(s) = a /\ D!Fraction(s) = f
        /\ \A i \in 1 .. Len(s) : s[i] \in D!Digit \cup {D!Dot}
        /\ << D!Dot >> \o f \in Seq(0 .. 13)
    BY <1>1, <2>1, PointedBody
  <2>3. /\ s \in Seq(0 .. 13) /\ s # << >> /\ Head(s) = a[1] /\ D!Unsigned(s) = s
        /\ \A i \in 1 .. Len(a) : s[i] = a[i]
        /\ Len(s) = Len(a) + Len(<< D!Dot >> \o f)
    BY <1>1, <2>1, <2>2, UnsignedRow DEF Pointed
  <2>4. 1 \in 1 .. Len(s) /\ s[1] \in D!Digit
    <3>1. Len(<< D!Dot >> \o f) \in Nat BY <2>2
    <3> QED BY <1>4, <2>3, <3>1 DEF D!Digit
  <2>5. Len(a) + 1 \in Nat BY <1>4
  <2> QED BY <1>6, <2>2, <2>3, <2>4, <2>5 DEF a, f, s
<1> QED BY <1>5, <1>6

\* Nothing, or a minus, before the body.
Signed(lit) == IF Negative(lit) THEN << D!Minus >> \o Body(lit) ELSE Body(lit)

LEMMA JsonIsSigned ==
  ASSUME NEW lit \in Seq(0 .. 13), D!IsDecimal(lit)
  PROVE  D!JsonLiteral(lit) = Signed(lit)
<1> DEFINE a == Ahead(lit)
           f == After(lit)
           u == D!Unsigned(lit)
           c == IF D!Dots(u) = {} THEN << >> ELSE << D!Dot >> \o f
           m == IF Negative(lit) THEN << D!Minus >> ELSE << >>
<1>1. a \in Seq(0 .. 9) /\ a # << >> /\ f \in Seq(0 .. 9) BY FrontAndBack
<1>2. D!JsonLiteral(lit) = (m \o a) \o c
  <2>1. m = IF Head(lit) = D!Minus /\ D!Parts(lit).sign # 0 THEN << D!Minus >> ELSE << >>
    BY DEF Negative, Minuses
  <2>2. a = IF D!NoLeadingZeros(D!Whole(u)) = << >> THEN << 0 >> ELSE D!NoLeadingZeros(D!Whole(u))
    BY DEF Ahead, OrOneZero, OneZero
  <2>3. c = IF D!Dots(u) = {} THEN << >>
            ELSE << D!Dot >> \o (IF D!Fraction(u) = << >> THEN << 0 >> ELSE D!Fraction(u))
    BY DEF After, OrOneZero, OneZero
  <2> HIDE DEF m, a, c
  <2> QED BY <2>1, <2>2, <2>3 DEF D!JsonLiteral
<1>3. a \in Seq(0 .. 13) /\ m \in Seq(0 .. 13) /\ c \in Seq(0 .. 13)
  <2>1. << D!Dot >> \o f \in Seq(0 .. 13) BY <1>1, PointedBody
  <2>2. << D!Minus >> \in Seq(0 .. 13) /\ << >> \in Seq(0 .. 13) BY DEF D!Minus
  <2>3. a \in Seq(0 .. 13) BY <1>1
  <2> HIDE DEF a, f
  <2> QED BY <2>1, <2>2, <2>3
<1>4. Body(lit) = a \o c
  <2>1. CASE D!Dots(u) = {}
    <3>1. a \o << >> = a BY <1>3, ConcatEmptySeq
    <3> QED BY <2>1, <3>1 DEF Body
  <2>2. CASE D!Dots(u) # {} BY <2>2 DEF Body, Pointed
  <2> QED BY <2>1, <2>2
<1> HIDE DEF a, c, f, u
<1>5. (m \o a) \o c = m \o (a \o c)
  <2> HIDE DEF m
  <2> QED BY <1>3, ConcatAssociative
<1>6. m \o (a \o c) = Signed(lit)
  <2>1. CASE Negative(lit) BY <1>4, <2>1 DEF Signed
  <2>2. CASE ~ Negative(lit)
    <3>1. a \o c \in Seq(0 .. 13) BY <1>3
    <3>2. << >> \o (a \o c) = a \o c BY <3>1, ConcatEmptySeq
    <3> QED BY <1>4, <2>2, <3>2 DEF Signed
  <2> QED BY <2>1, <2>2
<1> QED BY <1>2, <1>5, <1>6

LEMMA SignedIs ==
  ASSUME NEW lit \in Seq(0 .. 13), D!IsDecimal(lit)
  PROVE  /\ Signed(lit) \in Seq(0 .. 13) /\ Signed(lit) # << >>
         /\ Head(Signed(lit)) # D!Plus
         /\ D!Unsigned(Signed(lit)) = Body(lit)
         /\ (IF Head(Signed(lit)) = D!Minus THEN Tail(Signed(lit)) ELSE Signed(lit)) = Body(lit)
         /\ Minuses(Signed(lit)) <=> Negative(lit)
         /\ D!IsDecimal(Signed(lit))
<1> DEFINE s == Body(lit)
           j == Signed(lit)
<1>1. /\ s \in Seq(0 .. 13) /\ s # << >>
      /\ Head(s) = Ahead(lit)[1] /\ D!Unsigned(s) = s
      /\ \A i \in 1 .. Len(s) : s[i] \in D!Digit \cup {D!Dot}
      /\ \E i \in 1 .. Len(s) : s[i] \in D!Digit
      /\ \E n \in Nat : D!Dots(s) \subseteq {n}
  BY BodyIs
<1>2. Head(s) \in 0 .. 9
  <2>1. Ahead(lit) \in Seq(0 .. 9) /\ Ahead(lit) # << >> BY FrontAndBack
  <2>2. 1 \in 1 .. Len(Ahead(lit)) BY <2>1, Headed
  <2> QED BY <1>1, <2>1, <2>2
<1> HIDE DEF s
<1>5. /\ j \in Seq(0 .. 13) /\ j # << >> /\ Head(j) # D!Plus /\ D!Unsigned(j) = s
      /\ (IF Head(j) = D!Minus THEN Tail(j) ELSE j) = s
      /\ Minuses(j) <=> Negative(lit)
  <2>1. CASE Negative(lit)
    <3>1. j = << D!Minus >> \o s BY <2>1 DEF Signed, s
    <3>2. /\ j \in Seq(0 .. 13) /\ j # << >> /\ Head(j) = D!Minus /\ Tail(j) = s /\ D!Unsigned(j) = s
      BY <1>1, <3>1, SignedRow
    <3>3. D!Minus # D!Plus BY DEF D!Minus, D!Plus
    <3> QED BY <2>1, <3>2, <3>3 DEF Minuses
  <2>2. CASE ~ Negative(lit)
    <3>1. j = s BY <2>2 DEF Signed, s
    <3>2. Head(j) # D!Minus /\ Head(j) # D!Plus BY <1>2, <3>1 DEF D!Minus, D!Plus
    <3> QED BY <1>1, <2>2, <3>1, <3>2 DEF Minuses
  <2> QED BY <2>1, <2>2
<1> HIDE DEF j
<1>6. Cardinality(D!Dots(s)) <= 1
  <2>1. PICK n \in Nat : D!Dots(s) \subseteq {n} BY <1>1
  <2> DEFINE d == D!Dots(s)
  <2>2. d = {} \/ d = {n} BY <2>1
  <2>3. Cardinality({}) = 0 /\ Cardinality({n}) = 1 BY FS_EmptySet, FS_Singleton
  <2> HIDE DEF d
  <2>4. CASE d = {}
    <3>1. Cardinality(d) = 0 BY <2>3, <2>4
    <3> QED BY <3>1 DEF d
  <2>5. CASE d = {n}
    <3>1. Cardinality(d) = 1 BY <2>3, <2>5
    <3> QED BY <3>1 DEF d
  <2> QED BY <2>2, <2>4, <2>5
<1>7. D!IsDecimal(j) BY <1>1, <1>5, <1>6, SameCardinality DEF D!IsDecimal
<1> QED BY <1>5, <1>7 DEF j, s

LEMMA JsonIsNumber ==
  ASSUME NEW lit \in Seq(0 .. 13), D!IsDecimal(lit)
  PROVE  D!IsJsonNumber(Signed(lit))
<1> DEFINE s == Body(lit)
           j == Signed(lit)
           u == IF j # << >> /\ Head(j) = D!Minus THEN Tail(j) ELSE j
<1>1. u = s BY SignedIs
<1>2. D!IsDecimal(j) /\ Head(j) # D!Plus BY SignedIs
<1>3. D!Whole(s) = Ahead(lit) /\ D!Fraction(s) = After(lit) /\ Head(s) = Ahead(lit)[1]
      /\ (D!Dots(s) # {} => D!Dots(D!Unsigned(lit)) # {})
  BY BodyIs
<1>4. /\ Ahead(lit) # << >> /\ (Ahead(lit)[1] = 0 => Len(Ahead(lit)) = 1)
      /\ (D!Dots(D!Unsigned(lit)) # {} => After(lit) # << >>)
  BY FrontAndBack
<1> HIDE DEF s
<1>5. D!Whole(u) # << >> /\ (Head(u) = 0 => Len(D!Whole(u)) = 1)
  BY <1>1, <1>3, <1>4
<1>6. D!Dots(u) # {} => D!Fraction(u) # << >> BY <1>1, <1>3, <1>4
<1> QED BY <1>2, <1>5, <1>6 DEF D!IsJsonNumber

\* One row behind zeros, in front of zeros, is the other: the number is the same.
ZerosThen(p, m, q) ==
  /\ \A i \in 1 .. m : p[i] = 0
  /\ \A i \in Nat : i > 0 => p[m + i] = q[i]

LEMMA SameBehindZeros ==
  ASSUME NEW a \in Seq(0 .. 9), NEW b \in Seq(0 .. 9), NEW m \in Nat, NEW k \in Nat,
         ZerosThen(Pad(a), m, Pad(b))
  PROVE  WorthUpTo(Pad(a))[m + k] = WorthUpTo(Pad(b))[k]
<1>1. Pad(a) \in Digits /\ Pad(b) \in Digits BY PadIs
<1> QED BY <1>1, ZerosInFront DEF ZerosThen

\* Two rows put together, digit by digit.
LEMMA PadOfTwo ==
  ASSUME NEW a \in Seq(0 .. 9), NEW b \in Seq(0 .. 9)
  PROVE  /\ \A i \in 1 .. Len(a) : Pad(a \o b)[i] = a[i]
         /\ \A i \in Nat : i > 0 => Pad(a \o b)[Len(a) + i] = Pad(b)[i]
         /\ a \o b \in Seq(0 .. 9) /\ Len(a \o b) = Len(a) + Len(b)
<1> DEFINE s == a \o b
<1>1. /\ s \in Seq(0 .. 9) /\ Len(s) = Len(a) + Len(b)
      /\ \A i \in 1 .. Len(a) : s[i] = a[i]
      /\ \A i \in 1 .. Len(b) : s[Len(a) + i] = b[i]
      /\ Len(a) \in Nat /\ Len(b) \in Nat
  BY ConcatProperties
<1> HIDE DEF s
<1>2. \A i \in 1 .. Len(a) : Pad(s)[i] = a[i]
  <2> TAKE i \in 1 .. Len(a)
  <2>1. i \in 1 .. Len(s) BY <1>1
  <2> QED BY <1>1, <2>1, PadIs
<1>3. ASSUME NEW i \in Nat, i > 0 PROVE Pad(s)[Len(a) + i] = Pad(b)[i]
  <2>1. CASE i <= Len(b)
    <3>1. i \in 1 .. Len(b) /\ Len(a) + i \in 1 .. Len(s) BY <1>1, <1>3, <2>1
    <3>2. Pad(s)[Len(a) + i] = s[Len(a) + i] BY <1>1, <3>1, PadIs
    <3>3. Pad(b)[i] = b[i] BY <3>1, PadIs
    <3> QED BY <1>1, <3>1, <3>2, <3>3
  <2>2. CASE i > Len(b)
    <3>1. Len(a) + i \in Nat /\ Len(a) + i > Len(s) BY <1>1, <2>2
    <3>2. Pad(s)[Len(a) + i] = 0 BY <1>1, <3>1, PadIs
    <3>3. Pad(b)[i] = 0 BY <2>2, PadIs
    <3> QED BY <3>2, <3>3
  <2> QED BY <1>1, <2>1, <2>2
<1> QED BY <1>1, <1>2, <1>3 DEF s

\* A row that is another with m zeros in front; a row that has the same digits as
\* another, however far they go on.
Leads(a, m, c) ==
  /\ Len(a) = m + Len(c)
  /\ \A i \in 1 .. m : a[i] = 0
  /\ \A i \in 1 .. Len(c) : a[m + i] = c[i]
Trails(b, d) == \A i \in Nat : i > 0 => Pad(b)[i] = Pad(d)[i]

LEMMA RowsAlike ==
  ASSUME NEW a \in Seq(0 .. 9), NEW b \in Seq(0 .. 9), NEW c \in Seq(0 .. 9), NEW d \in Seq(0 .. 9),
         NEW m \in Nat, Leads(a, m, c), Trails(b, d), NEW k \in Nat
  PROVE  WorthUpTo(Pad(a \o b))[m + k] = WorthUpTo(Pad(c \o d))[k]
<1> DEFINE s == a \o b
           t == c \o d
<1>1. /\ s \in Seq(0 .. 9)
      /\ \A i \in 1 .. Len(a) : Pad(s)[i] = a[i]
      /\ \A i \in Nat : i > 0 => Pad(s)[Len(a) + i] = Pad(b)[i]
  BY PadOfTwo
<1>2. /\ t \in Seq(0 .. 9)
      /\ \A i \in 1 .. Len(c) : Pad(t)[i] = c[i]
      /\ \A i \in Nat : i > 0 => Pad(t)[Len(c) + i] = Pad(d)[i]
  BY PadOfTwo
<1>3. Len(a) \in Nat /\ Len(c) \in Nat /\ Len(a) = m + Len(c) BY DEF Leads
<1> HIDE DEF s, t
<1>4. \A i \in 1 .. m : Pad(s)[i] = 0
  <2> TAKE i \in 1 .. m
  <2>1. i \in 1 .. Len(a) BY <1>3
  <2> QED BY <1>1, <2>1 DEF Leads
<1>5. ASSUME NEW i \in Nat, i > 0 PROVE Pad(s)[m + i] = Pad(t)[i]
  <2>1. CASE i <= Len(c)
    <3>1. i \in 1 .. Len(c) /\ m + i \in 1 .. Len(a) BY <1>3, <1>5, <2>1
    <3>2. Pad(s)[m + i] = a[m + i] BY <1>1, <3>1
    <3> QED BY <1>2, <3>1, <3>2 DEF Leads
  <2>2. CASE i > Len(c)
    <3> DEFINE j == i - Len(c)
    <3>1. j \in Nat /\ j > 0 /\ m + i = Len(a) + j /\ i = Len(c) + j BY <1>3, <2>2
    <3> HIDE DEF j
    <3>2. Pad(s)[Len(a) + j] = Pad(b)[j] BY <1>1, <3>1
    <3>3. Pad(t)[Len(c) + j] = Pad(d)[j] BY <1>2, <3>1
    <3>4. Pad(b)[j] = Pad(d)[j] BY <3>1 DEF Trails
    <3> QED BY <3>1, <3>2, <3>3, <3>4
  <2> QED BY <1>3, <2>1, <2>2
<1>6. ZerosThen(Pad(s), m, Pad(t)) BY <1>4, <1>5 DEF ZerosThen
<1>7. WorthUpTo(Pad(s))[m + k] = WorthUpTo(Pad(t))[k] BY <1>1, <1>2, <1>6, SameBehindZeros
<1> QED BY <1>7 DEF s, t

LEMMA NoughtAlike ==
  ASSUME NEW s \in Seq(0 .. 9)
  PROVE  Trails(OrOneZero(s), s)
BY DEF Trails, Pad, OrOneZero, OneZero

\* A zero behind the point, or one in front of it, is worth nothing.
LEMMA SameScaled ==
  ASSUME NEW lit \in Seq(0 .. 13), D!IsDecimal(lit)
  PROVE  Scaled(Signed(lit), lit) = Scaled(lit, Signed(lit))
<1> DEFINE u == D!Unsigned(lit)
           a == D!Whole(u)
           f == D!Fraction(u)
           s == D!NoLeadingZeros(a)
           x == Ahead(lit)
           y == After(lit)
           m == Len(a) - Len(s)
           z == Len(x) - Len(s)
           k == Len(s) + Len(f) + Len(y)
<1>1. a \in Seq(0 .. 9) /\ f \in Seq(0 .. 9) /\ (D!Dots(u) = {} => f = << >>) BY HalvesOf
<1>2. x = OrOneZero(s) /\ (D!Dots(u) # {} => y = OrOneZero(f)) /\ (D!Dots(u) = {} => y = << >>)
  BY DEF Ahead, After
<1>3. x \in Seq(0 .. 9) /\ x # << >> /\ y \in Seq(0 .. 9) BY FrontAndBack
<1>4. DigitsOf(Signed(lit)) = x \o y /\ Places(Signed(lit)) = Len(y)
  BY SignedIs, BodyIs DEF DigitsOf, Places
<1>5. DigitsOf(lit) = a \o f /\ Places(lit) = Len(f) BY DEF DigitsOf, Places
<1> HIDE DEF a, f, u, x, y
<1>6. /\ s \in Seq(0 .. 9) /\ Len(s) <= Len(a)
      /\ \A i \in 1 .. m : a[i] = 0
      /\ \A i \in 1 .. Len(s) : s[i] = a[m + i]
  BY <1>1, NoLeadingZerosIs
<1> HIDE DEF s
<1>7. Len(s) \in Nat /\ Len(a) \in Nat /\ Len(f) \in Nat /\ Len(y) \in Nat BY <1>1, <1>3, <1>6
<1>8. m \in Nat /\ Len(a) = m + Len(s) BY <1>6, <1>7
<1>9. z \in Nat /\ Leads(x, z, s)
  <2>1. CASE s = << >>
    <3>1. Len(s) = 0 BY <2>1
    <3>2. x = << 0 >> /\ Len(<< 0 >>) = 1 /\ << 0 >>[1] = 0 BY <1>2, <2>1 DEF OrOneZero, OneZero
    <3>3. z = 1 /\ x[1] = 0 BY <3>1, <3>2
    <3> HIDE DEF z
    <3> QED BY <3>1, <3>2, <3>3 DEF Leads
  <2>2. CASE s # << >>
    <3>1. x = s /\ z = 0 BY <1>2, <1>7, <2>2 DEF OrOneZero
    <3> HIDE DEF z
    <3> QED BY <1>7, <3>1 DEF Leads
  <2> QED BY <2>1, <2>2
<1>10. Trails(y, f)
  <2>1. CASE D!Dots(u) = {} BY <1>1, <1>2, <2>1 DEF Trails
  <2>2. CASE D!Dots(u) # {} BY <1>1, <1>2, <2>2, NoughtAlike
  <2> QED BY <2>1, <2>2
<1> HIDE DEF m, z
<1>11. k \in Nat BY <1>7
<1>12. Len(a \o f) = Len(a) + Len(f) /\ Len(x \o y) = Len(x) + Len(y)
  BY <1>1, <1>3, ConcatProperties
<1>13. Len(a \o f) + Len(y) = m + k /\ Len(x \o y) + Len(f) = z + k
  BY <1>7, <1>8, <1>9, <1>12 DEF Leads
<1> HIDE DEF k
<1>14. WorthUpTo(Pad(a \o f))[m + k] = WorthUpTo(Pad(s \o f))[k]
  <2>1. Trails(f, f) BY DEF Trails
  <2>2. Leads(a, m, s) BY <1>6, <1>8 DEF Leads, m
  <2> QED BY <1>1, <1>6, <1>8, <1>11, <2>1, <2>2, RowsAlike
<1>15. WorthUpTo(Pad(x \o y))[z + k] = WorthUpTo(Pad(s \o f))[k]
  BY <1>1, <1>3, <1>6, <1>9, <1>10, <1>11, RowsAlike
<1> QED BY <1>4, <1>5, <1>13, <1>14, <1>15 DEF Scaled

LEMMA JsonKeepsOrder ==
  ASSUME NEW lit \in Seq(0 .. 13), D!IsDecimal(lit)
  PROVE  D!IsJsonNumber(D!JsonLiteral(lit)) /\ D!Order(D!JsonLiteral(lit), lit) = 0
<1> DEFINE j == Signed(lit)
           v == Scaled(j, lit)
           w == Scaled(lit, j)
<1>1. j \in Seq(0 .. 13) /\ D!IsDecimal(j) /\ (Minuses(j) <=> Negative(lit)) BY SignedIs
<1>2. v = w BY SameScaled
<1> HIDE DEF j
<1>3. /\ v \in Nat /\ w \in Nat
      /\ D!Order(j, lit)
           = D!Sign((IF Minuses(j) THEN -v ELSE v) - (IF Minuses(lit) THEN -w ELSE w))
  BY <1>1, OrderIs
<1>4. D!Parts(lit).sign = 0 => w = 0
  <2>1. Significant(D!Parts(lit), lit) \/ Nothing(D!Parts(lit), lit) BY PartsAre
  <2>2. Significant(D!Parts(lit), lit) => D!Parts(lit).sign # 0 BY DEF Significant
  <2>3. Places(j) \in Nat BY <1>1, DigitsOfIs
  <2> QED BY <2>1, <2>2, <2>3, NothingIsZero
<1> HIDE DEF v, w
<1>5. (IF Minuses(j) THEN -v ELSE v) - (IF Minuses(lit) THEN -w ELSE w) = 0
  <2>1. CASE Minuses(j) <=> Minuses(lit) BY <1>2, <1>3, <2>1
  <2>2. CASE ~ (Minuses(j) <=> Minuses(lit))
    <3>1. w = 0 BY <1>1, <1>4, <2>2 DEF Negative
    <3> QED BY <1>2, <3>1
  <2> QED BY <2>1, <2>2
<1>6. D!Order(j, lit) = 0 BY <1>3, <1>5 DEF D!Sign
<1>7. D!IsJsonNumber(j) BY JsonIsNumber DEF j
<1> QED BY <1>6, <1>7, JsonIsSigned DEF j

\* For spellings of any length: what DecimalValue::cmp finds in signs, lengths and
\* digits is how the numbers they spell compare, whatever zeros they have.
THEOREM DecimalsCompare == Spec => []DecimalsCompareAsNumbers
<1>1. Init => DecimalsCompareAsNumbers BY DEF Init, None, DecimalsCompareAsNumbers
<1>2. DecimalsCompareAsNumbers /\ [Next]_call => DecimalsCompareAsNumbers'
  <2> SUFFICES ASSUME DecimalsCompareAsNumbers, [Next]_call PROVE DecimalsCompareAsNumbers'
    OBVIOUS
  <2>1. CASE UNCHANGED call BY <2>1 DEF DecimalsCompareAsNumbers
  <2>2. CASE CompareNumbers
    <3>1. PICK l \in Literals, r \in Literals :
            /\ D!IsDecimal(l) /\ D!IsDecimal(r)
            /\ Call([op |-> "compare", left |-> l, right |-> r], D!Cmp(l, r))
      BY <2>2 DEF CompareNumbers
    <3>2. l \in Seq(0 .. 13) /\ r \in Seq(0 .. 13) BY OperatorsAssumption
    <3>3. D!Cmp(l, r) = D!Order(l, r) BY <3>1, <3>2, CmpIsOrder
    <3>4. call'.left = l /\ call'.right = r /\ call'.answer = D!Cmp(l, r) BY <3>1 DEF Call
    <3> QED BY <3>3, <3>4 DEF DecimalsCompareAsNumbers
  <2>3. CASE call'.op # "compare" BY <2>3 DEF DecimalsCompareAsNumbers
  <2>4. Next => CompareNumbers \/ call'.op # "compare"
    BY FilesAreFound
    DEF Next, Call, WriteJson, ReadHexWords, ConvertTo, ExpandReference, StoreValue, SaveSchema,
           StartSchema, SearchText, ReplaceRecords, RefuseReplacement, ReadLog
  <2> QED BY <2>1, <2>2, <2>3, <2>4
<1> QED BY <1>1, <1>2, PTL DEF Spec

\* For spellings of any length: json_literal answers a number of JSON, and one
\* that is neither smaller nor greater than the one that was spelt.
THEOREM JsonKeeps == Spec => []JsonKeepsTheNumber
<1>1. Init => JsonKeepsTheNumber BY DEF Init, None, JsonKeepsTheNumber
<1>2. JsonKeepsTheNumber /\ [Next]_call => JsonKeepsTheNumber'
  <2> SUFFICES ASSUME JsonKeepsTheNumber, [Next]_call PROVE JsonKeepsTheNumber'
    OBVIOUS
  <2>1. CASE UNCHANGED call BY <2>1 DEF JsonKeepsTheNumber
  <2>2. CASE WriteJson
    <3>1. PICK l \in Literals :
            D!IsDecimal(l) /\ Call([op |-> "json", literal |-> l], D!JsonLiteral(l))
      BY <2>2 DEF WriteJson
    <3>2. l \in Seq(0 .. 13) BY OperatorsAssumption
    <3>3. D!IsJsonNumber(D!JsonLiteral(l)) /\ D!Order(D!JsonLiteral(l), l) = 0
      BY <3>1, <3>2, JsonKeepsOrder
    <3>4. call'.literal = l /\ call'.answer = D!JsonLiteral(l) BY <3>1 DEF Call
    <3> QED BY <3>3, <3>4 DEF JsonKeepsTheNumber
  <2>3. CASE call'.op # "json" BY <2>3 DEF JsonKeepsTheNumber
  <2>4. Next => WriteJson \/ call'.op # "json"
    BY FilesAreFound
    DEF Next, Call, CompareNumbers, ReadHexWords, ConvertTo, ExpandReference, StoreValue, SaveSchema,
           StartSchema, SearchText, ReplaceRecords, RefuseReplacement, ReadLog
  <2> QED BY <2>1, <2>2, <2>3, <2>4
<1> QED BY <1>1, <1>2, PTL DEF Spec

(***************************************************************************)
(* Seven digits.                                                           *)
(***************************************************************************)
LEMMA RowOf ==
  ASSUME NEW K, NEW n \in Nat, NEW s \in [1 .. n -> K]
  PROVE  s \in Seq(K) /\ Len(s) = n
OBVIOUS

\* What seven digits spell.
SevenDigits(s) ==
  16 * (16 * (16 * (16 * (16 * (16 * s[1] + s[2]) + s[3]) + s[4]) + s[5]) + s[6]) + s[7]

LEMMA FromHexOfSeven ==
  ASSUME NEW s \in Seq(S!HexDigit), Len(s) = 7
  PROVE  S!FromHex(s) = SevenDigits(s)
<1> DEFINE n == Len(s)
           upTo == CHOOSE f : f = [k \in 0 .. n |-> IF k = 0 THEN 0 ELSE 16 * f[k - 1] + s[k]]
           next  == [k \in Nat |-> [x \in Nat |-> 16 * x + (IF k \in 0 .. 6 THEN s[k + 1] ELSE 0)]]
           first == 0
           N     == Nat
<1> HIDE DEF n, upTo
<1>0. \A k \in 1 .. 7 : s[k] \in S!HexDigit /\ s[k] \in Nat
  <2>1. \A k \in 1 .. 7 : s[k] \in S!HexDigit BY ElementOfSeq
  <2> QED BY <2>1, SMTT(30) DEF S!HexDigit
<1>1. next \in [Nat -> [N -> N]]
  <2> DEFINE t == [k \in Nat |-> IF k \in 0 .. 6 THEN s[k + 1] ELSE 0]
  <2>1. \A k \in Nat : t[k] \in Nat BY <1>0, SMTT(30)
  <2> HIDE DEF t
  <2>2. \A k \in Nat : [x \in Nat |-> 16 * x + t[k]] \in [Nat -> Nat]
    <3> TAKE k \in Nat
    <3>1. t[k] \in Nat BY <2>1
    <3> QED BY <3>1
  <2>3. \A k \in Nat : next[k] = [x \in Nat |-> 16 * x + t[k]] BY DEF t
  <2>4. next = [k \in Nat |-> next[k]] OBVIOUS
  <2> DEFINE Steps == [N -> N]
  <2>5. \A k \in Nat : next[k] \in Steps BY <2>2, <2>3
  <2> HIDE DEF next, Steps
  <2>6. next \in [Nat -> Steps] BY <2>4, <2>5
  <2> QED BY <2>6 DEF Steps
<1>2. \A k \in 0 .. 6, x \in Nat : next[k][x] = 16 * x + s[k + 1] OBVIOUS
<1>3. first = 0 /\ N = Nat /\ first \in N OBVIOUS
<1> HIDE DEF next, first, N
<1>4. PICK g \in [0 .. 7 -> N] : Follows(g, 7, first, next)
  <2>1. 7 \in Nat OBVIOUS
  <2> QED BY <1>1, <1>3, <2>1, EachFollows
<1>5. g[0] = 0 /\ \A k \in 0 .. 6 : g[k + 1] = 16 * g[k] + s[k + 1]
  <2>1. \A k \in 0 .. 6 : g[k] \in Nat /\ g[k + 1] = next[k][g[k]]
    BY <1>3, <1>4, SMTT(30) DEF Follows
  <2> QED BY <1>2, <1>3, <1>4, <2>1 DEF Follows
<1>6. \A k \in 0 .. 7 : g[k] = IF k = 0 THEN 0 ELSE 16 * g[k - 1] + s[k]
  <2> TAKE k \in 0 .. 7
  <2>1. CASE k = 0 BY <1>5, <2>1
  <2>2. CASE k # 0
    <3>1. k - 1 \in 0 .. 6 /\ (k - 1) + 1 = k BY <2>2
    <3> QED BY <1>5, <2>2, <3>1
  <2> QED BY <2>1, <2>2
<1>7. g = [k \in 0 .. n |-> IF k = 0 THEN 0 ELSE 16 * g[k - 1] + s[k]] BY <1>4, <1>6 DEF n
<1>8. upTo = [k \in 0 .. n |-> IF k = 0 THEN 0 ELSE 16 * upTo[k - 1] + s[k]] BY <1>7 DEF upTo
<1>9. S!FromHex(s) = upTo[n] BY DEF S!FromHex, upTo, n
<1>10. upTo[0] = 0 BY <1>8 DEF n
<1>11. \A k \in 1 .. 7 : upTo[k] = 16 * upTo[k - 1] + s[k] BY <1>8 DEF n
<1>12. \A k \in 1 .. 7 : s[k] \in Nat BY <1>0
<1>13. upTo[1] = s[1] /\ upTo[2] = 16 * s[1] + s[2] BY <1>10, <1>11, <1>12
<1>14. upTo[3] = 16 * upTo[2] + s[3] /\ upTo[4] = 16 * upTo[3] + s[4] BY <1>11
<1>15. upTo[5] = 16 * upTo[4] + s[5] /\ upTo[6] = 16 * upTo[5] + s[6] BY <1>11
<1>16. upTo[7] = 16 * upTo[6] + s[7] BY <1>11
<1> QED BY <1>9, <1>12, <1>13, <1>14, <1>15, <1>16 DEF SevenDigits, n

\* A line number is spelt in seven digits.
LEMMA ToHexIs ==
  ASSUME NEW line \in Nat, line <= S!MaxLine
  PROVE  /\ S!ToHex(line, 7) \in Seq(S!HexDigit) /\ Len(S!ToHex(line, 7)) = 7
         /\ SevenDigits(S!ToHex(line, 7)) = line
<1> DEFINE s == S!ToHex(line, 7)
           shifted == CHOOSE f : f = [k \in 0 .. 7 |-> IF k = 0 THEN line ELSE f[k - 1] \div 16]
           next  == [k \in Nat |-> [x \in Nat |-> x \div 16]]
           N     == Nat
<1> HIDE DEF shifted, s
<1>1. next \in [Nat -> [N -> N]] /\ \A k \in 0 .. 6, x \in Nat : next[k][x] = x \div 16
  OBVIOUS
<1>2. N = Nat /\ line \in N OBVIOUS
<1>3. s = [i \in 1 .. 7 |-> shifted[7 - i] % 16] BY DEF S!ToHex, s, shifted
<1> HIDE DEF next, N
<1>4. PICK g \in [0 .. 7 -> N] : Follows(g, 7, line, next)
  <2>1. 7 \in Nat OBVIOUS
  <2> QED BY <1>1, <1>2, <2>1, EachFollows
<1>5. g[0] = line /\ \A k \in 0 .. 6 : g[k + 1] = g[k] \div 16
  <2>1. \A k \in 0 .. 6 : g[k] \in Nat /\ g[k + 1] = next[k][g[k]]
    BY <1>2, <1>4 DEF Follows
  <2> QED BY <1>1, <1>4, <2>1 DEF Follows
<1>6. \A k \in 0 .. 7 : g[k] = IF k = 0 THEN line ELSE g[k - 1] \div 16
  <2> TAKE k \in 0 .. 7
  <2>1. CASE k = 0 BY <1>5, <2>1
  <2>2. CASE k # 0
    <3>1. k - 1 \in 0 .. 6 /\ (k - 1) + 1 = k BY <2>2
    <3> QED BY <1>5, <2>2, <3>1
  <2> QED BY <2>1, <2>2
<1>7. g = [k \in 0 .. 7 |-> IF k = 0 THEN line ELSE g[k - 1] \div 16] BY <1>6, SMTT(30)
<1>8. shifted = [k \in 0 .. 7 |-> IF k = 0 THEN line ELSE shifted[k - 1] \div 16] BY <1>7 DEF shifted
<1>9. shifted[0] = line /\ \A k \in 1 .. 7 : shifted[k] = shifted[k - 1] \div 16 BY <1>8
<1> DEFINE a == shifted[1]
           b == shifted[2]
           c == shifted[3]
           d == shifted[4]
           e == shifted[5]
           f == shifted[6]
<1>10. a = line \div 16 /\ b = a \div 16 /\ c = b \div 16 BY <1>9
<1>11. d = c \div 16 /\ e = d \div 16 /\ f = e \div 16 BY <1>9
<1>12. /\ s[1] = f % 16 /\ s[2] = e % 16 /\ s[3] = d % 16 /\ s[4] = c % 16
       /\ s[5] = b % 16 /\ s[6] = a % 16 /\ s[7] = line % 16
  <2>1. \A i \in 1 .. 7 : s[i] = shifted[7 - i] % 16 BY <1>3
  <2> QED BY <1>9, <2>1
<1> HIDE DEF a, b, c, d, e, f
<1>13. line \in Nat /\ a \in Nat /\ b \in Nat /\ c \in Nat BY <1>2, <1>10
<1>14. d \in Nat /\ e \in Nat /\ f \in Nat BY <1>11, <1>13
<1>15. f % 16 = f
  <2>1. f < 16 BY <1>10, <1>11, <1>13, <1>14, SMTT(30) DEF S!MaxLine
  <2> QED BY <1>14, <2>1
<1>16. /\ line = 16 * a + (line % 16) /\ a = 16 * b + (a % 16) /\ b = 16 * c + (b % 16)
       /\ c = 16 * d + (c % 16) /\ d = 16 * e + (d % 16) /\ e = 16 * f + (e % 16)
  BY <1>10, <1>11, <1>13, <1>14
<1>17. SevenDigits(s) = line
  <2>1. /\ s[1] = f /\ s[2] = e - 16 * f /\ s[3] = d - 16 * e /\ s[4] = c - 16 * d
        /\ s[5] = b - 16 * c /\ s[6] = a - 16 * b /\ s[7] = line - 16 * a
    BY <1>12, <1>13, <1>14, <1>15, <1>16
  <2> QED BY <1>13, <1>14, <2>1 DEF SevenDigits
<1>18. s \in [1 .. 7 -> S!HexDigit]
  <2>1. \A x \in Nat : x % 16 \in S!HexDigit BY DEF S!HexDigit
  <2>2. \A i \in 1 .. 7 : s[i] \in S!HexDigit
    <3>1. s[1] \in S!HexDigit /\ s[2] \in S!HexDigit /\ s[3] \in S!HexDigit /\ s[4] \in S!HexDigit
      BY <1>12, <1>13, <1>14, <2>1
    <3>2. s[5] \in S!HexDigit /\ s[6] \in S!HexDigit /\ s[7] \in S!HexDigit BY <1>12, <1>13, <2>1
    <3> TAKE i \in 1 .. 7
    <3>3. i \in {1, 2, 3, 4, 5, 6, 7} OBVIOUS
    <3> QED BY <3>1, <3>2, <3>3
  <2> QED BY <1>3, <2>2
<1>19. s \in Seq(S!HexDigit) /\ Len(s) = 7
  <2> HIDE DEF a, b, c, d, e, f
  <2>1. 7 \in Nat OBVIOUS
  <2> QED BY <1>18, <2>1, RowOf, ZenonT(30)
<1> QED BY <1>17, <1>19 DEF s

\* Seven digits behind what stands before them.
LEMMA DigitsBehind ==
  ASSUME NEW K, NEW h \in Seq(K), NEW s \in Seq(K), s # << >>
  PROVE  /\ h \o s \in Seq(K) /\ Len(h \o s) = Len(h) + Len(s)
         /\ SubSeq(h \o s, Len(h) + 1, Len(h) + Len(s)) = s
         /\ \A i \in 1 .. Len(h) : (h \o s)[i] = h[i]
         /\ \A i \in 1 .. Len(s) : (h \o s)[Len(h) + i] = s[i]
<1> DEFINE m == Len(h)
           n == Len(s)
<1>1. m \in Nat /\ n \in Nat \ {0} BY EmptySeq, LenProperties
<1>2. SubSeq(h \o s, m + 1, m + n) = SubSeq(s, (m + 1) - m, (m + n) - m)
  <2>1. m + 1 \in m + 1 .. m + n /\ m + n \in m + 1 .. m + n BY <1>1
  <2> QED BY <2>1, SubSeqOfConcat2
<1>3. (m + 1) - m = 1 /\ (m + n) - m = n BY <1>1
<1>4. SubSeq(s, 1, n) = s BY SubSeqFull
<1>5. \A i \in 1 .. m + n : (h \o s)[i] = IF i <= m THEN h[i] ELSE s[i - m] BY ConcatProperties
<1>6. h \o s \in Seq(K) /\ Len(h \o s) = m + n BY ConcatProperties
<1> HIDE DEF m, n
<1>7. \A i \in 1 .. m : (h \o s)[i] = h[i]
  <2> TAKE i \in 1 .. m
  <2>1. i \in 1 .. m + n /\ i <= m BY <1>1
  <2> QED BY <1>5, <2>1
<1>8. \A i \in 1 .. n : (h \o s)[m + i] = s[i]
  <2> TAKE i \in 1 .. n
  <2>1. m + i \in 1 .. m + n /\ ~ (m + i <= m) /\ (m + i) - m = i BY <1>1
  <2> QED BY <1>5, <2>1
<1> QED BY <1>2, <1>3, <1>4, <1>6, <1>7, <1>8 DEF m, n

(***************************************************************************)
(* Hex-words.                                                              *)
(***************************************************************************)
Spelling == 0 .. 16
CanBeLine(n) == n \in Nat /\ n <= S!MaxLine

\* A spelling of seven digits behind what stands in front of them.
Spells(w, h, m, line) ==
  /\ Len(w) = m + 7
  /\ \A i \in 1 .. m : w[i] = h[i]
  /\ \A i \in m + 1 .. m + 7 : w[i] \in S!HexDigit
  /\ S!FromHex(SubSeq(w, Len(w) - 6, Len(w))) = line

LEMMA SpelledLine ==
  ASSUME NEW m \in Nat, NEW h \in Seq(Spelling), Len(h) = m,
         NEW line, CanBeLine(line), NEW w, w = h \o S!ToHex(line, 7)
  PROVE  Spells(w, h, m, line)
<1> DEFINE s == S!ToHex(line, 7)
<1>1. line \in Nat /\ line <= S!MaxLine BY DEF CanBeLine
<1>0. w = h \o s OBVIOUS
<1>2. s \in Seq(S!HexDigit) /\ Len(s) = 7 /\ SevenDigits(s) = line BY <1>1, ToHexIs
<1> HIDE DEF s
<1>3. S!FromHex(s) = line BY <1>2, FromHexOfSeven
<1>4. s \in Seq(Spelling)
  <2>1. s \in [1 .. 7 -> S!HexDigit] BY <1>2, LenProperties
  <2>2. S!HexDigit \subseteq Spelling BY DEF S!HexDigit, Spelling
  <2>3. s \in [1 .. 7 -> Spelling] BY <2>1, <2>2
  <2>4. 7 \in Nat OBVIOUS
  <2> QED BY <2>3, <2>4, RowOf
<1>5. s # << >>
  <2>1. Len(s) # 0 BY <1>2
  <2> QED BY <2>1, EmptySeq
<1>6. /\ Len(w) = m + Len(s) /\ SubSeq(w, m + 1, m + Len(s)) = s
      /\ \A i \in 1 .. m : w[i] = h[i]
      /\ \A i \in 1 .. Len(s) : w[m + i] = s[i]
  <2>1. /\ Len(h \o s) = Len(h) + Len(s)
        /\ SubSeq(h \o s, Len(h) + 1, Len(h) + Len(s)) = s
        /\ \A i \in 1 .. Len(h) : (h \o s)[i] = h[i]
        /\ \A i \in 1 .. Len(s) : (h \o s)[Len(h) + i] = s[i]
    BY <1>4, <1>5, DigitsBehind, ZenonT(30)
  <2> QED BY <1>0, <2>1
<1>8. Len(w) = m + 7 /\ Len(w) - 6 = m + 1 BY <1>2, <1>6
<1>9. \A i \in m + 1 .. m + 7 : w[i] \in S!HexDigit
  <2> TAKE i \in m + 1 .. m + 7
  <2> DEFINE j == i - m
  <2>1. j \in 1 .. 7 /\ m + j = i OBVIOUS
  <2> HIDE DEF j
  <2>2. w[m + j] = s[j] BY <1>2, <1>6, <2>1
  <2>3. s[j] \in S!HexDigit BY <1>2, <2>1, ElementOfSeq
  <2> QED BY <2>1, <2>2, <2>3
<1> QED BY <1>2, <1>3, <1>6, <1>8, <1>9 DEF Spells

LEMMA EncodedReadsBack ==
  ASSUME NEW line, CanBeLine(line), NEW type \in S!HexDigit
  PROVE  S!Decode(S!Encode(line, type)) = [line |-> line, type |-> S!FromNibble(type)]
<1> DEFINE h == << type, S!X >>
           w == S!Encode(line, type)
<1>1. h \in Seq(Spelling) /\ Len(h) = 2 /\ h[1] = type /\ h[2] = S!X
  <2>1. type \in Spelling /\ S!X \in Spelling BY DEF S!HexDigit, S!X, Spelling
  <2> HIDE DEF Spelling
  <2> QED BY <2>1
<1>2. w = h \o S!ToHex(line, 7) BY DEF S!Encode
<1> HIDE DEF h, w
<1>3. /\ Len(w) = 9 /\ w[1] = type /\ w[2] = S!X
      /\ \A i \in 3 .. 9 : w[i] \in S!HexDigit
      /\ S!FromHex(SubSeq(w, Len(w) - 6, Len(w))) = line
  <2> DEFINE m == 2
  <2>0. m \in Nat /\ Len(h) = m /\ m + 1 = 3 /\ m + 7 = 9 /\ 1 \in 1 .. m /\ 2 \in 1 .. m
    BY <1>1
  <2> HIDE DEF m
  <2>1. Spells(w, h, m, line) BY <1>1, <1>2, <2>0, SpelledLine
  <2> QED BY <1>1, <2>0, <2>1 DEF Spells
<1>4. w # << 0 >>
  <2>1. Len(<< 0 >>) = 1 OBVIOUS
  <2> QED BY <1>3, <2>1
<1>5. S!IsPrimary(w)
  <2>1. \A i \in 1 .. 7 : SubSeq(w, 3, 9)[i] = w[i + 2] /\ Len(SubSeq(w, 3, 9)) = 7 BY <1>3
  <2>2. S!AllHex(SubSeq(w, 3, 9)) BY <1>3, <2>1 DEF S!AllHex
  <2> QED BY <1>3, <2>2 DEF S!IsPrimary
<1> QED BY <1>3, <1>4, <1>5 DEF S!Decode, w

LEMMA LegacyReadsBack ==
  ASSUME NEW line, CanBeLine(line), NEW type \in S!HexDigit
  PROVE  S!Decode(S!Legacy(line, type)) = [line |-> line, type |-> S!FromNibble(type)]
<1> DEFINE h == << 0, S!X, type >>
           w == S!Legacy(line, type)
<1>1. h \in Seq(Spelling) /\ Len(h) = 3 /\ h[1] = 0 /\ h[2] = S!X /\ h[3] = type
  <2>1. 0 \in Spelling /\ type \in Spelling /\ S!X \in Spelling
    BY DEF S!HexDigit, S!X, Spelling
  <2> HIDE DEF Spelling
  <2> QED BY <2>1
<1>2. w = h \o S!ToHex(line, 7) BY DEF S!Legacy
<1> HIDE DEF h, w
<1>3. /\ Len(w) = 10 /\ w[3] = type
      /\ S!FromHex(SubSeq(w, Len(w) - 6, Len(w))) = line
  <2> DEFINE m == 3
  <2>0. m \in Nat /\ Len(h) = m /\ m + 7 = 10 /\ 3 \in 1 .. m BY <1>1
  <2> HIDE DEF m
  <2>1. Spells(w, h, m, line) BY <1>1, <1>2, <2>0, SpelledLine
  <2> QED BY <1>1, <2>0, <2>1 DEF Spells
<1>4. w # << 0 >>
  <2>1. Len(<< 0 >>) = 1 OBVIOUS
  <2> QED BY <1>3, <2>1
<1>5. ~ S!IsPrimary(w) BY <1>3 DEF S!IsPrimary
<1> QED BY <1>3, <1>4, <1>5 DEF S!Decode, w

(***************************************************************************)
(* Lines of hex-words.                                                     *)
(***************************************************************************)
ZoneRead == [start : {n \in Nat : CanBeLine(n)}, end : {n \in Nat : CanBeLine(n)}, type : S!ZoneType]

LEMMA EncodeIs ==
  ASSUME NEW line, CanBeLine(line), NEW type \in S!HexDigit
  PROVE  S!Encode(line, type) \in Seq(Spelling)
<1> DEFINE h == << type, S!X >>
           s == S!ToHex(line, 7)
<1>1. h \in Seq(Spelling)
  <2>1. type \in Spelling /\ S!X \in Spelling BY DEF S!HexDigit, S!X, Spelling
  <2> HIDE DEF Spelling
  <2> QED BY <2>1
<1>2. s \in Seq(S!HexDigit) /\ Len(s) = 7 BY ToHexIs DEF CanBeLine
<1>3. S!Encode(line, type) = h \o s BY DEF S!Encode
<1> HIDE DEF h, s
<1>4. s \in Seq(Spelling)
  <2>1. s \in [1 .. 7 -> S!HexDigit] BY <1>2, LenProperties
  <2>2. S!HexDigit \subseteq Spelling BY DEF S!HexDigit, Spelling
  <2>3. s \in [1 .. 7 -> Spelling] BY <2>1, <2>2
  <2>4. 7 \in Nat OBVIOUS
  <2> QED BY <2>3, <2>4, RowOf
<1> QED BY <1>1, <1>3, <1>4, ConcatProperties

LEMMA SixWords ==
  ASSUME NEW e
  PROVE  \A words : words = [i \in 1 .. 6 |-> e[i]] => words # << >> /\ \A i \in 1 .. 6 : words[i] = e[i]
<1> TAKE words
<1> HAVE words = [i \in 1 .. 6 |-> e[i]]
<1>1. 6 \in Nat /\ \A i \in 1 .. 6 : words[i] = e[i] OBVIOUS
<1> DEFINE K == {e[i] : i \in 1 .. 6}
<1>2. words \in [1 .. 6 -> K] OBVIOUS
<1> HIDE DEF K
<1>3. Len(words) # 0 /\ words \in Seq(K) BY <1>1, <1>2, RowOf
<1> QED BY <1>1, <1>3, EmptySeq

LEMMA ZonesReadBack ==
  ASSUME NEW zs \in [0 .. 2 -> ZoneRead]
  PROVE  S!FromLine(S!ToLine(zs)) = zs
<1> DEFINE e == [i \in 1 .. 6 |-> LET zone == zs[(i - 1) \div 2]
                                   IN  S!Encode(IF i % 2 = 1 THEN zone.start ELSE zone.end, zone.type)]
           words == S!ToLine(zs)
<1>1. words = [i \in 1 .. 6 |-> e[i]] BY DEF S!ToLine
<1>2. words # << >> /\ \A i \in 1 .. 6 : words[i] = e[i]
  <2> HIDE DEF words, e
  <2> QED BY <1>1, SixWords
<1> HIDE DEF words
<1>3. ASSUME NEW z \in 0 .. 2
      PROVE  /\ words[2 * z + 1] = S!Encode(zs[z].start, zs[z].type)
             /\ words[2 * z + 2] = S!Encode(zs[z].end, zs[z].type)
  <2> DEFINE i == 2 * z + 1
             j == 2 * z + 2
  <2>1. i \in 1 .. 6 /\ j \in 1 .. 6 OBVIOUS
  <2>2. (i - 1) \div 2 = z /\ (j - 1) \div 2 = z /\ i % 2 = 1 /\ j % 2 # 1 OBVIOUS
  <2> HIDE DEF i, j
  <2>3. e[i] = S!Encode(zs[z].start, zs[z].type) BY <2>1, <2>2
  <2>4. e[j] = S!Encode(zs[z].end, zs[z].type) BY <2>1, <2>2
  <2> QED BY <1>2, <2>1, <2>3, <2>4 DEF i, j
<1> HIDE DEF e
<1>4. ASSUME NEW z \in 0 .. 2
      PROVE  [start |-> S!Decode(words[2 * z + 1]).line, end |-> S!Decode(words[2 * z + 2]).line,
              type |-> S!Decode(words[2 * z + 1]).type] = zs[z]
  <2> DEFINE zone == zs[z]
  <2>1. /\ zone \in ZoneRead /\ CanBeLine(zone.start) /\ CanBeLine(zone.end)
        /\ zone.type \in S!ZoneType
        /\ zone = [start |-> zone.start, end |-> zone.end, type |-> zone.type]
    BY DEF ZoneRead
  <2> HIDE DEF zone
  <2>2. zone.type \in S!HexDigit /\ S!FromNibble(zone.type) = zone.type
    BY <2>1 DEF S!ZoneType, S!HexDigit, S!FromNibble
  <2>3. S!Decode(S!Encode(zone.start, zone.type)) = [line |-> zone.start, type |-> zone.type]
    BY <2>1, <2>2, EncodedReadsBack
  <2>4. S!Decode(S!Encode(zone.end, zone.type)) = [line |-> zone.end, type |-> zone.type]
    BY <2>1, <2>2, EncodedReadsBack
  <2>5. /\ words[2 * z + 1] = S!Encode(zone.start, zone.type)
        /\ words[2 * z + 2] = S!Encode(zone.end, zone.type)
    BY <1>3 DEF zone
  <2> QED BY <2>1, <2>3, <2>4, <2>5 DEF zone
<1>5. S!FromLine(words) = [z \in 0 .. 2 |-> zs[z]]
  BY <1>2, <1>4 DEF S!FromLine
<1>6. zs = [z \in 0 .. 2 |-> zs[z]] OBVIOUS
<1> QED BY <1>5, <1>6 DEF words

\* Both spellings of a hex-word.
IsWord(w) == CanBeLine(w.line) /\ w.nibble \in S!HexDigit

LEMMA WordReadsBack ==
  ASSUME NEW w, IsWord(w)
  PROVE  S!Decode(Spelt(w)) = [line |-> w.line, type |-> S!FromNibble(w.nibble)]
<1>1. CanBeLine(w.line) /\ w.nibble \in S!HexDigit BY DEF IsWord
<1> DEFINE line == w.line
           nibble == w.nibble
<1> HIDE DEF line, nibble
<1>2. CanBeLine(line) /\ nibble \in S!HexDigit BY <1>1 DEF line, nibble
<1>3. /\ S!Decode(S!Legacy(line, nibble)) = [line |-> line, type |-> S!FromNibble(nibble)]
      /\ S!Decode(S!Encode(line, nibble)) = [line |-> line, type |-> S!FromNibble(nibble)]
  BY <1>2, EncodedReadsBack, LegacyReadsBack
<1> QED BY <1>3 DEF Spelt, line, nibble

LEMMA LineReadsBack ==
  ASSUME NEW ws, \A i \in 1 .. 6 : IsWord(ws[i]),
         NEW zs, zs = S!FromLine([i \in 1 .. 6 |-> Spelt(ws[i])])
  PROVE  /\ zs \in [0 .. 2 -> ZoneRead]
         /\ \A z \in 0 .. 2 :
              zs[z] = [start |-> ws[2 * z + 1].line, end |-> ws[2 * z + 2].line,
                       type |-> S!FromNibble(ws[2 * z + 1].nibble)]
<1> DEFINE e == [i \in 1 .. 6 |-> Spelt(ws[i])]
           words == [i \in 1 .. 6 |-> e[i]]
<1>1. words # << >> /\ \A i \in 1 .. 6 : words[i] = e[i]
  <2> HIDE DEF e
  <2>1. words = [i \in 1 .. 6 |-> e[i]] OBVIOUS
  <2> HIDE DEF words
  <2> QED BY <2>1, SixWords
<1>2. words = e /\ \A i \in 1 .. 6 : e[i] = Spelt(ws[i]) OBVIOUS
<1>3. zs = S!FromLine(words) BY <1>2
<1> HIDE DEF words, e
<1>4. \A z \in 0 .. 2 : 2 * z + 1 \in 1 .. 6 /\ 2 * z + 2 \in 1 .. 6 OBVIOUS
<1>5. \A i \in 1 .. 6 : S!Decode(words[i]) = [line |-> ws[i].line, type |-> S!FromNibble(ws[i].nibble)]
  BY <1>1, <1>2, WordReadsBack
<1>6. zs = [z \in 0 .. 2 |-> [start |-> S!Decode(words[2 * z + 1]).line,
                              end   |-> S!Decode(words[2 * z + 2]).line,
                              type  |-> S!Decode(words[2 * z + 1]).type]]
  BY <1>1, <1>3 DEF S!FromLine
<1>7. \A z \in 0 .. 2 :
        zs[z] = [start |-> ws[2 * z + 1].line, end |-> ws[2 * z + 2].line,
                 type |-> S!FromNibble(ws[2 * z + 1].nibble)]
  BY <1>4, <1>5, <1>6
<1>8. \A i \in 1 .. 6 : CanBeLine(ws[i].line) /\ ws[i].line \in Nat
                          /\ S!FromNibble(ws[i].nibble) \in S!ZoneType
  <2>1. \A n : S!FromNibble(n) \in S!ZoneType BY DEF S!FromNibble, S!ZoneType
  <2> QED BY <2>1 DEF IsWord, CanBeLine
<1>9. \A z \in 0 .. 2 : zs[z] \in ZoneRead BY <1>4, <1>7, <1>8 DEF ZoneRead
<1> QED BY <1>6, <1>7, <1>9

(***************************************************************************)
(* The words of convert.                                                   *)
(***************************************************************************)
IsNumberToken(t) == t.kind = "number" /\ CanBeLine(t.value)
IsToken(t) == IsNumberToken(t) \/ (t.kind = "type" /\ t.value \in S!ZoneType) \/ t.kind = "clip"

Encodes(w, t) == \E type \in S!ZoneType : w = S!Encode(t.value, type)
NumbersUpTo(ts, k) == {i \in 1 .. k : ts[i].kind = "number"}

\* What the words are after some tokens, as long as there are no more than two.
WordsHold(ws, ts, k) ==
  /\ ws \in Seq(Seq(Spelling))
  /\ Len(ws) = 0 => NumbersUpTo(ts, k) = {}
  /\ Len(ws) = 1 => \E i \in 1 .. k : NumbersUpTo(ts, k) = {i} /\ Encodes(ws[1], ts[i])
  /\ Len(ws) = 2 =>
       \E i, j \in 1 .. k : /\ i < j /\ NumbersUpTo(ts, k) = {i, j}
                            /\ Encodes(ws[1], ts[i]) /\ Encodes(ws[2], ts[j])

LEMMA NumberJoins ==
  ASSUME NEW ts, NEW k \in Nat, NEW ws, WordsHold(ws, ts, k),
         ts[k + 1].kind = "number", NEW w \in Seq(Spelling), Encodes(w, ts[k + 1])
  PROVE  WordsHold(Append(ws, w), ts, k + 1)
<1> DEFINE vs == Append(ws, w)
           n  == Len(ws)
           N  == NumbersUpTo(ts, k)
           M  == NumbersUpTo(ts, k + 1)
           Row  == Seq(Spelling)
<1>1. ws \in Seq(Row) /\ w \in Row BY DEF WordsHold
<1> HIDE DEF Row
<1>2. /\ vs \in Seq(Row) /\ Len(vs) = n + 1 /\ n \in Nat
      /\ \A i \in 1 .. n : vs[i] = ws[i]
      /\ vs[n + 1] = w
  BY <1>1, AppendProperties
<1>3. M = N \cup {k + 1} BY DEF NumbersUpTo
<1> HIDE DEF vs, n, M, N
<1>4. n = 0 => N = {} BY DEF WordsHold, n, N
<1>5. n = 1 => \E i \in 1 .. k : N = {i} /\ Encodes(ws[1], ts[i]) BY DEF WordsHold, n, N
<1>9. (Len(vs) = 1 => n = 0) /\ (Len(vs) = 2 => n = 1)
  <2> DEFINE m == Len(vs)
  <2>1. n \in Nat /\ m = n + 1 BY <1>2
  <2> HIDE DEF m
  <2>2. (m = 1 => n = 0) /\ (m = 2 => n = 1) BY <2>1
  <2> QED BY <2>2 DEF m
<1>6. ASSUME Len(vs) = 1 PROVE \E i \in 1 .. k + 1 : M = {i} /\ Encodes(vs[1], ts[i])
  <2>1. n = 0 BY <1>6, <1>9
  <2>2. M = {k + 1} /\ vs[1] = w BY <1>2, <1>3, <1>4, <2>1
  <2>3. k + 1 \in 1 .. k + 1 OBVIOUS
  <2> QED BY <2>2, <2>3
<1>7. ASSUME Len(vs) = 2
      PROVE  \E i, j \in 1 .. k + 1 : /\ i < j /\ M = {i, j}
                                      /\ Encodes(vs[1], ts[i]) /\ Encodes(vs[2], ts[j])
  <2>1. n = 1 BY <1>7, <1>9
  <2>2. PICK i \in 1 .. k : N = {i} /\ Encodes(ws[1], ts[i]) BY <1>5, <2>1
  <2>3. vs[1] = ws[1] /\ vs[2] = w BY <1>2, <2>1
  <2> DEFINE j == k + 1
  <2>4. i \in 1 .. j /\ j \in 1 .. j /\ i < j OBVIOUS
  <2>5. M = {i, j} /\ Encodes(vs[1], ts[i]) /\ Encodes(vs[2], ts[j]) BY <1>3, <2>2, <2>3
  <2> HIDE DEF j
  <2>6. \E a, b \in 1 .. j : /\ a < b /\ M = {a, b}
                             /\ Encodes(vs[1], ts[a]) /\ Encodes(vs[2], ts[b])
    BY <2>4, <2>5
  <2> QED BY <2>6 DEF j
<1>8. Len(vs) # 0 BY <1>2
<1> QED BY <1>2, <1>6, <1>7, <1>8 DEF WordsHold, vs, M, Row

LEMMA OthersPass ==
  ASSUME NEW ts, NEW k \in Nat, NEW ws, WordsHold(ws, ts, k), ts[k + 1].kind # "number"
  PROVE  WordsHold(ws, ts, k + 1)
<1>1. NumbersUpTo(ts, k + 1) = NumbersUpTo(ts, k) BY DEF NumbersUpTo
<1>2. 1 .. k \subseteq 1 .. k + 1 OBVIOUS
<1> DEFINE A == 1 .. k
           B == 1 .. k + 1
<1> HIDE DEF A, B
<1>3. A \subseteq B BY <1>2 DEF A, B
<1>4. /\ ws \in Seq(Seq(Spelling)) /\ Len(ws) = 0 => NumbersUpTo(ts, k) = {}
      /\ Len(ws) = 1 => \E i \in A : NumbersUpTo(ts, k) = {i} /\ Encodes(ws[1], ts[i])
      /\ Len(ws) = 2 =>
           \E i, j \in A : /\ i < j /\ NumbersUpTo(ts, k) = {i, j}
                           /\ Encodes(ws[1], ts[i]) /\ Encodes(ws[2], ts[j])
  BY DEF WordsHold, A
<1>5. /\ ws \in Seq(Seq(Spelling)) /\ Len(ws) = 0 => NumbersUpTo(ts, k + 1) = {}
      /\ Len(ws) = 1 => \E i \in B : NumbersUpTo(ts, k + 1) = {i} /\ Encodes(ws[1], ts[i])
      /\ Len(ws) = 2 =>
           \E i, j \in B : /\ i < j /\ NumbersUpTo(ts, k + 1) = {i, j}
                           /\ Encodes(ws[1], ts[i]) /\ Encodes(ws[2], ts[j])
  BY <1>1, <1>3, <1>4
<1> QED BY <1>5 DEF WordsHold, B

\* The state the words are read in.
ReadSoFar == [type : S!ZoneType, words : Seq(Seq(Spelling))]

LEMMA AfterTokenIs ==
  ASSUME NEW x \in ReadSoFar, NEW t, IsToken(t)
  PROVE  /\ S!AfterToken(x, t) \in ReadSoFar
         /\ t.kind # "number" => S!AfterToken(x, t).words = x.words
         /\ t.kind = "number" =>
              \E w \in Seq(Spelling) :
                Encodes(w, t) /\ S!AfterToken(x, t).words = Append(x.words, w)
<1>1. CASE t.kind = "type"
  <2>1. t.kind # "number" /\ t.kind # "clip" /\ t.value \in S!ZoneType
    BY <1>1 DEF IsToken, IsNumberToken
  <2>2. S!AfterToken(x, t) = [x EXCEPT !.type = t.value] BY <1>1 DEF S!AfterToken
  <2> QED BY <2>1, <2>2 DEF ReadSoFar
<1>2. CASE t.kind = "number"
  <2>1. t.kind # "type" /\ CanBeLine(t.value) BY <1>2 DEF IsToken, IsNumberToken
  <2> DEFINE w == S!Encode(t.value, x.type)
  <2>2. S!AfterToken(x, t) = [x EXCEPT !.words = Append(@, w)] BY <1>2, <2>1 DEF S!AfterToken
  <2>3. x.type \in S!ZoneType /\ x.type \in S!HexDigit BY DEF ReadSoFar, S!ZoneType, S!HexDigit
  <2>4. w \in Seq(Spelling) BY <2>1, <2>3, EncodeIs
  <2>5. Encodes(w, t) BY <2>3 DEF Encodes
  <2> HIDE DEF w
  <2> DEFINE Row == Seq(Spelling)
  <2>6. x.words \in Seq(Row) /\ w \in Row BY <2>4 DEF ReadSoFar
  <2> HIDE DEF Row
  <2>7. Append(x.words, w) \in Seq(Row) BY <2>6, AppendProperties
  <2>8. S!AfterToken(x, t).words = Append(x.words, w) /\ S!AfterToken(x, t) \in ReadSoFar
    BY <2>2, <2>7 DEF ReadSoFar, Row
  <2> QED BY <1>2, <2>4, <2>5, <2>8
<1>3. CASE t.kind = "clip"
  <2>1. t.kind # "number" /\ t.kind # "type" BY <1>3
  <2>2. S!AfterToken(x, t) = x BY <2>1 DEF S!AfterToken
  <2> QED BY <2>1, <2>2
<1> QED BY <1>1, <1>2, <1>3 DEF IsToken, IsNumberToken

LEMMA ConvertedHolds ==
  ASSUME NEW K, NEW ts \in Seq(K), \A i \in 1 .. Len(ts) : IsToken(ts[i])
  PROVE  WordsHold(S!Converted(ts, 0), ts, Len(ts))
<1> DEFINE n == Len(ts)
           first == [type |-> 0, words |-> << >>]
           upTo == CHOOSE f : f = [k \in 0 .. n |-> IF k = 0 THEN first
                                                    ELSE S!AfterToken(f[k - 1], ts[k])]
           next == [k \in Nat |-> [x \in ReadSoFar |-> IF k < n THEN S!AfterToken(x, ts[k + 1]) ELSE x]]
<1>1. n \in Nat BY LenProperties
<1>2. first \in ReadSoFar
  <2>1. 0 \in S!ZoneType BY DEF S!ZoneType
  <2> QED BY <2>1 DEF ReadSoFar
<1>3. S!Converted(ts, 0) = upTo[n].words BY DEF S!Converted
<1> HIDE DEF upTo, first
<1>4. ASSUME NEW k \in Nat, k < n
      PROVE  /\ IsToken(ts[k + 1])
             /\ \A x \in ReadSoFar : S!AfterToken(x, ts[k + 1]) \in ReadSoFar
  <2>1. k + 1 \in 1 .. n BY <1>1, <1>4
  <2>2. IsToken(ts[k + 1]) BY <2>1
  <2> QED BY <2>2, AfterTokenIs
<1> HIDE DEF n
<1>5. \A k \in Nat : next[k] \in [ReadSoFar -> ReadSoFar]
  <2> TAKE k \in Nat
  <2>1. next[k] = [x \in ReadSoFar |-> IF k < n THEN S!AfterToken(x, ts[k + 1]) ELSE x] OBVIOUS
  <2> HIDE DEF next
  <2> QED BY <1>4, <2>1
<1>6. next \in [Nat -> [ReadSoFar -> ReadSoFar]]
  <2>1. next = [k \in Nat |-> next[k]] OBVIOUS
  <2> DEFINE Steps == [ReadSoFar -> ReadSoFar]
  <2> HIDE DEF next, Steps
  <2>2. \A k \in Nat : next[k] \in Steps BY <1>5 DEF Steps
  <2>3. next \in [Nat -> Steps] BY <2>1, <2>2
  <2> QED BY <2>3 DEF Steps
<1>7. \A k \in Nat, x \in ReadSoFar : k < n => next[k][x] = S!AfterToken(x, ts[k + 1]) OBVIOUS
<1> HIDE DEF next
<1>8. PICK g \in [0 .. n -> ReadSoFar] : Follows(g, n, first, next) BY <1>1, <1>2, <1>6, EachFollows
<1>9. g[0] = first /\ \A k \in 0 .. n - 1 : g[k + 1] = S!AfterToken(g[k], ts[k + 1])
  <2>1. \A k \in 0 .. n - 1 : g[k] \in ReadSoFar /\ k \in Nat /\ k < n BY <1>1, <1>8
  <2> QED BY <1>7, <1>8, <2>1 DEF Follows
<1>10. \A k \in 0 .. n : g[k] = IF k = 0 THEN first ELSE S!AfterToken(g[k - 1], ts[k])
  <2> TAKE k \in 0 .. n
  <2>1. CASE k = 0 BY <1>9, <2>1
  <2>2. CASE k # 0
    <3>1. k - 1 \in 0 .. n - 1 /\ (k - 1) + 1 = k BY <1>1, <2>2
    <3> QED BY <1>9, <2>2, <3>1
  <2> QED BY <2>1, <2>2
<1>11. g = [k \in 0 .. n |-> IF k = 0 THEN first ELSE S!AfterToken(g[k - 1], ts[k])]
  BY <1>8, <1>10
<1>12. upTo = [k \in 0 .. n |-> IF k = 0 THEN first ELSE S!AfterToken(upTo[k - 1], ts[k])]
  BY <1>11 DEF upTo
<1>13. upTo[0] = first BY <1>1, <1>12
<1>14. ASSUME NEW k \in Nat, k < n PROVE upTo[k + 1] = S!AfterToken(upTo[k], ts[k + 1])
  <2>1. k + 1 \in 0 .. n /\ k + 1 # 0 /\ (k + 1) - 1 = k BY <1>1, <1>14
  <2> QED BY <1>12, <2>1
<1> DEFINE P == {k \in Nat : k <= n => upTo[k] \in ReadSoFar /\ WordsHold(upTo[k].words, ts, k)}
<1>15. 0 \in P
  <2>1. NumbersUpTo(ts, 0) = {} BY DEF NumbersUpTo
  <2>2. first.words = << >> BY DEF first
  <2> DEFINE Row == Seq(Spelling)
  <2> HIDE DEF Row
  <2>3. << >> \in Seq(Row) /\ Len(<< >>) = 0 BY EmptySeq
  <2>4. WordsHold(<< >>, ts, 0) BY <2>1, <2>3 DEF WordsHold, Row
  <2> QED BY <1>2, <1>13, <2>2, <2>4
<1>16. \A k \in Nat : k \in P => k + 1 \in P
  <2> SUFFICES ASSUME NEW k \in Nat, k \in P, k + 1 <= n
               PROVE  upTo[k + 1] \in ReadSoFar /\ WordsHold(upTo[k + 1].words, ts, k + 1)
    OBVIOUS
  <2>1. k < n /\ k <= n BY <1>1
  <2>2. upTo[k] \in ReadSoFar /\ WordsHold(upTo[k].words, ts, k) BY <2>1
  <2> DEFINE x == upTo[k]
             y == upTo[k + 1]
             t == ts[k + 1]
  <2>3. y = S!AfterToken(x, t) /\ IsToken(t) BY <1>4, <1>14, <2>1
  <2> HIDE DEF P
  <2>4. x \in ReadSoFar /\ WordsHold(x.words, ts, k) BY <2>2
  <2>5. /\ t.kind = "number" => ts[k + 1].kind = "number"
        /\ t.kind # "number" => ts[k + 1].kind # "number"
        /\ \A w : Encodes(w, t) => Encodes(w, ts[k + 1])
    OBVIOUS
  <2> HIDE DEF x, y, t
  <2>6. /\ y \in ReadSoFar
        /\ t.kind # "number" => y.words = x.words
        /\ t.kind = "number" => \E w \in Seq(Spelling) : Encodes(w, t) /\ y.words = Append(x.words, w)
    BY <2>3, <2>4, AfterTokenIs
  <2>7. WordsHold(y.words, ts, k + 1)
    <3>1. CASE t.kind = "number"
      <4>1. PICK w \in Seq(Spelling) : Encodes(w, t) /\ y.words = Append(x.words, w)
        BY <2>6, <3>1
      <4> DEFINE ws == x.words
      <4>2. WordsHold(ws, ts, k) BY <2>4
      <4> HIDE DEF ws
      <4>3. WordsHold(Append(ws, w), ts, k + 1) BY <2>5, <3>1, <4>1, <4>2, NumberJoins
      <4> QED BY <4>1, <4>3 DEF ws
    <3>2. CASE t.kind # "number"
      <4> DEFINE ws == x.words
      <4>1. WordsHold(ws, ts, k) BY <2>4
      <4> HIDE DEF ws
      <4>2. WordsHold(ws, ts, k + 1) BY <2>5, <3>2, <4>1, OthersPass
      <4> QED BY <2>6, <3>2, <4>2 DEF ws
    <3> QED BY <3>1, <3>2
  <2> QED BY <2>6, <2>7 DEF y
<1> HIDE DEF P
<1>17. n \in P BY <1>1, <1>15, <1>16, Induction
<1>18. WordsHold(upTo[n].words, ts, n) BY <1>1, <1>17 DEF P
<1> QED BY <1>3, <1>18 DEF n

\* The bounds of the zone are the two numbers, in their order.
BoundsAre(zone, ts) ==
  \E i, j \in NumbersUpTo(ts, Len(ts)) :
    /\ i < j /\ NumbersUpTo(ts, Len(ts)) = {i, j}
    /\ zone.start = ts[i].value /\ zone.end = ts[j].value
    /\ zone.start <= zone.end

LEMMA AssignedIs ==
  ASSUME NEW K, NEW ts \in Seq(K), \A i \in 1 .. Len(ts) : IsToken(ts[i]), S!CanAssign(ts, 0)
  PROVE  S!Assigned(ts, 0) \in ZoneRead /\ BoundsAre(S!Assigned(ts, 0), ts)
<1> DEFINE w    == S!Converted(ts, 0)
           n    == Len(ts)
           ns   == NumbersUpTo(ts, n)
           zone == S!Assigned(ts, 0)
<1>1. WordsHold(w, ts, n) BY ConvertedHolds
<1>2. Len(w) = 2 /\ S!Decode(w[1]).line <= S!Decode(w[2]).line BY DEF S!CanAssign
<1>3. zone = [start |-> S!Decode(w[1]).line, end |-> S!Decode(w[2]).line,
              type |-> S!Decode(w[1]).type]
  BY DEF S!Assigned
<1> HIDE DEF w, n, zone
<1>4. PICK i, j \in 1 .. n : /\ i < j /\ ns = {i, j}
                             /\ Encodes(w[1], ts[i]) /\ Encodes(w[2], ts[j])
  BY <1>1, <1>2 DEF WordsHold
<1>5. i \in ns /\ j \in ns BY <1>4
<1>6. IsNumberToken(ts[i]) /\ IsNumberToken(ts[j])
  <2>1. ts[i].kind = "number" /\ ts[j].kind = "number" BY <1>5 DEF NumbersUpTo
  <2>2. IsToken(ts[i]) /\ IsToken(ts[j]) BY DEF n
  <2> QED BY <2>1, <2>2 DEF IsToken, IsNumberToken
<1> HIDE DEF ns
<1>7. CanBeLine(ts[i].value) /\ CanBeLine(ts[j].value) BY <1>6 DEF IsNumberToken
<1> DEFINE x == ts[i].value
           y == ts[j].value
<1>8. PICK s \in S!ZoneType : w[1] = S!Encode(x, s) BY <1>4 DEF Encodes
<1>9. PICK t \in S!ZoneType : w[2] = S!Encode(y, t) BY <1>4 DEF Encodes
<1>10. s \in S!HexDigit /\ t \in S!HexDigit /\ S!FromNibble(s) = s
  BY DEF S!ZoneType, S!HexDigit, S!FromNibble
<1> HIDE DEF x, y
<1>11. CanBeLine(x) /\ CanBeLine(y) BY <1>7 DEF x, y
<1>12. /\ S!Decode(w[1]) = [line |-> x, type |-> S!FromNibble(s)]
       /\ S!Decode(w[2]) = [line |-> y, type |-> S!FromNibble(t)]
  BY <1>8, <1>9, <1>10, <1>11, EncodedReadsBack
<1>13. zone = [start |-> x, end |-> y, type |-> s] /\ x <= y BY <1>2, <1>3, <1>10, <1>12
<1>14. zone \in ZoneRead BY <1>11, <1>13 DEF ZoneRead, CanBeLine
<1>15. zone.start = ts[i].value /\ zone.end = ts[j].value /\ zone.start <= zone.end
  BY <1>13 DEF x, y
<1>16. BoundsAre(zone, ts) BY <1>4, <1>5, <1>15 DEF BoundsAre, ns, n
<1> QED BY <1>14, <1>16 DEF zone

LEMMA LinesReadBack == ASSUME ReadHexWords PROVE HexWordsReadBack'
<1>1. PICK v \in Words, w \in Words :
        LET line == << v, w, w, w, w, v >>
            spelt == [i \in 1 .. 6 |-> Spelt(line[i])]
        IN  Call([op |-> "hexline", words |-> line], S!FromLine(spelt))
  BY DEF ReadHexWords
<1> DEFINE line == << v, w, w, w, w, v >>
           zs   == S!FromLine([i \in 1 .. 6 |-> Spelt(line[i])])
<1>2. call'.op = "hexline" /\ call'.words = line /\ call'.answer = zs BY <1>1 DEF Call
<1>3. \A x \in Words : IsWord(x)
  <2> TAKE x \in Words
  <2>1. x \in [line : 0 .. S!MaxLine, nibble : S!HexDigit, legacy : BOOLEAN]
    BY OperatorsAssumption
  <2>2. S!MaxLine \in Int BY SMT DEF S!MaxLine
  <2>3. x.line \in 0 .. S!MaxLine /\ x.nibble \in S!HexDigit BY <2>1
  <2> QED BY <2>2, <2>3 DEF IsWord, CanBeLine
<1>4. \A i \in 1 .. 6 : line[i] \in Words
  <2> TAKE i \in 1 .. 6
  <2>1. i \in {1, 2, 3, 4, 5, 6} OBVIOUS
  <2> QED BY <2>1
<1>5. \A i \in 1 .. 6 : IsWord(line[i]) BY <1>3, <1>4
<1> HIDE DEF line
<1>6. /\ zs \in [0 .. 2 -> ZoneRead]
      /\ \A z \in 0 .. 2 :
           zs[z] = [start |-> line[2 * z + 1].line, end |-> line[2 * z + 2].line,
                    type |-> S!FromNibble(line[2 * z + 1].nibble)]
  BY <1>5, LineReadsBack
<1> HIDE DEF zs
<1>7. S!FromLine(S!ToLine(zs)) = zs BY <1>6, ZonesReadBack
<1>8. \A i \in 1 .. 6 :
        S!FromNibble(line[i].nibble) = IF line[i].nibble <= 3 THEN line[i].nibble ELSE 0
  <2> TAKE i \in 1 .. 6
  <2>1. line[i].nibble \in 0 .. 15 BY <1>5 DEF IsWord, S!HexDigit
  <2> QED BY <2>1 DEF S!FromNibble, S!ZoneType
<1>9. \A z \in 0 .. 2 :
        LET first == line[2 * z + 1]
        IN  zs[z] = [start |-> first.line, end |-> line[2 * z + 2].line,
                     type |-> IF first.nibble <= 3 THEN first.nibble ELSE 0]
  <2> TAKE z \in 0 .. 2
  <2>1. 2 * z + 1 \in 1 .. 6 OBVIOUS
  <2> QED BY <1>6, <1>8, <2>1
<1> QED BY <1>2, <1>7, <1>9 DEF HexWordsReadBack

LEMMA TokensReadBack == ASSUME ConvertTo PROVE HexWordsReadBack'
<1> DEFINE zones == [z \in 0 .. 2 |-> [start |-> z, end |-> z + 1, type |-> z]]
           Token == [kind : {"number"}, value : Nat]
                      \cup [kind : {"type"}, value : S!ZoneType] \cup {S!Clip}
<1>1. PICK ts \in TokenLists, zone \in 1 .. 3 :
        /\ S!CanConvertTo(ts, zone)
        /\ Call([op |-> "convert", zones |-> zones, tokens |-> ts, zone |-> zone],
                S!AssignTo(zones, ts, zone))
  BY DEF ConvertTo
<1> DEFINE zs  == S!AssignTo(zones, ts, zone)
           new == S!Assigned(ts, 0)
<1>2. /\ call'.op = "convert" /\ call'.tokens = ts /\ call'.zone = zone
      /\ call'.zones = zones /\ call'.answer = zs
  BY <1>1 DEF Call
<1>3. S!CanAssign(ts, 0) BY <1>1 DEF S!CanConvertTo
<1>4. ts \in Seq(Token) BY OperatorsAssumption
<1>5. \A i \in 1 .. Len(ts) : IsToken(ts[i])
  <2> TAKE i \in 1 .. Len(ts)
  <2>1. ts[i] \in Token
    <3> HIDE DEF Token
    <3> QED BY <1>4, ElementOfSeq
  <2>2. ts[i].kind = "number" => ts[i].value <= S!MaxLine
    BY <1>3 DEF S!CanAssign, S!CanConvert
  <2>3. CASE ts[i] \in [kind : {"number"}, value : Nat]
    BY <2>2, <2>3 DEF IsToken, IsNumberToken, CanBeLine
  <2>4. CASE ts[i] \in [kind : {"type"}, value : S!ZoneType] BY <2>4 DEF IsToken
  <2>5. CASE ts[i] = S!Clip BY <2>5 DEF IsToken, S!Clip
  <2> QED BY <2>1, <2>3, <2>4, <2>5
<1> HIDE DEF Token
<1>6. new \in ZoneRead /\ BoundsAre(new, ts) BY <1>3, <1>4, <1>5, AssignedIs
<1> HIDE DEF new
<1>7. zones \in [0 .. 2 -> ZoneRead]
  <2>1. \A z \in 0 .. 3 : CanBeLine(z)
    <3>1. \A z \in 0 .. 3 : z \in Nat /\ z <= S!MaxLine BY SMT DEF S!MaxLine
    <3> QED BY <3>1 DEF CanBeLine
  <2>2. \A z \in 0 .. 2 : z \in S!ZoneType /\ z \in Nat /\ z + 1 \in Nat /\ z \in 0 .. 3
                            /\ z + 1 \in 0 .. 3
    BY DEF S!ZoneType
  <2> QED BY <2>1, <2>2 DEF ZoneRead
<1> DEFINE k == zone - 1
<1>8. k \in 0 .. 2 OBVIOUS
<1>9. zs = [zones EXCEPT ![k] = new] BY DEF S!AssignTo, new
<1> HIDE DEF zones, zs
<1>10. zs \in [0 .. 2 -> ZoneRead] BY <1>6, <1>7, <1>9
<1>11. zs[k] = new /\ \A z \in 0 .. 2 \ {k} : zs[z] = zones[z] BY <1>7, <1>8, <1>9
<1>12. S!FromLine(S!ToLine(zs)) = zs BY <1>10, ZonesReadBack
<1>13. {i \in DOMAIN ts : ts[i].kind = "number"} = NumbersUpTo(ts, Len(ts))
  <2>1. DOMAIN ts = 1 .. Len(ts) BY <1>4, LenProperties
  <2> QED BY <2>1 DEF NumbersUpTo
<1>14. BoundsAre(zs[k], ts) BY <1>6, <1>11
<1> HIDE DEF k
<1>15. k = zone - 1 BY DEF k
<1> QED BY <1>2, <1>11, <1>12, <1>13, <1>14, <1>15 DEF HexWordsReadBack, BoundsAre

\* For every line number a hex-word can hold, both spellings, and tokens in any
\* number and order: decode_hex_word reads what was meant, convert ... to sets the
\* bounds of the one zone in the order of the numbers, and to_line of what was read
\* reads back the same.
THEOREM HexWordsKeepTheirZones == Spec => []HexWordsReadBack
<1>1. Init => HexWordsReadBack BY DEF Init, None, HexWordsReadBack
<1>2. HexWordsReadBack /\ [Next]_call => HexWordsReadBack'
  <2> SUFFICES ASSUME HexWordsReadBack, [Next]_call PROVE HexWordsReadBack'
    OBVIOUS
  <2>1. CASE UNCHANGED call BY <2>1 DEF HexWordsReadBack
  <2>2. CASE ReadHexWords BY <2>2, LinesReadBack
  <2>3. CASE ConvertTo BY <2>3, TokensReadBack
  <2>4. CASE call'.op # "hexline" /\ call'.op # "convert" BY <2>4 DEF HexWordsReadBack
  <2>5. Next => ReadHexWords \/ ConvertTo \/ (call'.op # "hexline" /\ call'.op # "convert")
    BY FilesAreFound
    DEF Next, Call, CompareNumbers, WriteJson, ExpandReference, StoreValue, SaveSchema, StartSchema,
           SearchText, ReplaceRecords, RefuseReplacement, ReadLog
  <2> QED BY <2>1, <2>2, <2>3, <2>4, <2>5
<1> QED BY <1>1, <1>2, PTL DEF Spec
=============================================================================
