-------------------------------- MODULE Wire --------------------------------
(***************************************************************************)
(* One connection at the level of bytes: what the callers of primitives    *)
(* ask for goes through command, frame and stream to the server, which     *)
(* reads frames by the rules of docs/Architecture.md, and its answers come *)
(* back through stream, reader thread and decoder to the call they belong  *)
(* to. Timeouts, losses and close are left to BlockingConnection; here the *)
(* question is whether both ends agree on where a frame ends and on what   *)
(* it says.                                                                *)
(***************************************************************************)
EXTENDS Commands

CONSTANTS
  Callers,    \* the calls, numbers
  Works,      \* the workloads: functions from some callers to operations (see Commands)
  Defaults,   \* what default flags the shared database may get, as pairs
  Codes,      \* result codes the server may answer with
  Contents,   \* the data it may attach, see Payload
  Grace       \* command_timeout_grace, in seconds

ASSUME WireAssumption ==
  /\ \A c \in Callers : c \in Nat \ {0} /\ IsCount(10 * c + 3)
  /\ \A w \in Works : DOMAIN w \subseteq Callers /\ \A c \in DOMAIN w : w[c] \in Operation
  /\ Defaults \subseteq (SUBSET Flags16) \X (SUBSET Flags16)
  /\ Codes \subseteq Byte /\ Grace \in Nat

VARIABLES
  work,               \* of each caller: its operation
  opening,            \* where open() is: "start", "sent", "open", "failed"
  defaults,           \* Database.default_timeout_flags, default_expired_flags
  at,                 \* of each caller: where its operation is
  made,               \* of each caller: the defaults when its primitive was made
  lock, cmd, frame,   \* of each caller: Handle, LockCommand, EncodedCommand
  pending,            \* the callers whose request id is in Connection.pending
  toServer, toClient, \* the bytes on their way
  sent, heard,        \* the requests put on the wire, and those the server read
  said,               \* its answers
  reader,             \* of the reader thread: what it reads next, and what it has
  result              \* of each caller: what its call returned

callVars == <<work, made, lock, cmd, frame, result>>
vars == <<callVars, opening, defaults, at, pending, toServer, toClient, sent, heard, said, reader>>

Nothing == [none |-> TRUE]
NoHeader == [next |-> "header", header |-> << >>, need |-> 0]

InitRequest == InitCommand(NewId(1), NewId(2))
RequestId(c) == NewId(10 * c + 1)

Init ==
  /\ work \in Works
  /\ opening = "start"
  /\ defaults = <<{}, {}>>
  /\ at = [c \in Callers |-> "start"]
  /\ made = [c \in Callers |-> <<{}, {}>>]
  /\ lock = [c \in Callers |-> Nothing]
  /\ cmd = [c \in Callers |-> Nothing]
  /\ frame = [c \in Callers |-> Nothing]
  /\ pending = {}
  /\ toServer = << >> /\ toClient = << >>
  /\ sent = << >> /\ heard = << >> /\ said = << >>
  /\ reader = NoHeader
  /\ result = [c \in Callers |-> Nothing]

(***************************************************************************)
(* open(): INIT and its answer, before there is a reader.                  *)
(***************************************************************************)
OpenSend ==
  /\ opening = "start"
  /\ opening' = "sent"
  /\ toServer' = Encode(InitRequest).header
  /\ sent' = <<InitRequest>>
  /\ UNCHANGED <<callVars, defaults, at, pending, toClient, heard, said, reader>>

OpenReceive ==
  /\ opening = "sent"
  /\ Len(toClient) >= HEADER_LEN
  /\ LET answer == DecodeResponse(SubSeq(toClient, 1, HEADER_LEN), << >>)
     IN  opening' = IF answer # Undecodable /\ answer.result = SUCCED /\ answer.type = INIT
                    THEN "open" ELSE "failed"
  /\ toClient' = Rest(toClient, HEADER_LEN)
  /\ UNCHANGED <<callVars, defaults, at, pending, toServer, sent, heard, said, reader>>

(***************************************************************************)
(* A caller makes its primitive, perhaps before the user changes the       *)
(* defaults of the database they share, and calls one of its methods.      *)
(***************************************************************************)
\* (bound: once, and while a primitive is yet to be made or used)
SetDefaults ==
  /\ defaults = <<{}, {}>>
  /\ \E c \in DOMAIN work : at[c] \in {"start", "made"}
  /\ defaults' \in Defaults
  /\ UNCHANGED <<callVars, opening, at, pending, toServer, toClient, sent, heard, said, reader>>

TheDatabase(flags) == Database(0, flags[1], flags[2])

Create(c) ==
  /\ at[c] = "start" /\ opening = "open"
  /\ at' = [at EXCEPT ![c] = "made"]
  /\ made' = [made EXCEPT ![c] = defaults]
  /\ lock' = [lock EXCEPT ![c] = IF work[c].prim = "ping" THEN Nothing
                                 ELSE Handle(work[c], TheDatabase(defaults), NewId(10 * c + 2))]
  /\ UNCHANGED <<work, cmd, frame, result, opening, defaults, pending, toServer, toClient, sent,
                 heard, said, reader>>

\* the command is made and encoded, and the call registered, or refused
Call(c) ==
  /\ at[c] = "made"
  /\ LET command == CommandOf(work[c], TheDatabase(defaults), lock[c], NewId(10 * c + 3),
                              RequestId(c))
         encoded == Encode(command)
     IN  /\ cmd' = [cmd EXCEPT ![c] = command]
         /\ frame' = [frame EXCEPT ![c] = encoded]
         /\ IF encoded.ok
            THEN /\ at' = [at EXCEPT ![c] = "send"]
                 /\ pending' = pending \cup {c}
                 /\ UNCHANGED result
            ELSE /\ at' = [at EXCEPT ![c] = "done"]
                 /\ result' = [result EXCEPT ![c] = [error |-> "LockData"]]
                 /\ UNCHANGED pending
  /\ UNCHANGED <<work, made, lock, opening, defaults, toServer, toClient, sent, heard, said,
                 reader>>

\* Seeded fault: the writer is free between a header and its data.
WriterFreeEarly == TRUE
\* the guard of writer is held over both writes of a frame
WriterFree == \A c \in Callers : at[c] # "extra"

WriteHeader(c) ==
  /\ at[c] = "send" /\ WriterFree
  /\ at' = [at EXCEPT ![c] = IF frame[c].extra = << >> THEN "wait" ELSE "extra"]
  /\ toServer' = toServer \o frame[c].header
  /\ sent' = Append(sent, cmd[c])
  /\ UNCHANGED <<callVars, opening, defaults, pending, toClient, heard, said, reader>>

WriteExtra(c) ==
  /\ at[c] = "extra"
  /\ at' = [at EXCEPT ![c] = "wait"]
  /\ toServer' = toServer \o frame[c].extra
  /\ UNCHANGED <<callVars, opening, defaults, pending, toClient, sent, heard, said, reader>>

(***************************************************************************)
(* The reader thread: a header, and if it says so a length and a payload;  *)
(* then the call that the request id names gets what was decoded.          *)
(***************************************************************************)
Reads(what, n) == opening = "open" /\ reader.next = what /\ Len(toClient) >= n

ReadHeader ==
  /\ Reads("header", HEADER_LEN)
  /\ LET h == SubSeq(toClient, 1, HEADER_LEN)
     IN  reader' = [next |-> IF ResponseHasExtraData(h) THEN "length" ELSE "deliver",
                    header |-> h, need |-> 0]
  /\ toClient' = Rest(toClient, HEADER_LEN)
  /\ UNCHANGED <<callVars, opening, defaults, at, pending, toServer, sent, heard, said>>

ReadLength ==
  /\ Reads("length", 4)
  /\ reader' = [reader EXCEPT !.next = "payload", !.need = Num4(toClient)]
  /\ toClient' = Rest(toClient, 4)
  /\ UNCHANGED <<callVars, opening, defaults, at, pending, toServer, sent, heard, said>>

\* Also the decoding and the delivery of what was read.
Deliver(data) ==
  LET h == reader.header
  IN  /\ pending' = {c \in pending : RequestId(c) # RequestIdOf(h)}
      /\ result' = [c \in Callers |-> IF c \in pending /\ RequestId(c) = RequestIdOf(h)
                                      THEN DecodeResponse(h, data) ELSE result[c]]
      /\ at' = [c \in Callers |-> IF c \in pending /\ RequestId(c) = RequestIdOf(h)
                                  THEN "done" ELSE at[c]]
      /\ reader' = NoHeader
      /\ UNCHANGED <<work, made, lock, cmd, frame, opening, defaults, toServer, sent, heard, said>>

DeliverPayload ==
  /\ Reads("payload", reader.need)
  /\ Deliver(Zeros(4) \o SubSeq(toClient, 1, reader.need))
  /\ toClient' = Rest(toClient, reader.need)

DeliverHeader ==
  /\ reader.next = "deliver"
  /\ Deliver(<< >>)
  /\ UNCHANGED toClient

(***************************************************************************)
(* The server (external): it reads a frame once all of it is there, and    *)
(* answers what it has read in any order. An answer may be spoilt.         *)
(***************************************************************************)
FrameLen ==
  IF Len(toServer) < HEADER_LEN THEN 0
  ELSE IF ~RequestHasData(toServer) THEN HEADER_LEN
  ELSE IF DataLen(Rest(toServer, HEADER_LEN)) = 0 THEN 0
  ELSE HEADER_LEN + DataLen(Rest(toServer, HEADER_LEN))

ServerReads ==
  /\ FrameLen > 0
  /\ heard' = Append(heard, ReadRequest(SubSeq(toServer, 1, HEADER_LEN),
                                        SubSeq(toServer, HEADER_LEN + 1, FrameLen)))
  /\ toServer' = Rest(toServer, FrameLen)
  /\ UNCHANGED <<callVars, opening, defaults, at, pending, toClient, sent, said, reader>>

(* The data of a response: bytes, a number, a list or a map, behind a      *)
(* property or not, and perhaps cut short.                                 *)
Item(b) == LE4(Len(b)) \o b
ItemOf(content, i) ==
  IF content.kind = "map" THEN Item(content.entries[i][1]) \o Item(content.entries[i][2])
  ELSE IF content.kind = "list" THEN Item(content.entries[i]) ELSE content.entries[i]
ValueOf(content) == FlattenSeq([i \in DOMAIN content.entries |-> ItemOf(content, i)])
ContentFlags(content) ==
  (CASE content.kind = "list" -> {ARRAY} [] content.kind = "map" -> {KV}
     [] content.kind = "number" -> {NUMBER} [] OTHER -> {})
  \cup (IF content.property > 0 THEN {PROPERTY} ELSE {})
Payload(content) ==
  IF content.kind = "none" THEN << >>
  ELSE LET value == ValueOf(content)
       IN  <<DataTypes.set, Bits(ContentFlags(content))>>
           \o (IF content.property > 0 THEN LE2(content.property) \o Zeros(content.property)
                                       ELSE << >>)
           \o SubSeq(value, 1, Len(value) - content.cut)

\* what the server may put there: a map has no empty key (as_map would pass over it,
\* but not over the value behind it); lengths go into four bytes
EntriesOf(kind) ==
  IF kind = "map" THEN Seq((Seq(Byte) \ {<< >>}) \X Seq(Byte)) ELSE Seq(Seq(Byte))
ASSUME ContentsAssumption ==
  \A x \in Contents :
    /\ x.kind \in {"none", "bytes", "number", "list", "map"} /\ x.entries \in EntriesOf(x.kind)
    /\ x.property \in 0 .. U16MAX /\ x.cut \in 0 .. Len(ValueOf(x))
    /\ x.kind = "number" => Len(ValueOf(x)) <= 8
    /\ ~ExceedsU32(Len(ValueOf(x))) /\ ~ExceedsU32(Len(Payload(x)))

Answer(q, code, content, spoilt) ==
  LET magic == IF spoilt = "magic" THEN 0 ELSE MAGIC
      type == IF spoilt = "type" THEN 9 ELSE q.type
  IN  IF q.type \in {LOCK, UNLOCK}
      THEN [magic |-> magic, type |-> type, request |-> q.request, result |-> code,
            content |-> content, payload |-> Payload(content),
            flag |-> IF content.kind = "none" THEN {} ELSE {CONTAINS_DATA}, db |-> q.db,
            id |-> q.id, key |-> q.key, lcount |-> 513, count |-> q.count, lrcount |-> 3,
            rcount |-> q.rcount]
      ELSE [magic |-> magic, type |-> type, request |-> q.request, result |-> code,
            content |-> content, payload |-> Payload(content), initType |-> 4]

ServerAnswers ==
  \E i \in DOMAIN heard, code \in Codes, content \in Contents, spoilt \in {"no", "magic", "type"} :
    /\ \A j \in DOMAIN said : said[j].request # heard[i].request
    /\ content.kind = "none" \/ heard[i].type \in {LOCK, UNLOCK}
    /\ spoilt = "no" \/ (content.kind = "none" /\ code = SUCCED)
    /\ LET answer == Answer(heard[i], code, content, spoilt)
       IN  /\ said' = Append(said, answer)
           /\ toClient' = toClient \o ResponseFrame(answer)
    /\ UNCHANGED <<callVars, opening, defaults, at, pending, toServer, sent, heard, reader>>

------------------------------------------------------------------------------
CallerStep(c) == Create(c) \/ Call(c) \/ WriteHeader(c) \/ WriteExtra(c)
ReaderStep == ReadHeader \/ ReadLength \/ DeliverPayload \/ DeliverHeader
ServerStep == ServerReads \/ ServerAnswers
OpenStep == OpenSend \/ OpenReceive

Next == OpenStep \/ SetDefaults \/ (\E c \in DOMAIN work : CallerStep(c)) \/ ReaderStep \/ ServerStep

Spec == Init /\ [][Next]_vars

\* The reader thread runs; the server need not answer.
FairSpec == Spec /\ WF_vars(ReaderStep)

------------------------------------------------------------------------------
(* Properties *)

\* The server reads the commands that were written, in their order, each with its own
\* data down to the items of a pipeline, and between two frames it is never left with
\* a part of one: the two ends agree on where a frame ends.
ServerInStep ==
  /\ IsPrefix(heard, sent)
  /\ (\A c \in Callers : at[c] # "extra") /\ toServer # << >> => FrameLen > 0

\* What a call should get for an answer, field by field.
Meant(a) ==
  IF a.magic # MAGIC \/ a.type \notin {LOCK, UNLOCK, PING} THEN Undecodable
  ELSE IF a.type = PING THEN [type |-> PING, request |-> a.request, result |-> a.result]
  ELSE [type |-> a.type, request |-> a.request, result |-> a.result, flag |-> a.flag, db |-> a.db,
        id |-> a.id, key |-> a.key, lcount |-> a.lcount, count |-> a.count,
        lrcount |-> a.lrcount, rcount |-> a.rcount,
        data |-> IF a.payload = << >> THEN << >> ELSE Zeros(4) \o a.payload]

\* A call returns what the server answered to it and to no other, whatever data came
\* with the answers before it; it is told of an answer that cannot be decoded.
AnswersReadBack ==
  \A c \in Callers : at[c] = "done" =>
    \/ ~frame[c].ok /\ result[c] = [error |-> "LockData"]
    \/ \E i \in DOMAIN said : said[i].request = RequestId(c) /\ result[c] = Meant(said[i])

\* An answer on its way, behind whatever data and behind spoilt ones, ends its call.
AnsweredCallsReturn ==
  \A c \in Callers :
    (opening = "open" /\ \E i \in DOMAIN said : said[i].request = RequestId(c)) ~> at[c] = "done"

\* The entries of a list or a map that were not cut, and how much is left behind them.
Kept(content) == Len(ValueOf(content)) - content.cut
Size(content, k) == Len(FlattenSeq([i \in 1 .. k |-> ItemOf(content, i)]))
WholeEntries(content) ==
  Max({k \in 0 .. Len(content.entries) : Size(content, k) <= Kept(content)})
IsTorn(content) == Kept(content) - Size(content, WholeEntries(content)) >= 4

\* the values that are not empty
ListMeant(content) ==
  LET values == content.entries
      some(i) == IF values[i] = << >> THEN << >> ELSE <<values[i]>>
  IN  IF IsTorn(content) THEN ListError
      ELSE OkList(FlattenSeq([i \in 1 .. WholeEntries(content) |-> some(i)]))
\* of each key the last value that is not empty
MapMeant(content) ==
  LET key(i) == content.entries[i][1]
      value(i) == content.entries[i][2]
      whole == 1 .. WholeEntries(content)
      some == {i \in whole : value(i) # << >>}
      last(k) == Max({i \in some : key(i) = k})
  IN  IF IsTorn(content) \/ \E i \in whole : ~IsUtf8(key(i)) THEN MapError
      ELSE OkMap([k \in {key(i) : i \in some} |-> value(last(k))])

\* Data is read for what the server put there, also behind a property: a list or map
\* without its empty values, an error when it ends within an entry; a number with the
\* bytes that are missing zero; and nothing is a list or a map that was not sent as one.
DataReadBack ==
  \A c \in Callers, i \in DOMAIN said :
    (/\ at[c] = "done" /\ said[i].request = RequestId(c) /\ said[i].payload # << >>) =>
      LET raw == result[c].data
          content == said[i].content
          value == SubSeq(ValueOf(content), 1, Kept(content))
      IN  /\ AsList(raw) = IF content.kind = "list" THEN ListMeant(content) ELSE OkList(<< >>)
          /\ AsMap(raw) = IF content.kind = "map" THEN MapMeant(content) ELSE OkMap(<< >>)
          /\ content.kind = "number" => AsI64(raw) = value \o Zeros(8 - Len(value))
          /\ content.kind = "bytes" =>
               AsString(raw) = IF IsUtf8(value) THEN Ok(value) ELSE LockDataError
          /\ Stage(raw) = Stages.current /\ CommandType(raw) = DataTypes.set

\* The time a server takes from the value and the flags of a time, in milliseconds.
Milliseconds(time) ==
  time.value * (IF MILLISECOND \in time.flags THEN 1 ELSE IF MINUTE \in time.flags THEN 60000
                                                     ELSE 1000)

\* A client waits for the answer to a lock command at least as long as the server may
\* wait for the lock, unless the time is in minutes (the client counts them as seconds).
WaitsLongEnough ==
  \A c \in Callers, i \in DOMAIN heard :
    heard[i].request = RequestId(c) /\ heard[i].type = LOCK /\ MINUTE \notin heard[i].timeout.flags
      => (frame[c].timeout + Grace) * 1000 >= Milliseconds(heard[i].timeout)

\* the milliseconds of v in the unit that a pair of default flags says, first or second half
In(v, flags) == Milliseconds(WithFlags(v, flags))

\* How long a token of a period (in tenths of a millisecond) stays, by the expired time the
\* server reads: rounded up, below three seconds to the millisecond, from there on to the
\* second, u16::MAX of them at most. But the server counts those seconds in the unit of the
\* database's default expired flags: MILLISECOND makes milliseconds of them, MINUTE minutes.
TokenStays(period, flags, expired) ==
  LET n == expired.value
      unit == In(1, expired.flags)
  IN  IF period < 30000
      THEN unit = 1 /\ n * 10 >= period /\ n > 0 /\ (n * 10 < period + 10 \/ period = 0)
      ELSE /\ unit = In(1, flags)
           /\ n * 10000 >= period \/ n = U16MAX
           /\ n * 10000 < period + 10000

\* Of request q of caller c: the times that the server takes from it.
TimesKept(c, q) ==
  LET o == work[c]
      expiry == Milliseconds(q.expired)
      asked == IF o.op = "wait" THEN o.wait
               ELSE IF o.op \in {"is_set", "child", "parent"} THEN 0 ELSE o.timeout
      kept == IF o.op \in {"wait", "is_set"} THEN 0 ELSE o.expired
  IN  /\ Milliseconds(q.timeout) \in
           IF o.prim = "event" /\ o.n # 1 /\ o.op \in {"wait", "is_set"}
           THEN {asked * 1000}
           ELSE {In(asked, made[c][1]), In(asked, defaults[1])}
      /\ o.prim # "token" => expiry \in {In(kept, made[c][2]), In(kept, defaults[2])}
      /\ o.prim = "token" => TokenStays(o.period, made[c][2], q.expired)

\* The server counts times in the unit of the database, as it was when the primitive was
\* made or when it was called, and keeps a token as TokenStays says, for every period and
\* all default flags. Two things have units of their own: the probes of an event that
\* starts unset (seconds), and tokens of less than three seconds (milliseconds: a server
\* that finds both unit flags in a time is taken to go by MILLISECOND). Only the expiry
\* of the one command that is sent is meant here: docs/Architecture.md:686 and
\* design.md:987 have two for a token of three seconds or more, the first with a timeout
\* of zero and until the next boundary of its period. The code sends no such command.
UnitsKept ==
  \A c \in Callers, i \in DOMAIN heard :
    heard[i].request = RequestId(c) /\ heard[i].type \in {LOCK, UNLOCK} => TimesKept(c, heard[i])
==============================================================================
