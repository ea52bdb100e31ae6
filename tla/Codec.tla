-------------------------------- MODULE Codec --------------------------------
(***************************************************************************)
(* Commands and their frames (src/protocol/command.rs), responses and how  *)
(* they are decoded (src/protocol/codec.rs, result.rs), and the same       *)
(* frames as the server reads and writes them (docs/Architecture.md, 3).   *)
(* Offsets in comments are those of the code, which count from 0.          *)
(***************************************************************************)
EXTENDS LockResultData

MAGIC == 86
VERSION == 1
HEADER_LEN == 64
INIT == 0
LOCK == 1
UNLOCK == 2
PING == 5
CONTAINS_DATA == 32        \* LOCK_FLAG_ and UNLOCK_FLAG_CONTAINS_DATA
SUCCED == 0

NoData == [variant |-> "none"]

InitCommand(request, client) == [type |-> INIT, request |-> request, client |-> client]
PingCommand(request) == [type |-> PING, request |-> request]

HasExtraData(c) == CONTAINS_DATA \in c.flag

InitHeader(c) == <<MAGIC, VERSION, INIT>> \o c.request \o c.client \o Zeros(29)
PingHeader(c) == <<MAGIC, VERSION, PING>> \o c.request \o Zeros(45)
LockHeader(c) ==
  <<MAGIC, VERSION, c.type>> \o c.request \o <<Bits(c.flag), c.db>> \o c.id \o c.key
    \o TimeBits(c.timeout) \o TimeBits(c.expired) \o LE2(c.count) \o <<c.rcount>>

\* EncodedCommand; timeout is in seconds, whatever unit the flags ask the server for
Encoded(header, extra, timeout) ==
  [ok |-> TRUE, header |-> header, extra |-> extra, timeout |-> timeout]
EncodeError == [ok |-> FALSE, header |-> << >>, extra |-> << >>, timeout |-> 0]

\* Seeded fault: like INIT and PING, a command with data waits for the grace only.
EncodeLockHasty(c) ==
  IF ~HasExtraData(c) THEN Encoded(LockHeader(c), << >>, c.timeout.value)
  ELSE IF c.data = NoData \/ ~EncodeData(c.data).ok THEN EncodeError
  ELSE Encoded(LockHeader(c), EncodeData(c.data).bytes, 0)

EncodeLock(c) ==
  IF ~HasExtraData(c) THEN Encoded(LockHeader(c), << >>, c.timeout.value)
  ELSE IF c.data = NoData \/ ~EncodeData(c.data).ok THEN EncodeError
  ELSE Encoded(LockHeader(c), EncodeData(c.data).bytes, c.timeout.value)

Encode(c) ==
  CASE c.type = INIT -> Encoded(InitHeader(c), << >>, 0)
    [] c.type = PING -> Encoded(PingHeader(c), << >>, 0)
    [] OTHER         -> EncodeLock(c)

\* LockData::execute keeps the header of the command, and not its data
ExecuteData(stage, c, flags) == NewData(stage, "execute", flags, Encode(c).header)

------------------------------------------------------------------------------
(* Responses *)

Undecodable == [error |-> "Protocol"]

IsValidHeader(h) == At(h, 0) = MAGIC /\ At(h, 1) = VERSION

RequestIdOf(h) == Slice(h, 3, 16)

\* Seeded fault: the two counts of a response are taken for one another.
DecodeLockSwapped(h, data) ==
  [type |-> At(h, 2), request |-> RequestIdOf(h), result |-> At(h, 19),
   flag |-> FlagsOf(Flags8, At(h, 20)), db |-> At(h, 21), id |-> Slice(h, 22, 16),
   key |-> Slice(h, 38, 16), lcount |-> Num2(Slice(h, 56, 2)), count |-> Num2(Slice(h, 54, 2)),
   lrcount |-> At(h, 58), rcount |-> At(h, 59), data |-> data]

DecodeLock(h, data) ==
  [type |-> At(h, 2), request |-> RequestIdOf(h), result |-> At(h, 19),
   flag |-> FlagsOf(Flags8, At(h, 20)), db |-> At(h, 21), id |-> Slice(h, 22, 16),
   key |-> Slice(h, 38, 16), lcount |-> Num2(Slice(h, 54, 2)), count |-> Num2(Slice(h, 56, 2)),
   lrcount |-> At(h, 58), rcount |-> At(h, 59), data |-> data]

\* data is the raw data of a LockResultData, or empty
DecodeResponse(h, data) ==
  IF ~IsValidHeader(h) THEN Undecodable
  ELSE CASE At(h, 2) = INIT -> [type |-> INIT, request |-> RequestIdOf(h),
                                result |-> At(h, 19), initType |-> At(h, 20)]
         [] At(h, 2) = PING -> [type |-> PING, request |-> RequestIdOf(h),
                                result |-> At(h, 19)]
         [] At(h, 2) \in {LOCK, UNLOCK} -> DecodeLock(h, data)
         [] OTHER -> Undecodable

\* Seeded fault: only a response to LOCK is believed to carry data.
ResponseHasExtraDataLock(h) == At(h, 2) = LOCK /\ CONTAINS_DATA \in FlagsOf(Flags8, At(h, 20))

ResponseHasExtraData(h) ==
  At(h, 2) \in {LOCK, UNLOCK} /\ CONTAINS_DATA \in FlagsOf(Flags8, At(h, 20))

------------------------------------------------------------------------------
(* The server's side (external) *)

Garbage == [variant |-> "garbage"]

\* the length of the data at the start of b, or 0 when it is not all there
DataLen(b) == IF Len(b) < 6 \/ Num4(b) < 2 \/ 4 + Num4(b) > Len(b) THEN 0 ELSE 4 + Num4(b)

\* where the k-th item of a pipeline ends, as long as there is another
Cut(b) ==
  LET cut[k \in Nat] ==
        IF k = 0 THEN 0 ELSE LET last == cut[k - 1] IN last + DataLen(Rest(b, last))
  IN  cut
\* the items of a pipeline, and whether something else is left behind them
IsLast(b, k) == DataLen(Rest(b, Cut(b)[k])) = 0
ItemCount(b) == CHOOSE k \in 0 .. Len(b) : IsLast(b, k) /\ \A j \in 0 .. (k - 1) : ~IsLast(b, j)
ItemBytes(b, k) == SubSeq(b, Cut(b)[k - 1] + 1, Cut(b)[k])
Remainder(b) == IF Cut(b)[ItemCount(b)] = Len(b) THEN << >> ELSE <<Garbage>>

\* data by its header
DataAt(b, variant, value, items) ==
  [variant |-> variant, stage |-> b[5] \div 64, type |-> b[5] % 64,
   flags |-> FlagsOf(Flags8, b[6]), value |-> value, items |-> items]

\* data with pipelines that nest at most n deep
ReadTo[n \in Nat] ==
  [b \in Seq(Byte) |->
     IF b[5] % 64 # DataTypes.pipeline THEN DataAt(b, "bytes", Rest(b, 6), << >>)
     ELSE IF n = 0 THEN Garbage
     ELSE DataAt(b, "pipeline", << >>,
                 [k \in 1 .. ItemCount(Rest(b, 6)) |-> ReadTo[n - 1][ItemBytes(Rest(b, 6), k)]]
                   \o Remainder(Rest(b, 6)))]

ReadData(b) == ReadTo[Nesting][b]

\* whether a request is followed by data, and the request
RequestHasData(h) == At(h, 2) \in {LOCK, UNLOCK} /\ CONTAINS_DATA \in FlagsOf(Flags8, At(h, 19))
ReadRequest(h, extra) ==
  CASE At(h, 2) = INIT -> InitCommand(RequestIdOf(h), Slice(h, 19, 16))
    [] At(h, 2) = PING -> PingCommand(RequestIdOf(h))
    [] OTHER -> [type |-> At(h, 2), flag |-> FlagsOf(Flags8, At(h, 19)), db |-> At(h, 20),
                 request |-> RequestIdOf(h), key |-> Slice(h, 37, 16), id |-> Slice(h, 21, 16),
                 timeout |-> TimeOf(Slice(h, 53, 4)), expired |-> TimeOf(Slice(h, 57, 4)),
                 count |-> Num2(Slice(h, 61, 2)), rcount |-> At(h, 63),
                 data |-> IF RequestHasData(h) THEN ReadData(extra) ELSE NoData]

\* a response; payload is stage and type, flags, and the value, or empty for none
ResponseHeader(a) ==
  <<a.magic, VERSION, a.type>> \o a.request \o
  CASE a.type = INIT -> <<a.result, a.initType>> \o Zeros(43)
    [] a.type \in {LOCK, UNLOCK} ->
         <<a.result, Bits(a.flag), a.db>> \o a.id \o a.key \o LE2(a.lcount) \o LE2(a.count)
           \o <<a.lrcount, a.rcount>> \o Zeros(4)
    [] OTHER -> <<a.result>> \o Zeros(44)
ResponseFrame(a) ==
  ResponseHeader(a) \o
  (IF a.type \in {LOCK, UNLOCK} /\ a.payload # << >> THEN LE4(Len(a.payload)) \o a.payload
                                                      ELSE << >>)
==============================================================================
