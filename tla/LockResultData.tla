--------------------------- MODULE LockResultData ---------------------------
(***************************************************************************)
(* LockResultData (src/data/lock_result_data.rs): the data of a response,  *)
(* four zero bytes and the payload, and how it is read as bytes, text,     *)
(* number, list and map. Indices are those of the code, so raw[i] there is *)
(* At(raw, i) here; reading past the end would be a panic of the code and  *)
(* is an error of the checker.                                             *)
(***************************************************************************)
EXTENDS LockData

At(raw, i) == raw[i + 1]
Slice(raw, i, n) == SubSeq(raw, i + 1, i + n)
Rest(raw, i) == SubSeq(raw, i + 1, Len(raw))

\* the value of a failed Result
Malformed == -1

HasFlag(raw, flag) == flag \in FlagsOf(Flags8, At(raw, 5))

Stage(raw) == IF Len(raw) > 4 THEN At(raw, 4) \div 64 ELSE Malformed
CommandType(raw) == IF Len(raw) > 4 THEN At(raw, 4) % 64 ELSE Malformed

ValueOffset(raw) ==
  IF Len(raw) < 6 \/ (HasFlag(raw, PROPERTY) /\ Len(raw) < 8) THEN Malformed
  ELSE IF HasFlag(raw, PROPERTY) THEN 8 + Num2(Slice(raw, 6, 2))
  ELSE 6

\* None and the empty value are the same to a caller of as_string
AsBytes(raw) ==
  LET offset == ValueOffset(raw)
  IN  IF offset = Malformed \/ Len(raw) <= offset THEN << >> ELSE Rest(raw, offset)

AsString(raw) ==
  IF ValueOffset(raw) = Malformed \/ ~IsUtf8(AsBytes(raw)) THEN LockDataError
  ELSE Ok(AsBytes(raw))

\* the eight bytes of the number, those that are missing zero
AsI64(raw) ==
  LET b == AsBytes(raw) IN [i \in 1 .. 8 |-> IF i <= Len(b) THEN b[i] ELSE 0]

IsValue(raw, flag) ==
  Len(raw) >= 6 /\ At(raw, 4) # DataTypes.unset /\ HasFlag(raw, flag)

OkList(list) == [ok |-> TRUE, list |-> list]
ListError == [ok |-> FALSE, list |-> << >>]

\* Seeded fault: the loop stops one byte early.
AnotherLengthStrict(raw, i) == i + 4 < Len(raw)

AnotherLength(raw, i) == i + 4 <= Len(raw)

\* from[i] is the list from index i on; an empty value is passed over
AsList(raw) ==
  LET from[i \in Nat] ==
        IF ~AnotherLength(raw, i) THEN OkList(<< >>)
        ELSE LET n == Num4(Slice(raw, i, 4))
                 rest == from[i + 4 + n]
             IN  IF n = 0 THEN rest
                 ELSE IF i + 4 + n > Len(raw) \/ ~rest.ok THEN ListError
                 ELSE OkList(<<Slice(raw, i + 4, n)>> \o rest.list)
  IN  IF ~IsValue(raw, ARRAY) THEN OkList(<< >>)
      ELSE IF ValueOffset(raw) = Malformed THEN ListError
      ELSE from[ValueOffset(raw)]

OkMap(map) == [ok |-> TRUE, map |-> map]
MapError == [ok |-> FALSE, map |-> << >>]

\* value is inserted before what map has for key, if it has anything
Under(map, key, value) ==
  [k \in DOMAIN map \cup {key} |-> IF k \in DOMAIN map THEN map[k] ELSE value]

\* from[i] is the map from index i on: an empty key or value is passed over, and
\* a later value replaces an earlier one
AsMap(raw) ==
  LET from[i \in Nat] ==
        IF ~AnotherLength(raw, i) THEN OkMap(<< >>)
        ELSE LET k == Num4(Slice(raw, i, 4))
                 j == i + 4 + k                    \* where the length of the value is
             IN  IF k = 0 THEN from[i + 4]
                 ELSE IF j > Len(raw) \/ ~IsUtf8(Slice(raw, i + 4, k)) \/ j + 4 > Len(raw)
                 THEN MapError
                 ELSE LET n == Num4(Slice(raw, j, 4))
                          rest == from[j + 4 + n]
                      IN  IF n = 0 THEN rest
                          ELSE IF j + 4 + n > Len(raw) \/ ~rest.ok THEN MapError
                          ELSE OkMap(Under(rest.map, Slice(raw, i + 4, k), Slice(raw, j + 4, n)))
  IN  IF ~IsValue(raw, KV) THEN OkMap(<< >>)
      ELSE IF ValueOffset(raw) = Malformed THEN MapError
      ELSE from[ValueOffset(raw)]
==============================================================================
