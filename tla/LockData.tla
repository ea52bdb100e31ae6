------------------------------ MODULE LockData ------------------------------
(***************************************************************************)
(* LockData (src/data/lock_data.rs): the data a lock command carries. A    *)
(* command on the value of the lock, or a pipeline of such commands.       *)
(***************************************************************************)
EXTENDS Bytes

CONSTANT Nesting    \* how deep the callers nest pipelines

ASSUME NestingAssumption == Nesting \in Nat

Stages == [current |-> 0, unlock |-> 1, timeout |-> 2, expired |-> 3]
DataTypes == [set |-> 0, unset |-> 1, incr |-> 2, append |-> 3, shift |-> 4,
              execute |-> 5, pipeline |-> 6, push |-> 7, pop |-> 8]
NUMBER == 1
ARRAY == 2
KV == 4
PROPERTY == 16

\* what encoding returns
Ok(bytes) == [ok |-> TRUE, bytes |-> bytes]
LockDataError == [ok |-> FALSE, bytes |-> << >>]

NewData(stage, type, flags, value) ==
  [variant |-> "bytes", stage |-> Stages[stage], type |-> DataTypes[type], flags |-> flags,
   value |-> value, items |-> << >>]

SetData(value, flags) == NewData("current", "set", flags, value)
UnsetData(flags) == NewData("current", "unset", flags, << >>)
IncrData(n, flags) == NewData("current", "incr", flags \cup {NUMBER}, LE8(n))
AppendData(value, flags) == NewData("current", "append", flags, value)
ShiftData(length, flags) == NewData("current", "shift", flags \cup {NUMBER}, LE4(length))
PushData(value, flags) == NewData("current", "push", flags, value)
PopData(count, flags) == NewData("current", "pop", flags \cup {NUMBER}, LE4(count))
PipelineData(items, flags) ==
  [NewData("current", "pipeline", flags, << >>) EXCEPT !.variant = "pipeline", !.items = items]

\* length of the rest, stage and type in one byte, flags, value
DataFrame(d, value) ==
  LE4(Len(value) + 2) \o <<((d.stage * 64) % 256) + (d.type % 64), Bits(d.flags)>> \o value

\* the length is a u32
Framed(d, value) ==
  IF ExceedsU32(Len(value) + 2) THEN LockDataError ELSE Ok(DataFrame(d, value))

\* the data there is, with pipelines that nest at most n deep; new() would also make
\* bytes of the type of a pipeline, which nobody could tell from one
BytesData ==
  [variant : {"bytes"}, stage : 0 .. 3, type : (0 .. 8) \ {DataTypes.pipeline},
   flags : SUBSET Flags8, value : Seq(Byte), items : {<< >>}]
Pipelines(datas) ==
  [variant : {"pipeline"}, stage : 0 .. 3, type : {DataTypes.pipeline}, flags : SUBSET Flags8,
   value : {<< >>}, items : Seq(datas)]
LockDatas[n \in Nat] ==
  IF n = 0 THEN BytesData ELSE BytesData \cup Pipelines(LockDatas[n - 1])

EncodeTo[n \in Nat] ==
  [d \in LockDatas[n] |->
     IF d.variant = "bytes" THEN Framed(d, d.value)
     ELSE IF d.items = << >> \/ \E i \in DOMAIN d.items : ~EncodeTo[n - 1][d.items[i]].ok
     THEN LockDataError
     ELSE Framed(d, FlattenSeq([i \in DOMAIN d.items |-> EncodeTo[n - 1][d.items[i]].bytes]))]

EncodeData(d) == EncodeTo[Nesting][d]
==============================================================================
