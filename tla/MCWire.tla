-------------------------------- MODULE MCWire --------------------------------
(* Small instances of Wire: every operation of every primitive, alone, and   *)
(* pairs of calls that share the stream.                                     *)
EXTENDS Wire

Op(prim, op) ==
  [prim |-> prim, op |-> op, key |-> <<97>>, timeout |-> 300, expired |-> 60, n |-> 0,
   period |-> 0, flag |-> {}, data |-> NoData, wait |-> 3, client |-> 7, version |-> 2,
   parent |-> <<98, 99>>]
Ping == Op("ping", "ping")
With(data) == [Op("lock", "acquire") EXCEPT !.data = data]
Token(period) == [Op("token", "acquire") EXCEPT !.period = period, !.n = 3]

Nested == PipelineData(<<SetData(<<104>>, {PROPERTY}),
                         PipelineData(<<IncrData(-2, {}), UnsetData({})>>, {})>>, {})
Datas == {SetData(<<1, 2, 3>>, {}), SetData(<< >>, {}), UnsetData({}), IncrData(-1, {}),
          AppendData(<<5>>, {}), ShiftData(3, {}), PushData(<<6>>, {}), PopData(2, {}), Nested,
          PipelineData(<< >>, {}), PipelineData(<<SetData(<<1>>, {}), PipelineData(<< >>, {})>>, {}),
          ExecuteData("unlock", AcquirePlain(Handle(Op("lock", "acquire"), Database(0, {}, {}),
                                                    NewId(5)), NewId(6)), {})}

Singles ==
  {Op("lock", op) : op \in {"acquire", "release", "show", "update", "release_head",
                            "to_lock_wait"}}
  \cup {With(data) : data \in Datas}
  \cup {Ping, [With(NoData) EXCEPT !.flag = {CONTAINS_DATA}],
        [With(SetData(<<7>>, {})) EXCEPT !.op = "update"],
        [With(SetData(<<7>>, {})) EXCEPT !.op = "release"],
        [With(NoData) EXCEPT !.key = [i \in 1 .. 17 |-> 96 + i]],
        [Op("priority", "acquire") EXCEPT !.n = 9], Op("reentrant", "acquire"),
        [Op("flow", "acquire") EXCEPT !.n = 2], Op("read", "acquire"),
        [Op("semaphore", "acquire") EXCEPT !.n = 4], Op("semaphore", "release")}
  \cup {Token(period) : period \in {0, 5, 29999, 30000, 30001, 700000000}}
  \cup {[Op("event", op) EXCEPT !.n = n] : op \in {"is_set", "wait", "set", "clear"}, n \in 0 .. 1}
  \cup {Op("group", op) : op \in {"is_set", "wait", "set", "clear", "wakeup"}}
  \cup {Op("tree", op) : op \in {"acquire", "release", "wait"}}
  \cup {Op("leaf", op) : op \in {"acquire", "release", "child", "parent"}}

Pairs == {<<[With(Nested) EXCEPT !.op = "release"], Op("group", "wait")>>}
SmallWorks == {<<single>> : single \in Singles} \cup Pairs

SmallDefaults == {<<{MILLISECOND}, {MILLISECOND}>>}

Entries(kind, entries, property, cut) ==
  [kind |-> kind, entries |-> entries, property |-> property, cut |-> cut]
SmallContents ==
  {Entries("none", << >>, 0, 0), Entries("bytes", <<<<65, 66>>>>, 0, 0),
   Entries("bytes", <<<<65, 255>>>>, 3, 0), Entries("number", <<LE8(513)>>, 2, 5),
   Entries("list", <<<<65>>, << >>, <<66, 67>>, << >>>>, 0, 0),
   Entries("list", <<<<65>>, <<66, 67>>>>, 1, 2),
   Entries("map", <<<<<<97>>, <<1>>>>, <<<<98>>, << >>>>, <<<<97>>, <<2, 3>>>>>>, 2, 0),
   Entries("map", <<<<<<97>>, <<1>>>>, <<<<98>>, <<4>>>>>>, 0, 3),
   Entries("map", <<<<<<200>>, << >>>>>>, 0, 0)}
==============================================================================
