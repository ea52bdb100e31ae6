------------------------- MODULE AioPrimitives_proofs -------------------------
(***************************************************************************)
(* What is proved of the blocking primitives holds of those of the aio     *)
(* client too, whose callers may drop a call at any of its awaits: each    *)
(* part of the invariant of Primitives_proofs is kept by FutureDropped.    *)
(*                                                                         *)
(* The two promises of a group event follow from one fact: as long as the  *)
(* event stays unset, its lock is ahead of the version a member heard of   *)
(* by exactly the wakeups executed since it heard it.                      *)
(***************************************************************************)
EXTENDS AioPrimitives, Primitives_proofs

Asks == [op : GroupOps, id : (Members \cup {0}) \X Nat, began : Nat]
Marks == [epoch : Int, wakes : Nat]
Results == {"succed", "locked", "timeout", "unlock_error"}
Tolds == [result : Results, id : (Members \cup {0}) \X Nat, mark : Marks]

GroupTypeOK ==
  /\ version \in [Members -> Nat]
  /\ ask \in [Members -> Asks \cup {NoAsk}]
  /\ told \in [Members -> Tolds \cup {NoTold, [result |-> "error"]}]
  /\ gate \in Nat \cup {Free}
  /\ \A x \in lateAsks : x.ask \in Asks
  /\ wakes \in Nat /\ epoch \in Nat
  /\ mark \in [Members -> Marks]

(* The event's lock is ahead of a version by the wakeups since it was said *)
(* - while that clear lasts - and what was said is past.                   *)
Ahead(v, k) == k.epoch = epoch /\ gate # Free => gate - v = wakes - k.wakes
Past(k) == k.epoch =< epoch /\ k.wakes =< wakes

VersionInv == \A m \in Members : Past(mark[m]) /\ Ahead(version[m], mark[m])

(* A member that waits asks for the version it has.                        *)
AskInv ==
  \A m \in Members :
    /\ told[m] # NoTold => ask[m] # NoAsk
    /\ ask[m].op = "wait" => ask[m].id = GroupLockId(m, version[m]) /\ ask[m].began =< wakes
    /\ ask[m].op = "wakeup" => ask[m].id = ZeroLockId

(* An answer names the event's lock as it was then.  A timeout says that   *)
(* the lock was not ahead of the member then, unless a later clear was of  *)
(* the member's version.                                                   *)
ToldInvOf(m) ==
  told[m].result \in Results =>
    /\ Past(told[m].mark)
    /\ mark[m].epoch > told[m].mark.epoch => mark[m].wakes >= told[m].mark.wakes
    /\ HeardOf(m) => Ahead(told[m].id[2], told[m].mark)
    /\ ask[m].op = "wait" /\ told[m].result = "timeout" =>
         /\ ask[m].began =< told[m].mark.wakes
         /\ mark[m].epoch = told[m].mark.epoch => told[m].mark.wakes =< mark[m].wakes

(* A wait that heard of the event's lock had a wakeup to hear of.          *)
OneWaitOf(m) ==
  ask[m].op = "wait" /\ HeardOf(m) /\ told[m].mark.epoch = mark[m].epoch
    => told[m].mark.wakes > mark[m].wakes

ToldInv == \A m \in Members : ToldInvOf(m) /\ OneWaitOf(m)

GroupInv == GroupTypeOK /\ VersionInv /\ AskInv /\ ToldInv

(* Whatever the server executes, a lock stays ahead of a version by the    *)
(* wakeups since that version was said.                                    *)
LEMMA EffectAhead ==
  ASSUME GroupTypeOK, NEW a \in Asks, Effect(a),
         NEW v \in Nat, NEW k \in Marks, Past(k), Ahead(v, k)
  PROVE  (k.epoch =< epoch' /\ k.wakes =< wakes')
         /\ (k.epoch = epoch' /\ gate' # Free => gate' - v = wakes' - k.wakes)
  <1> /\ gate \in Nat \cup {Free} /\ wakes \in Nat /\ epoch \in Nat
      /\ k.epoch \in Int /\ k.wakes \in Nat /\ a.op \in GroupOps
      /\ k.epoch =< epoch /\ k.wakes =< wakes
    BY DEF GroupTypeOK, Marks, Asks, Past
  <1> USE DEF Effect, GateAfter, Ahead, Free, GroupOps
  <1>1. CASE a.op = "clear"
    BY <1>1
  <1>2. CASE a.op = "wakeup"
    BY <1>2
  <1>3. CASE a.op \notin {"clear", "wakeup"}
    BY <1>3
  <1> QED BY <1>1, <1>2, <1>3

(* It keeps the types, and moves a mark to the present only, where the     *)
(* event's lock is the member's version.                                   *)
LEMMA EffectMark ==
  ASSUME GroupTypeOK, NEW a \in Asks, Effect(a)
  PROVE  /\ gate' \in Nat \cup {Free} /\ wakes' \in Nat /\ epoch' \in Nat
         /\ mark' \in [Members -> Marks]
         /\ wakes =< wakes' /\ epoch =< epoch'
         /\ \A m \in Members :
              \/ mark'[m] = mark[m]
              \/ /\ mark'[m] = [epoch |-> epoch', wakes |-> wakes]
                 /\ wakes' = wakes /\ epoch' = epoch + 1 /\ gate' = version[m]
  BY DEF GroupTypeOK, Effect, GateAfter, Asks, Marks, Free, GroupOps

LEMMA EffectVersion ==
  ASSUME GroupTypeOK, VersionInv, NEW a \in Asks, Effect(a), UNCHANGED version
  PROVE  VersionInv'
  <1> SUFFICES ASSUME NEW m \in Members
               PROVE  Past(mark[m])' /\ Ahead(version[m], mark[m])'
    BY DEF VersionInv
  <1>1. CASE mark'[m] = mark[m]
    <2>1. version[m] \in Nat /\ mark[m] \in Marks /\ Past(mark[m]) /\ Ahead(version[m], mark[m])
      BY DEF GroupTypeOK, VersionInv
    <2> QED BY <1>1, <2>1, EffectAhead DEF Past, Ahead
  <1>2. CASE mark'[m] # mark[m]
    <2>1. /\ mark'[m] = [epoch |-> epoch', wakes |-> wakes]
          /\ wakes' = wakes /\ gate' = version[m]
      BY <1>2, EffectMark
    <2> QED BY <2>1, EffectMark DEF Past, Ahead, GroupTypeOK
  <1> QED BY <1>1, <1>2

(* The types of what a member has been told, where it matters.             *)
LEMMA ToldTypes ==
  ASSUME GroupTypeOK, AskInv, NEW m \in Members
  PROVE  /\ told[m].result \in Results => told[m] \in Tolds /\ ask[m] \in Asks
         /\ told[m].result \notin Results => told[m] = NoTold \/ told[m] = [result |-> "error"]
         /\ told[m] # NoTold => ask[m] \in Asks
  <1>1. told[m] \in Tolds \/ told[m] = NoTold \/ told[m] = [result |-> "error"]
    BY DEF GroupTypeOK
  <1>2. told[m] # NoTold => ask[m] \in Asks
    BY DEF GroupTypeOK, AskInv
  <1>3. NoTold.result \notin Results /\ [result |-> "error"].result \notin Results
    BY DEF NoTold, Results
  <1>4. \A t \in Tolds : t.result \in Results
    BY DEF Tolds
  <1> QED BY <1>1, <1>2, <1>3, <1>4

(* What a member was told stays right whatever the server executes then.   *)
LEMMA EffectTold ==
  ASSUME GroupTypeOK, AskInv, NEW a \in Asks, Effect(a), NEW m \in Members,
         ToldInvOf(m), OneWaitOf(m), UNCHANGED <<version, ask>>, told'[m] = told[m]
  PROVE  ToldInvOf(m)' /\ OneWaitOf(m)'
  <1>1. CASE told[m].result \notin Results
    BY <1>1 DEF ToldInvOf, OneWaitOf, HeardOf, Results
  <1>2. CASE told[m].result \in Results
    <2> DEFINE k == told[m].mark
    <2>1. /\ told[m] \in Tolds /\ ask[m] \in Asks /\ k \in Marks /\ told[m].id[2] \in Nat
          /\ ask[m].began \in Nat /\ k.epoch \in Int /\ k.wakes \in Nat
      BY <1>2, ToldTypes DEF Tolds, Asks, Marks
    <2>2. /\ wakes \in Nat /\ epoch \in Nat /\ mark[m] \in Marks /\ mark[m].epoch \in Int
          /\ mark[m].wakes \in Nat /\ k.epoch =< epoch /\ k.wakes =< wakes
      BY <1>2 DEF GroupTypeOK, ToldInvOf, Past, Marks
    <2>3. /\ wakes' \in Nat /\ epoch' \in Nat /\ wakes =< wakes' /\ epoch =< epoch'
          /\ \/ mark'[m] = mark[m]
             \/ /\ mark'[m].epoch = epoch + 1 /\ mark'[m].wakes = wakes /\ wakes' = wakes
                /\ epoch' = epoch + 1
      BY EffectMark
    <2>4. Past(k)'
      BY <2>1, <2>2, <2>3 DEF Past
    <2>5. HeardOf(m)' => Ahead(told[m].id[2], k)'
      <3> SUFFICES ASSUME HeardOf(m)' PROVE Ahead(told[m].id[2], k)'
        OBVIOUS
      <3>1. HeardOf(m)
        BY DEF HeardOf
      <3>2. Past(k) /\ Ahead(told[m].id[2], k)
        BY <1>2, <3>1 DEF ToldInvOf
      <3> QED BY <2>1, <3>2, EffectAhead DEF Ahead
    <2>6. mark'[m].epoch > k.epoch => mark'[m].wakes >= k.wakes
      BY <1>2, <2>1, <2>2, <2>3 DEF ToldInvOf
    <2>7. ask[m].op = "wait" /\ told[m].result = "timeout" =>
            /\ ask[m].began =< k.wakes
            /\ mark'[m].epoch = k.epoch => k.wakes =< mark'[m].wakes
      BY <1>2, <2>1, <2>2, <2>3 DEF ToldInvOf
    <2>8. OneWaitOf(m)'
      BY <2>1, <2>2, <2>3 DEF OneWaitOf, HeardOf
    <2> QED BY <2>4, <2>5, <2>6, <2>7, <2>8 DEF ToldInvOf
  <1> QED BY <1>1, <1>2

(* An answer is right when it is given.                                    *)
LEMMA ExecuteTold ==
  ASSUME GroupInv, NEW m \in Members, GroupExecute(m)
  PROVE  told'[m] \in Tolds /\ ToldInvOf(m)' /\ OneWaitOf(m)'
  <1> DEFINE a == ask[m]
             k == [epoch |-> epoch', wakes |-> wakes']
  <1>1. /\ a \in Asks /\ Effect(a) /\ UNCHANGED <<version, ask>> /\ told'[m] = AnswerTo(a)
        /\ a.op \in GroupOps /\ a.id[2] \in Nat /\ a.id \in (Members \cup {0}) \X Nat
        /\ a.began \in Nat
    BY DEF GroupInv, GroupTypeOK, GroupExecute, Asks
  <1>2. /\ gate \in Nat \cup {Free} /\ gate' \in Nat \cup {Free}
        /\ wakes \in Nat /\ wakes' \in Nat /\ wakes =< wakes' /\ epoch' \in Nat
        /\ version[m] \in Nat /\ mark'[m] \in Marks /\ k \in Marks
    BY <1>1, EffectMark DEF GroupInv, GroupTypeOK, Marks
  <1>3. told'[m].result \in Results /\ told'[m].mark = k
    BY <1>1 DEF AnswerTo, AnswerWithVersion, Says, Results, GroupOps
  <1>4. told'[m] \in Tolds
    BY <1>1, <1>2 DEF AnswerTo, AnswerWithVersion, Says, Tolds, Results, GroupLockId, GateAfter, Effect, Free,
                      GroupOps
  <1>5. VersionInv'
    BY <1>1, EffectVersion DEF GroupInv
  <1>6. mark'[m].epoch =< epoch' /\ mark'[m].wakes =< wakes' /\ mark'[m].epoch \in Int
        /\ mark'[m].wakes \in Nat
    BY <1>2, <1>5 DEF VersionInv, Past, Marks
  <1>7. HeardOf(m)' => gate' # Free /\ told'[m].id = GroupLockId(0, gate')
    <2>1. CASE a.op = "wait"
      BY <1>1, <2>1 DEF HeardOf, AnswerTo, AnswerWithVersion, Says, Effect, GateAfter
    <2>2. CASE a.op = "wakeup"
      BY <1>1, <1>2, <2>2 DEF HeardOf, AnswerTo, AnswerWithVersion, Says, Effect, GateAfter, Free
    <2> QED BY <1>1, <2>1, <2>2 DEF HeardOf
  <1>8. HeardOf(m)' => Ahead(told[m].id[2], told[m].mark)'
    BY <1>2, <1>3, <1>7 DEF Ahead, GroupLockId
  <1>9. ASSUME a.op = "wait"
        PROVE  /\ a.began =< wakes /\ wakes' = wakes /\ gate' = gate /\ a.id[2] = version[m]
               /\ UNCHANGED <<mark, epoch>>
    BY <1>1, <1>9 DEF GroupInv, AskInv, GroupLockId, Effect, GateAfter
  <1>10. ASSUME a.op = "wait", mark[m].epoch = epoch
         PROVE  gate # Free => gate - version[m] = wakes - mark[m].wakes
    BY <1>10 DEF GroupInv, VersionInv, Ahead
  <1>11. a.op = "wait" /\ told'[m].result = "timeout" => gate # Free /\ gate =< version[m]
    BY <1>1, <1>2, <1>9 DEF AnswerTo, AnswerWithVersion, Says, Free
  <1>12. a.op = "wait" /\ HeardOf(m)' => gate # Free /\ gate > version[m]
    BY <1>1, <1>2, <1>9 DEF HeardOf, AnswerTo, AnswerWithVersion, Says, Free
  <1>13. ToldInvOf(m)'
    <2>1. Past(told[m].mark)'
      BY <1>2, <1>3 DEF Past
    <2>2. a.op = "wait" /\ told'[m].result = "timeout" =>
            /\ a.began =< wakes'
            /\ mark'[m].epoch = epoch' => wakes' =< mark'[m].wakes
      BY <1>2, <1>6, <1>9, <1>10, <1>11 DEF Free
    <2>3. ~(mark'[m].epoch > epoch')
      BY <1>2, <1>6
    <2>4. told'[m].mark.epoch = epoch' /\ told'[m].mark.wakes = wakes' /\ ask' = ask
      BY <1>1, <1>3
    <2> HIDE DEF a, k
    <2>5. ask'[m].op = "wait" /\ told'[m].result = "timeout" =>
            /\ ask'[m].began =< told'[m].mark.wakes
            /\ mark'[m].epoch = told'[m].mark.epoch => told'[m].mark.wakes =< mark'[m].wakes
      BY <2>2, <2>4 DEF a
    <2> QED BY <1>8, <2>1, <2>3, <2>4, <2>5 DEF ToldInvOf
  <1>14. OneWaitOf(m)'
    BY <1>1, <1>2, <1>3, <1>6, <1>9, <1>10, <1>12 DEF OneWaitOf, Free
  <1> QED BY <1>4, <1>13, <1>14

(* Where neither the marks nor the server's counts change, what is known   *)
(* stays; the lock may only go away.                                       *)
LEMMA KnownStays ==
  ASSUME VersionInv, UNCHANGED <<version, wakes, epoch, mark>>, gate' \in {gate, Free}
  PROVE  VersionInv'
  BY DEF VersionInv, Past, Ahead, Free

LEMMA ToldStays ==
  ASSUME NEW m \in Members, ToldInvOf(m), OneWaitOf(m), UNCHANGED <<wakes, epoch, mark>>,
         gate' \in {gate, Free}, ask'[m] = ask[m], told'[m] = told[m]
  PROVE  ToldInvOf(m)' /\ OneWaitOf(m)'
  BY DEF ToldInvOf, OneWaitOf, HeardOf, Past, Ahead, Free

LEMMA GroupInvInit == GroupInit => GroupInv
  <1> SUFFICES ASSUME GroupInit PROVE GroupInv
    OBVIOUS
  <1>1. GroupTypeOK
    <2>1. version \in [Members -> Nat]
      BY GroupAssumption DEF GroupInit
    <2>2. [epoch |-> -1, wakes |-> 0] \in Marks
      BY DEF Marks
    <2>3. mark \in [Members -> Marks]
      BY <2>2 DEF GroupInit
    <2> QED BY <2>1, <2>3 DEF GroupInit, GroupTypeOK
  <1>2. VersionInv
    BY DEF GroupInit, VersionInv, Past, Ahead
  <1>3. AskInv /\ ToldInv
    BY DEF GroupInit, AskInv, ToldInv, ToldInvOf, OneWaitOf, HeardOf, NoAsk, NoTold, Results
  <1> QED BY <1>1, <1>2, <1>3 DEF GroupInv

LEMMA GroupInvNext == GroupInv /\ [GroupNext]_groupVars => GroupInv'
  <1> SUFFICES ASSUME GroupInv, [GroupNext]_groupVars PROVE GroupInv'
    OBVIOUS
  <1>0. GroupTypeOK /\ VersionInv /\ AskInv /\ ToldInv
    BY DEF GroupInv
  <1>1. ASSUME NEW m \in Members, NEW op \in GroupOps, GroupBegin(m, op)
        PROVE  GroupInv'
    <2>1. AskId(m, op) \in (Members \cup {0}) \X Nat
      BY <1>0 DEF AskId, GroupLockId, ZeroLockId, WaitVersion, GroupTypeOK
    <2>2. GroupTypeOK'
      BY <1>0, <1>1, <2>1 DEF GroupBegin, GroupTypeOK, Asks
    <2>3. VersionInv'
      BY <1>0, <1>1, KnownStays DEF GroupBegin
    <2>4. AskInv'
      BY <1>0, <1>1 DEF GroupBegin, AskInv, GroupTypeOK, AskId, WaitVersion, GroupOps
    <2>5. told'[m] = NoTold
      BY <1>0, <1>1 DEF GroupBegin, AskInv
    <2>6. ASSUME NEW q \in Members PROVE ToldInvOf(q)' /\ OneWaitOf(q)'
      <3>1. CASE q = m
        BY <2>5, <3>1 DEF ToldInvOf, OneWaitOf, HeardOf, Results, NoTold
      <3>2. CASE q # m
        BY <1>0, <1>1, <3>2, ToldStays DEF GroupBegin, GroupTypeOK, ToldInv
      <3> QED BY <3>1, <3>2
    <2> QED BY <2>2, <2>3, <2>4, <2>6 DEF GroupInv, ToldInv
  <1>2. ASSUME NEW m \in Members, GroupReturn(m)
        PROVE  GroupInv'
    <2>1. TakesVersion(m) <=> HeardOf(m)
      BY <1>0 DEF TakesVersion, HeardOf, AskInv
    <2>2. HeardOf(m) => /\ told[m] \in Tolds /\ told[m].id[2] \in Nat /\ told[m].mark \in Marks
                        /\ Past(told[m].mark) /\ Ahead(told[m].id[2], told[m].mark)
      BY <1>0, ToldTypes DEF HeardOf, Results, Tolds, ToldInv, ToldInvOf
    <2>3. GroupTypeOK'
      BY <1>0, <1>2, <2>1, <2>2 DEF GroupReturn, GroupTypeOK
    <2>4. VersionInv'
      BY <1>0, <1>2, <2>1, <2>2 DEF GroupReturn, GroupTypeOK, VersionInv, Past, Ahead
    <2>5. AskInv'
      BY <1>0, <1>2 DEF GroupReturn, GroupTypeOK, AskInv, NoAsk
    <2>6. ASSUME NEW q \in Members PROVE ToldInvOf(q)' /\ OneWaitOf(q)'
      <3>1. CASE q = m
        BY <1>0, <1>2, <3>1 DEF GroupReturn, GroupTypeOK, ToldInvOf, OneWaitOf, HeardOf,
                                Results, NoTold
      <3>2. CASE q # m
        <4>1. mark'[q] = mark[q] /\ ask'[q] = ask[q] /\ told'[q] = told[q]
          BY <1>0, <1>2, <3>2 DEF GroupReturn, GroupTypeOK
        <4> QED BY <1>0, <1>2, <4>1 DEF GroupReturn, ToldInv, ToldInvOf, OneWaitOf, HeardOf,
                                        Past, Ahead
      <3> QED BY <3>1, <3>2
    <2> QED BY <2>3, <2>4, <2>5, <2>6 DEF GroupInv, ToldInv
  <1>3. ASSUME NEW m \in Members, GroupExecute(m)
        PROVE  GroupInv'
    <2>1. ask[m] \in Asks /\ Effect(ask[m]) /\ UNCHANGED <<version, ask, lateAsks>>
      BY <1>0, <1>3 DEF GroupExecute, GroupTypeOK
    <2>2. told'[m] \in Tolds /\ ToldInvOf(m)' /\ OneWaitOf(m)'
      BY <1>3, ExecuteTold
    <2>3. GroupTypeOK'
      BY <1>0, <1>3, <2>1, <2>2, EffectMark DEF GroupExecute, GroupTypeOK
    <2>4. VersionInv'
      BY <1>0, <2>1, EffectVersion
    <2>5. AskInv'
      <3>1. wakes \in Nat /\ wakes' \in Nat /\ wakes =< wakes'
        BY <1>0, <2>1, EffectMark DEF GroupTypeOK
      <3>2. \A q \in Members : ask[q].op = "wait" => ask[q].began \in Nat
        BY <1>0 DEF GroupTypeOK, Asks, NoAsk
      <3> QED BY <1>0, <1>3, <2>1, <3>1, <3>2 DEF GroupExecute, GroupTypeOK, AskInv
    <2>6. ASSUME NEW q \in Members, q # m PROVE ToldInvOf(q)' /\ OneWaitOf(q)'
      <3>1. told'[q] = told[q]
        BY <1>0, <1>3, <2>6 DEF GroupExecute, GroupTypeOK
      <3> QED BY <1>0, <2>1, <3>1, EffectTold DEF ToldInv
    <2> QED BY <2>2, <2>3, <2>4, <2>5, <2>6 DEF GroupInv, ToldInv
  <1>4. ASSUME NEW m \in Members, GroupGiveUp(m)
        PROVE  GroupInv'
    <2>1. GroupTypeOK'
      BY <1>0, <1>4 DEF GroupGiveUp, GroupTypeOK
    <2>2. VersionInv'
      BY <1>0, <1>4, KnownStays DEF GroupGiveUp
    <2>3. AskInv'
      BY <1>0, <1>4 DEF GroupGiveUp, GroupTypeOK, AskInv
    <2>4. ASSUME NEW q \in Members PROVE ToldInvOf(q)' /\ OneWaitOf(q)'
      <3>1. CASE q = m
        BY <1>0, <1>4, <3>1 DEF GroupGiveUp, GroupTypeOK, ToldInvOf, OneWaitOf, HeardOf, Results
      <3>2. CASE q # m
        BY <1>0, <1>4, <3>2, ToldStays DEF GroupGiveUp, GroupTypeOK, ToldInv
      <3> QED BY <3>1, <3>2
    <2> QED BY <2>1, <2>2, <2>3, <2>4 DEF GroupInv, ToldInv
  <1>5. CASE GroupExecuteLate
    <2> PICK x \in lateAsks : Effect(x.ask) /\ lateAsks' = lateAsks \ {x}
                              /\ UNCHANGED <<version, ask, told>>
      BY <1>5 DEF GroupExecuteLate
    <2>1. x.ask \in Asks
      BY <1>0 DEF GroupTypeOK
    <2>2. GroupTypeOK'
      BY <1>0, <2>1, EffectMark DEF GroupTypeOK
    <2>3. VersionInv'
      BY <1>0, <2>1, EffectVersion
    <2>4. AskInv'
      <3>1. wakes \in Nat /\ wakes' \in Nat /\ wakes =< wakes'
        BY <1>0, <2>1, EffectMark DEF GroupTypeOK
      <3>2. \A q \in Members : ask[q].op = "wait" => ask[q].began \in Nat
        BY <1>0 DEF GroupTypeOK, Asks, NoAsk
      <3> QED BY <1>0, <3>1, <3>2 DEF AskInv
    <2>5. ToldInv'
      BY <1>0, <2>1, EffectTold DEF ToldInv
    <2> QED BY <2>2, <2>3, <2>4, <2>5 DEF GroupInv
  <1>6. CASE GroupExpire
    <2>1. GroupTypeOK' /\ AskInv'
      BY <1>0, <1>6 DEF GroupExpire, GroupTypeOK, AskInv
    <2>2. VersionInv'
      BY <1>0, <1>6, KnownStays DEF GroupExpire
    <2>3. ToldInv'
      BY <1>0, <1>6, ToldStays DEF GroupExpire, ToldInv
    <2> QED BY <2>1, <2>2, <2>3 DEF GroupInv
  <1>7. CASE UNCHANGED groupVars
    <2>1. GroupTypeOK' /\ AskInv'
      BY <1>0, <1>7 DEF groupVars, GroupTypeOK, AskInv
    <2>2. VersionInv'
      BY <1>0, <1>7, KnownStays DEF groupVars
    <2>3. ToldInv'
      BY <1>0, <1>7, ToldStays DEF groupVars, ToldInv
    <2> QED BY <2>1, <2>2, <2>3 DEF GroupInv
  <1> QED BY <1>1, <1>2, <1>3, <1>4, <1>5, <1>6, <1>7 DEF GroupNext, MemberStep

LEMMA GroupInvNoWakeupMissed == GroupInv => NoWakeupMissed
  <1> SUFFICES ASSUME GroupInv, NEW m \in Members, ask[m].op = "wait",
                      told[m].result = "timeout", Current(m)
               PROVE  ask[m].began =< mark[m].wakes
    BY DEF NoWakeupMissed
  <1>1. told[m].result \in Results /\ ToldInvOf(m)
    BY DEF GroupInv, ToldInv, Results
  <1>2. told[m].mark \in Marks /\ ask[m].began \in Nat /\ mark[m] \in Marks
    BY <1>1, ToldTypes DEF GroupInv, GroupTypeOK, Tolds, Asks
  <1>3. /\ ask[m].began =< told[m].mark.wakes /\ told[m].mark.epoch =< epoch
        /\ mark[m].epoch = told[m].mark.epoch => told[m].mark.wakes =< mark[m].wakes
        /\ mark[m].epoch > told[m].mark.epoch => mark[m].wakes >= told[m].mark.wakes
    BY <1>1 DEF ToldInvOf, Past
  <1>4. /\ told[m].mark.wakes \in Nat /\ told[m].mark.epoch \in Int /\ epoch \in Nat
        /\ mark[m].wakes \in Nat /\ mark[m].epoch = epoch
    BY <1>2 DEF Marks, Current, GroupInv, GroupTypeOK
  <1> QED BY <1>2, <1>3, <1>4

LEMMA GroupInvOneWait == GroupInv => OneWaitPerWakeup
  BY DEF GroupInv, ToldInv, OneWaitOf, OneWaitPerWakeup

(* A wait that runs into its timeout at the server had no wakeup to take   *)
(* when it began (wait, 673-699), whoever clears, wakes and loses answers. *)
THEOREM NoWakeupMissedHolds == GroupSpec => []NoWakeupMissed
  BY GroupInvInit, GroupInvNext, GroupInvNoWakeupMissed, PTL DEF GroupSpec

(* A wait that ends at an unset event was woken by a wakeup its member had *)
(* not seen (wait, 685-697; wakeup, 660-670).                              *)
THEOREM OneWaitPerWakeupHolds == GroupSpec => []OneWaitPerWakeup
  BY GroupInvInit, GroupInvNext, GroupInvOneWait, PTL DEF GroupSpec

-----------------------------------------------------------------------------
LEMMA GroupInvDropped ==
  ASSUME GroupInv, NEW m \in Members, GroupFutureDropped(m)
  PROVE  GroupInv'
  <1>0. GroupTypeOK /\ VersionInv /\ AskInv /\ ToldInv
    BY DEF GroupInv
  <1>1. GroupTypeOK'
    <2>1. told[m] = NoTold => ask[m] \in Asks
      BY <1>0 DEF GroupFutureDropped, GroupTypeOK
    <2>2. \A x \in lateAsks' : x.ask \in Asks
      BY <1>0, <2>1 DEF GroupFutureDropped, GroupTypeOK
    <2> QED BY <1>0, <2>2 DEF GroupFutureDropped, GroupTypeOK
  <1>2. VersionInv'
    BY <1>0, KnownStays DEF GroupFutureDropped
  <1>3. AskInv'
    BY <1>0 DEF GroupFutureDropped, GroupTypeOK, AskInv, NoAsk
  <1>4. ASSUME NEW q \in Members PROVE ToldInvOf(q)' /\ OneWaitOf(q)'
    <2>1. CASE q = m
      BY <1>0, <2>1 DEF GroupFutureDropped, GroupTypeOK, ToldInvOf, OneWaitOf, HeardOf,
                        Results, NoTold
    <2>2. CASE q # m
      BY <1>0, <2>2, ToldStays DEF GroupFutureDropped, GroupTypeOK, ToldInv
    <2> QED BY <2>1, <2>2
  <1> QED BY <1>1, <1>2, <1>3, <1>4 DEF GroupInv, ToldInv

LEMMA AioGroupInv == AioSpec => []GroupInv
  <1>1. AioInit => GroupInv
    BY GroupInvInit DEF AioInit
  <1>2. GroupInv /\ [AioNext]_aioVars => GroupInv'
    <2> SUFFICES ASSUME GroupInv, [AioNext]_aioVars PROVE GroupInv'
      OBVIOUS
    <2>1. [GroupNext]_groupVars \/ \E m \in Members : GroupFutureDropped(m)
      BY DEF AioNext, AioGroupStep, aioVars, GroupNext
    <2> QED BY <2>1, GroupInvNext, GroupInvDropped
  <1> QED BY <1>1, <1>2, PTL DEF AioSpec

(* No wakeup is missed by the aio client's waits either (aio wait,         *)
(* 705-731), dropped calls included.                                       *)
THEOREM AioNoWakeupMissedHolds == AioSpec => []NoWakeupMissed
  BY AioGroupInv, GroupInvNoWakeupMissed, PTL

(* Nor is one taken twice (aio wait, 705-731; aio wakeup, 680-703): a      *)
(* dropped wait takes nothing, and its wakeup is there for the next one.   *)
THEOREM AioOneWaitPerWakeupHolds == AioSpec => []OneWaitPerWakeup
  BY AioGroupInv, GroupInvOneWait, PTL

-----------------------------------------------------------------------------
(* A dropped future leaves its caller idle, with nothing gained: a command *)
(* nobody waits for may be late, and a release counts as done.             *)
LEMMA DroppedFacts ==
  ASSUME ClientInv, NEW h \in Handles, FutureDropped(h)
  PROVE  /\ ClientInv' /\ Only(h) /\ at[h] # "idle" /\ req[h] # NoReq
         /\ at'[h] = "idle" /\ req'[h] = NoReq /\ reply'[h] = "none"
         /\ late' = late \cup {[n |-> losses, req |-> req[h]]} \/ late' = late
         /\ reply[h] # "none" => late' = late
         /\ UNCHANGED <<role, size, calls, read_locks, holders, shed>>
         /\ \A q \in Handles : /\ Backing(q) \in Nat /\ Backing(q)' \in Nat
                               /\ Backing(q)' =< Backing(q)
         /\ Readers(h)' = read_locks[h] /\ \A q \in Handles \ {h} : Readers(q)' = Readers(q)
         /\ held'[h] =< held[h]
  <1>1. /\ ClientType /\ Asked(h) /\ Counted(h) /\ at[h] # "idle" /\ req[h] # NoReq
        /\ held \in [Handles -> Nat]
    BY DEF ClientInv, ClientType, Asked, FutureDropped
  <1>2. /\ UNCHANGED <<role, size, calls, read_locks, holders, shed>>
        /\ late' = late \cup {[n |-> losses, req |-> req[h]]} \/ late' = late
        /\ reply[h] # "none" => late' = late
    BY DEF FutureDropped
  <1>3. /\ at' \in [Handles -> Spots] /\ at'[h] = "idle"
        /\ \A q \in Handles \ {h} : at'[q] = at[q]
    BY <1>1 DEF FutureDropped, ClientType, Spots
  <1>4. /\ req' \in [Handles -> LockCommands \cup {NoReq}] /\ req'[h] = NoReq
        /\ \A q \in Handles \ {h} : req'[q] = req[q]
    BY <1>1 DEF FutureDropped, ClientType
  <1>5. /\ reply' \in [Handles -> ReplyCodes \cup {"none"}] /\ reply'[h] = "none"
        /\ \A q \in Handles \ {h} : reply'[q] = reply[q]
    BY <1>1 DEF FutureDropped, ClientType
  <1>6. /\ held' \in [Handles -> Nat] /\ \A q \in Handles \ {h} : held'[q] = held[q]
        /\ held'[h] = (IF at[h] = "release" THEN Less(held[h]) ELSE held[h])
    <2> DEFINE n == IF at[h] = "release" THEN Less(held[h]) ELSE held[h]
    <2>1. n \in Nat /\ held' = [held EXCEPT ![h] = n]
      BY <1>1 DEF FutureDropped, Less
    <2> HIDE DEF n
    <2>2. held' \in [Handles -> Nat] /\ held'[h] = n /\ \A q \in Handles \ {h} : held'[q] = held[q]
      BY <1>1, <2>1
    <2> QED  BY <2>2 DEF n
  <1>7. held[h] \in Nat /\ held'[h] \in Nat /\ held'[h] =< held[h]
    BY <1>1, <1>6 DEF Less
  <1>8. Only(h) /\ ClientType'
    BY <1>1, <1>2, <1>3, <1>4, <1>5, <1>6 DEF Only, ClientType, CallerType
  <1>9. Asked(h)'
    BY <1>3, <1>4, <1>5 DEF Asked
  <1>10. Counted(h)'
    <2>1. calls[h] \in Nat /\ Len(read_locks[h]) \in Nat
      BY <1>1 DEF ClientType, CallerType
    <2> QED  BY <1>1, <1>2, <1>3, <1>7, <2>1 DEF Counted
  <1>11. ClientInv'
    BY <1>2, <1>8, <1>9, <1>10, OthersInv DEF ClientInv
  <1>12. ASSUME NEW q \in Handles
         PROVE  Backing(q) \in Nat /\ Backing(q)' \in Nat /\ Backing(q)' =< Backing(q)
    <2>1. Backing(q) \in Nat
      BY <1>1 DEF Backing, Less
    <2>2. CASE q = h
      <3>1. Backing(h)' = held'[h]
        BY <1>3 DEF Backing
      <3>2. held'[h] =< Backing(h)
        <4>1. CASE at[h] = "release"
          BY <1>6, <1>7, <4>1 DEF Backing, Less
        <4>2. CASE at[h] # "release"
          BY <1>6, <1>7, <4>2 DEF Backing
        <4> QED  BY <4>1, <4>2
      <3> QED  BY <1>7, <2>1, <2>2, <3>1, <3>2
    <2>3. CASE q # h
      <3>1. Backing(q)' = Backing(q)
        BY <1>3, <1>5, <1>6, <2>3 DEF Backing, Succeeded
      <3> QED  BY <2>1, <3>1
    <2> QED  BY <2>2, <2>3
  <1>13. Readers(h)' = read_locks[h] /\ \A q \in Handles \ {h} : Readers(q)' = Readers(q)
    BY <1>2, <1>3, <1>4, <1>5 DEF Readers, Succeeded
  <1> QED  BY <1>1, <1>2, <1>3, <1>4, <1>5, <1>7, <1>8, <1>11, <1>12, <1>13

LEMMA DroppedBacked ==
  ASSUME BackedInv, NEW h \in Handles, FutureDropped(h)
  PROVE  BackedInv'
  <1>0. ClientInv /\ ServerInv /\ Mixed /\ ReadIds /\ OwnBacked /\ ReadBacked
    BY DEF BackedInv, Base
  <1>1. /\ ClientInv' /\ Only(h) /\ at[h] # "idle" /\ at'[h] = "idle"
        /\ late' = late \cup {[n |-> losses, req |-> req[h]]} \/ late' = late
        /\ UNCHANGED <<role, size, calls, read_locks, holders, shed>>
        /\ \A q \in Handles : /\ Backing(q) \in Nat /\ Backing(q)' \in Nat
                              /\ Backing(q)' =< Backing(q)
        /\ Readers(h)' = read_locks[h] /\ \A q \in Handles \ {h} : Readers(q)' = Readers(q)
    BY <1>0, DroppedFacts
  <1>2. ServerInv'
    <2>1. req[h] \in LockCommands /\ Fits(req[h])
      BY <1>0, <1>1, WaitsFit
    <2>2. losses < MaxLosses /\ losses' = losses + 1
      BY DEF FutureDropped
    <2> QED  BY <1>0, <1>1, <2>1, <2>2, LostServer
  <1>3. ReadIds'
    BY <1>0, <1>1 DEF ReadIds, ReadIdsOf, Only
  <1>4. OwnBacked'
    <2> SUFFICES ASSUME NEW q \in Handles, role[q] # "semaphore", OwnId(q) \notin shed,
                        Backing(q)' > 0
                 PROVE  Holding(holders[KeyOf(q)], OwnId(q), Backing(q)')
      BY <1>1, FitsSame DEF OwnBacked, OwnId, Holding
    <2>1. Backing(q) > 0 /\ KeyOf(q) \in Keys
      BY <1>1 DEF KeyOf, Keys
    <2>2. PICK i \in DOMAIN holders[KeyOf(q)] : /\ holders[KeyOf(q)][i].id = OwnId(q)
                                                /\ holders[KeyOf(q)][i].depth >= Backing(q)
      BY <1>0, <2>1 DEF OwnBacked, Holding
    <2>3. holders[KeyOf(q)][i].depth \in Int
      BY <1>0, <2>1, EntryFacts DEF ServerInv, Queues
    <2>4. holders[KeyOf(q)][i].depth >= Backing(q)'
      BY <1>1, <2>2, <2>3
    <2> QED  BY <2>2, <2>4 DEF Holding
  <1>5. ReadBacked'
    <2> SUFFICES ASSUME NEW q \in Handles, NEW i \in DOMAIN Readers(q)'
                 PROVE  Readers(q)'[i] \in shed \/ Holding(holders["key"], Readers(q)'[i], 1)
      BY <1>1 DEF ReadBacked, Holding
    <2>1. i \in DOMAIN Readers(q) /\ Readers(q)'[i] = Readers(q)[i]
      <3>1. CASE q = h
        BY <1>0, <1>1, <3>1, ReadersPrefix
      <3>2. CASE q # h
        BY <1>1, <3>2
      <3> QED  BY <3>1, <3>2
    <2> QED  BY <1>0, <2>1 DEF ReadBacked
  <1> QED  BY <1>0, <1>1, <1>2, <1>3, <1>4, <1>5, MixedSame DEF BackedInv, Base

LEMMA DroppedPermits ==
  ASSUME Base, PermitInv, NEW h \in Handles, FutureDropped(h)
  PROVE  PermitInv'
  <1> SUFFICES ASSUME Permits'
               PROVE  (PermitQueue /\ PermitLate /\ PermitIds /\ PermitReleases /\ PermitCount)'
    BY DEF PermitInv
  <1>0. /\ ClientInv /\ ClientInv' /\ Only(h) /\ at[h] # "idle" /\ at'[h] = "idle"
        /\ late' = late \cup {[n |-> losses, req |-> req[h]]} \/ late' = late
        /\ reply[h] # "none" => late' = late
        /\ UNCHANGED <<role, size, calls, holders, shed>>
        /\ \A q \in Handles : /\ Backing(q) \in Nat /\ Backing(q)' \in Nat
                              /\ Backing(q)' =< Backing(q)
    BY DroppedFacts DEF Base
  <1>1. Permits /\ PermitQueue /\ PermitLate /\ PermitIds /\ PermitReleases /\ PermitCount
    BY <1>0 DEF Permits, PermitInv
  <1>2. ~Pending(h)' /\ \A q \in Handles \ {h} : Pending(q)' => Pending(q)
    BY <1>0 DEF Pending, Only
  <1>3. PermitLate' /\ PermitIds'
    <2>1. CASE reply[h] = "none"
      BY <1>0, <1>1, <1>2, <2>1, LostPermits
    <2>2. CASE reply[h] # "none"
      <3>1. \A q \in Handles : calls'[q] = calls[q] /\ (Pending(q)' => Pending(q))
        BY <1>0, <1>2
      <3>2. \A i : Given(i) => Given(i)'
        BY <1>0, <3>1, GivenStays
      <3> QED  BY <1>0, <1>1, <2>2, <3>2 DEF PermitLate, PermitIds, LessOne, ZeroId, Ids
    <2> QED  BY <2>1, <2>2
  <1>4. PermitReleases'
    BY <1>0, <1>1 DEF PermitReleases, Only
  <1>5. PermitCount'
    <2>1. Tokens' \in SUBSET Tokens
      <3>1. \A q \in Handles : \A n \in 1 .. Backing(q)' : n \in 1 .. Backing(q)
        <4> SUFFICES ASSUME NEW q \in Handles, NEW n \in 1 .. Backing(q)' PROVE n \in 1 .. Backing(q)
          OBVIOUS
        <4>1. Backing(q) \in Nat /\ Backing(q)' \in Nat /\ Backing(q)' =< Backing(q)
          BY <1>0
        <4> QED  BY <4>1
      <3> QED  BY <3>1 DEF Tokens
    <2>2. /\ IsFiniteSet(Tokens) /\ Cardinality(Tokens) \in Nat
      BY <1>0, TokensFacts
    <2>3. Cardinality(Tokens') \in Nat /\ Cardinality(Tokens') =< Cardinality(Tokens)
      BY <2>1, <2>2, FS_Subset, FS_CardinalityType
    <2>4. Len(holders["key"]) \in Nat /\ Cardinality(shed) \in Nat
      BY EntryFacts, FS_CardinalityType DEF Base, ServerInv, Queues, Keys
    <2> QED  BY <1>0, <1>1, <2>2, <2>3, <2>4 DEF PermitCount
  <1> QED  BY <1>0, <1>1, <1>3, <1>4, <1>5 DEF PermitQueue, LessOne

(* Nothing is promised of a leaf's links once a future was dropped. *)
LEMMA DroppedLinks ==
  ASSUME NEW h \in Handles, FutureDropped(h)
  PROVE  LinkInv'
  <1>1. "dropped" \in lostAt'
    BY DEF FutureDropped
  <1> QED  BY <1>1 DEF LinkInv, Steady

LEMMA DroppedEvents ==
  ASSUME Base, EventInv, NEW h \in Handles, FutureDropped(h)
  PROVE  EventInv'
  <1>0. /\ ClientInv /\ Only(h) /\ at[h] # "idle" /\ at'[h] = "idle" /\ reply'[h] = "none"
        /\ late' = late \cup {[n |-> losses, req |-> req[h]]} \/ late' = late
        /\ UNCHANGED <<role, holders, truth, asked, answer>> /\ alone' = alone \ {h}
    BY DroppedFacts DEF Base, FutureDropped
  <1>1. EventTyped'
    BY <1>0 DEF EventInv, EventTyped
  <1>2. ASSUME NEW own \in EventRoles, EventOf(own)'
        PROVE  EventParts(own)'
    <2>0. /\ EventQueue(holders["key"], own) /\ EventLate(own) /\ role[h] = own
          /\ AloneTells(own) /\ TruthTells(own) /\ AskedTells /\ alone \subseteq Handles
      BY <1>0, <1>2 DEF EventOf, EventInv, EventTyped
    <2>1. Changing(req[h], own) \/ Probing(req[h], own)
      BY <1>0, <2>0, EventAsks DEF Changes
    <2>2. EventQueue(holders["key"], own)' /\ EventLate(own)'
          /\ Tells(holders["key"], own)' = Tells(holders["key"], own)
      BY <1>0, <2>0, <2>1 DEF EventQueue, EventLate, EventCount, KeyId, Changing, Probing, Tells
    <2>3. \A q \in Handles \ {h} : /\ at'[q] = at[q] /\ Fine(q)' = Fine(q) /\ Told(q)' = Told(q)
                                   /\ Changes(q)' = Changes(q) /\ Wanted(q)' = Wanted(q)
      BY <1>0 DEF Only, Fine, Told, Changes, Wanted
    <2>4. ~Changes(h)'
      BY <1>0 DEF Changes
    <2>5. AloneTells(own)'
      BY <1>0, <2>0, <2>2, <2>3, <2>4 DEF AloneTells
    <2>6. TruthTells(own)'
      BY <1>0, <2>0, <2>2, <2>3, <2>4 DEF TruthTells
    <2>7. AskedTells'
      BY <1>0, <2>0, <2>3 DEF AskedTells
    <2> QED  BY <2>2, <2>5, <2>6, <2>7 DEF EventParts
  <1> QED  BY <1>1, <1>2 DEF EventInv, EventParts

(* What is kept of the primitives, in one invariant. *)
PrimInv == KeptInv /\ LinkInv /\ EventInv

LEMMA AioPrimHolds == AioSpec => []PrimInv
  <1>1. AioInit => PrimInv
    BY KeptInit, LinkInit, EventInit DEF AioInit, PrimInv
  <1>2. PrimInv /\ [AioNext]_aioVars => PrimInv'
    <2> SUFFICES ASSUME PrimInv, [AioNext]_aioVars PROVE PrimInv'
      OBVIOUS
    <2>1. [Next]_vars \/ \E h \in Handles : FutureDropped(h)
      BY DEF AioNext, aioVars, AioHandleStep, AioLockStep, AioSemaphoreStep, AioReadLockStep,
             AioLeafStep, AioEventStep, Next, HandleStep
    <2>2. Base /\ BackedInv
      BY DEF PrimInv, KeptInv, BackedInv
    <2>3. CASE [Next]_vars
      BY <2>2, <2>3, KeptStep, LinkStep, EventStep DEF PrimInv
    <2>4. ASSUME NEW h \in Handles, FutureDropped(h) PROVE PrimInv'
      BY <2>2, <2>4, DroppedBacked, DroppedPermits, DroppedLinks, DroppedEvents DEF PrimInv, KeptInv
    <2> QED  BY <2>1, <2>3, <2>4
  <1> QED  BY <1>1, <1>2, PTL DEF AioSpec

(* The aio primitives (src/src/aio/primitives.rs) make the same promises   *)
(* as the blocking ones, though a caller may drop any of their futures at  *)
(* an await, group events among them: their places, commands and ids stay  *)
(* what the code can produce;                                              *)
THEOREM AioPrimTypeCorrect == AioSpec => []PrimTypeOK
  <1>1. PrimInv => PrimTypeOK
    BY BaseTypes DEF PrimInv, KeptInv, BackedInv
  <1> QED  BY <1>1, AioPrimHolds, PTL

(* what a caller relies on is at the server, unless it was shed;           *)
THEOREM AioPlacesBackedHolds == AioSpec => []PlacesBacked
  <1>1. PrimInv => PlacesBacked
    BY KeptPlacesBacked DEF PrimInv
  <1> QED  BY <1>1, AioPrimHolds, PTL

(* no more callers than its count share a key;                             *)
THEOREM AioPlacesBoundedHolds == AioSpec => []PlacesBounded
  <1>1. PrimInv => PlacesBounded
    BY KeptPlacesBounded DEF PrimInv
  <1> QED  BY <1>1, AioPrimHolds, PTL

(* a leaf that fails, its futures not dropped, leaves no link behind;      *)
THEOREM AioFailedLeafUnlinksHolds == AioSpec => []FailedLeafUnlinks
  <1>1. PrimInv => FailedLeafUnlinks
    BY LinksGone DEF PrimInv
  <1> QED  BY <1>1, AioPrimHolds, PTL

(* and is_set tells what the last set or clear left, whichever futures     *)
(* were dropped before.                                                    *)
THEOREM AioIsSetTruthfulHolds == AioSpec => []IsSetTruthful
  <1>1. PrimInv => IsSetTruthful
    BY EventTruth DEF PrimInv, KeptInv, BackedInv
  <1> QED  BY <1>1, AioPrimHolds, PTL

-----------------------------------------------------------------------------
(* What a dropped future changes of the count of its handle. *)
LEMMA DroppedCounts ==
  ASSUME ClientInv, NEW h \in Handles, FutureDropped(h)
  PROVE  /\ at[h] \notin {"acquire", "leaf", "release"} \/ (at[h] # "release" /\ ~Succeeded(h)) =>
              Backing(h)' = Backing(h)
         /\ Backing(h) =< Backing(h)' + 1
         /\ \A q \in Handles \ {h} : Backing(q)' = Backing(q)
         /\ \A q \in Handles \ {h} : \A id : ReadBy(q, id)' <=> ReadBy(q, id)
         /\ losses' = losses + 1
         /\ late' = (IF reply[h] = "none" THEN late \cup {[n |-> losses, req |-> req[h]]} ELSE late)
  <1>1. /\ at'[h] = "idle" /\ reply'[h] = "none" /\ held[h] \in Nat
        /\ held'[h] = (IF at[h] = "release" THEN Less(held[h]) ELSE held[h])
        /\ losses' = losses + 1 /\ read_locks' = read_locks
        /\ late' = (IF reply[h] = "none" THEN late \cup {[n |-> losses, req |-> req[h]]} ELSE late)
        /\ \A q \in Handles \ {h} : /\ at'[q] = at[q] /\ reply'[q] = reply[q] /\ req'[q] = req[q]
                                    /\ held'[q] = held[q]
    BY DEF ClientInv, ClientType, FutureDropped
  <1>2. Backing(h)' = held'[h]
    BY <1>1 DEF Backing
  <1>3. /\ at[h] \notin {"acquire", "leaf", "release"} \/ (at[h] # "release" /\ ~Succeeded(h)) =>
             Backing(h)' = Backing(h)
        /\ Backing(h) =< Backing(h)' + 1
    <2>1. CASE at[h] = "release"
      BY <1>1, <1>2, <2>1 DEF Backing, Less
    <2>2. CASE at[h] # "release"
      BY <1>1, <1>2, <2>2 DEF Backing
    <2> QED  BY <2>1, <2>2
  <1>4. \A q \in Handles \ {h} : Backing(q)' = Backing(q) /\ \A id : ReadBy(q, id)' <=> ReadBy(q, id)
    BY <1>1 DEF Backing, Succeeded, ReadBy, Readers
  <1> QED  BY <1>1, <1>3, <1>4

(* If the server stays and one handle relies on one hold of its lock less, *)
(* that hold is the only new orphan.                                       *)
LEMMA OrphanedHold ==
  ASSUME Base, ClientInv', role' = role, holders'["key"] = holders["key"], NEW h \in Handles,
         Backing(h) =< Backing(h)' + 1, \A q \in Handles \ {h} : Backing(q)' = Backing(q),
         \A id : \A q \in Handles : ReadBy(q, id) => ReadBy(q, id)'
  PROVE  \E p : Orphans' \subseteq Orphans \cup {p}
  <1> DEFINE hs == holders["key"]
  <1>0. hs \in Seq(Holders) /\ Orderly(hs) /\ ClientInv
    BY DEF Base, ServerInv, Queues, Keys
  <1>1. /\ \A q \in Handles : Backing(q) \in Nat /\ Backing(q)' \in Nat
        /\ \A q \in Handles : KeyOf(q)' = KeyOf(q) /\ OwnId(q)' = OwnId(q)
    <2>1. \A q \in Handles : Backing(q) \in Nat
      BY <1>0, ReliedFacts
    <2>2. held' \in [Handles -> Nat]
      BY DEF ClientInv, ClientType
    <2>3. \A q \in Handles : Backing(q)' \in Nat
      BY <2>2 DEF Backing, Less
    <2> QED  BY <2>1, <2>3 DEF KeyOf, OwnId
  <1>2. ASSUME NEW id, NEW n \in Nat, Orphaned(id, n)', ~Orphaned(id, n)
        PROVE  id = OwnId(h) /\ \E d \in Int : Deep(hs, id, d) /\ n + Backing(h)' = d
    <2>1. PICK d \in Int : Deep(holders["key"], id, d)' /\ Spare(id, n, d)'
      BY <1>2 DEF Orphaned
    <2>2. Deep(hs, id, d) /\ n =< d
      BY <2>1 DEF Deep, Spare
    <2>3. ~(\A q \in Handles : KeyOf(q) = "key" /\ id = OwnId(q) => Backing(q) + d =< Backing(q)' + d)
      <3> SUFFICES ASSUME \A q \in Handles : KeyOf(q) = "key" /\ id = OwnId(q) =>
                              Backing(q) + d =< Backing(q)' + d
                   PROVE  FALSE
        OBVIOUS
      <3>1. Spare(id, n, d)
        BY <1>0, <2>1, <2>2, SpareBefore
      <3> QED  BY <1>2, <2>2, <3>1 DEF Orphaned
    <2>4. PICK q \in Handles : /\ KeyOf(q) = "key" /\ id = OwnId(q)
                               /\ ~(Backing(q) + d =< Backing(q)' + d)
      BY <2>3
    <2>5. q = h
      BY <1>1, <2>4
    <2>6. Backing(h) = Backing(h)' + 1
      BY <1>1, <2>4, <2>5
    <2>7. n + Backing(h)' =< d
      BY <1>1, <2>1, <2>4, <2>5 DEF Spare
    <2>8. ~(n + Backing(h) =< d)
      <3> SUFFICES ASSUME n + Backing(h) =< d PROVE FALSE
        OBVIOUS
      <3>1. n \in 1 .. d /\ \A g \in Handles : ~ReadBy(g, id)
        BY <2>1 DEF Spare
      <3>2. \A g \in Handles : id = OwnId(g) => g = h
        BY <2>4, <2>5, ForeignIds
      <3>3. Spare(id, n, d)
        BY <3>1, <3>2 DEF Spare
      <3> QED  BY <1>2, <2>2, <3>3 DEF Orphaned
    <2> QED  BY <1>1, <2>2, <2>4, <2>5, <2>6, <2>7, <2>8
  <1>3. ASSUME NEW p \in Orphans' \ Orphans, NEW q \in Orphans' \ Orphans
        PROVE  p = q
    <2>1. p[2] \in Nat /\ q[2] \in Nat /\ p = <<p[1], p[2]>> /\ q = <<q[1], q[2]>>
          /\ Orphaned(p[1], p[2])' /\ ~Orphaned(p[1], p[2])
          /\ Orphaned(q[1], q[2])' /\ ~Orphaned(q[1], q[2])
      BY <1>3 DEF Orphans
    <2>2. PICK d \in Int : Deep(hs, OwnId(h), d) /\ p[1] = OwnId(h) /\ p[2] + Backing(h)' = d
      BY <1>2, <2>1
    <2>3. PICK e \in Int : Deep(hs, OwnId(h), e) /\ q[1] = OwnId(h) /\ q[2] + Backing(h)' = e
      BY <1>2, <2>1
    <2>4. d = e
      BY <1>0, <2>2, <2>3, DeepOnce
    <2>5. p[2] = q[2]
      BY <1>1, <2>1, <2>2, <2>3, <2>4
    <2> QED  BY <2>1, <2>2, <2>3, <2>5
  <1> QED  BY <1>3, OneMore

(* A dropped future may leave the hold of an acquire that succeeded, or of *)
(* a release, or a lock command that may yet be executed, but one of them. *)
LEMMA DroppedPlain ==
  ASSUME BackedInv, PlainLeak, NEW h \in Handles, FutureDropped(h)
  PROVE  PlainLeak'
  <1> DEFINE x == [n |-> losses, req |-> req[h]]
  <1>0. /\ ClientInv /\ ClientInv' /\ ServerInv /\ ServerInv' /\ Base /\ ReadIds
        /\ at[h] # "idle" /\ at'[h] = "idle" /\ reply'[h] = "none"
        /\ UNCHANGED <<role, size, calls, read_locks, holders>>
        /\ Readers(h)' = read_locks[h]
    <2>1. BackedInv'
      BY DroppedBacked
    <2> QED  BY <2>1, DroppedFacts DEF BackedInv, Base
  <1>1. /\ at[h] \notin {"acquire", "leaf", "release"} \/ (at[h] # "release" /\ ~Succeeded(h)) =>
              Backing(h)' = Backing(h)
        /\ Backing(h) =< Backing(h)' + 1
        /\ \A q \in Handles \ {h} : Backing(q)' = Backing(q)
        /\ \A q \in Handles \ {h} : \A id : ReadBy(q, id)' <=> ReadBy(q, id)
        /\ losses' = losses + 1
        /\ late' = (IF reply[h] = "none" THEN late \cup {x} ELSE late)
    BY <1>0, DroppedCounts
  <1>2. x.req = req[h]
    OBVIOUS
  <1> HIDE DEF x
  <1>3. /\ LateLocks' \subseteq LateLocks \cup {x}
        /\ req[h].cmd = "unlock" \/ reply[h] # "none" => LateLocks' \subseteq LateLocks
    BY <1>1, <1>2 DEF LateLocks
  <1>4. \A q \in Handles : Backing(q) \in Nat
    BY <1>0, ReliedFacts
  <1>5. /\ at[h] \notin {"acquireRead", "releaseRead"} =>
             \A id : \A q \in Handles : ReadBy(q, id) => ReadBy(q, id)'
        /\ at[h] = "acquireRead" /\ ~Succeeded(h) =>
             \A id : \A q \in Handles : ReadBy(q, id) => ReadBy(q, id)'
        /\ at[h] = "releaseRead" /\ reply[h] # "none" =>
             \A id : \A q \in Handles : ReadBy(q, id) => ReadBy(q, id)'
        /\ \A id : id # req[h].id => \A q \in Handles : ReadBy(q, id) => ReadBy(q, id)'
    <2>1. CASE at[h] # "acquireRead" \/ ~Succeeded(h)
      <3>1. Readers(h)' = Readers(h)
        BY <1>0, <2>1 DEF Readers
      <3>2. \A id : ReadBy(h, id) => \/ ReadBy(h, id)'
                                     \/ at[h] = "releaseRead" /\ reply[h] = "none" /\ req[h].id = id
        BY <3>1 DEF ReadBy
      <3> QED  BY <1>1, <3>2
    <2>2. CASE at[h] = "acquireRead" /\ Succeeded(h)
      <3>1. ASSUME NEW id, id # req[h].id, ReadBy(h, id)
            PROVE  ReadBy(h, id)'
        <4>1. PICK i \in DOMAIN Readers(h) : Readers(h)[i] = id
          BY <2>2, <3>1 DEF ReadBy
        <4>2. Readers(h) = Append(read_locks[h], req[h].id)
          BY <2>2 DEF Readers
        <4>3. /\ Len(read_locks[h]) \in Nat /\ DOMAIN read_locks[h] = 1 .. Len(read_locks[h])
              /\ DOMAIN Readers(h) = 1 .. Len(read_locks[h]) + 1
              /\ \A j \in DOMAIN read_locks[h] : Readers(h)[j] = read_locks[h][j]
              /\ Readers(h)[Len(read_locks[h]) + 1] = req[h].id
          BY <1>0, <2>2, <4>2, ReadersFacts
        <4>4. i # Len(read_locks[h]) + 1
          BY <3>1, <4>1, <4>3
        <4>5. i \in DOMAIN read_locks[h]
          BY <4>1, <4>3, <4>4
        <4>6. i \in DOMAIN Readers(h)' /\ Readers(h)'[i] = id
          BY <1>0, <4>1, <4>3, <4>5
        <4> QED  BY <4>6 DEF ReadBy
      <3> QED  BY <1>1, <2>2, <3>1
    <2> QED  BY <2>1, <2>2
  <1>6. ASSUME Plain
        PROVE  \/ Orphans' \subseteq Orphans
               \/ LateLocks' \subseteq LateLocks /\ \E p : Orphans' \subseteq Orphans \cup {p}
    <2>0. /\ at[h] = "release" => req[h].cmd = "unlock"
          /\ at[h] = "leaf" => KeyOf(h) # "key"
          /\ at[h] \in {"acquireRead", "releaseRead"} => req[h].id \notin OwnIds
          /\ at[h] = "releaseRead" => req[h].cmd = "unlock"
      BY <1>0, <1>6, PlainWaits
    <2>1. CASE /\ at[h] \notin {"acquireRead", "releaseRead"}
               /\ KeyOf(h) = "key" => Backing(h)' = Backing(h)
      <3>1. \A q \in Handles : KeyOf(q) = "key" => Backing(q) =< Backing(q)'
        BY <1>1, <1>4, <2>1
      <3> QED  BY <1>0, <1>5, <2>1, <3>1, OrphansSame
    <2>2. CASE /\ at[h] \notin {"acquireRead", "releaseRead"}
               /\ KeyOf(h) = "key" /\ Backing(h)' # Backing(h)
      <3>1. at[h] = "release" \/ (at[h] = "acquire" /\ Succeeded(h))
        BY <1>1, <2>0, <2>2
      <3>2. LateLocks' \subseteq LateLocks
        BY <1>3, <2>0, <3>1 DEF Succeeded
      <3>3. \E p : Orphans' \subseteq Orphans \cup {p}
        BY <1>0, <1>1, <1>5, <2>2, OrphanedHold
      <3> QED  BY <3>2, <3>3
    <2>3. CASE at[h] \in {"acquireRead", "releaseRead"}
      <3>1. \A q \in Handles : KeyOf(q) = "key" => Backing(q) =< Backing(q)'
        BY <1>1, <1>4, <2>3
      <3>2. CASE req[h].cmd = "unlock" \/ reply[h] # "none"
        <4>1. \E p : Orphans' \subseteq Orphans \cup {p}
          BY <1>0, <1>5, <2>0, <2>3, <3>1, OrphanedReader
        <4> QED  BY <1>3, <3>2, <4>1
      <3>3. CASE ~(req[h].cmd = "unlock" \/ reply[h] # "none")
        <4>1. at[h] = "acquireRead" /\ ~Succeeded(h)
          BY <2>0, <2>3, <3>3 DEF Succeeded
        <4> QED  BY <1>0, <1>5, <3>1, <4>1, OrphansSame
      <3> QED  BY <3>2, <3>3
    <2> QED  BY <2>1, <2>2, <2>3
  <1>7. Plain => \/ /\ losses' = losses + 1 /\ LateLocks' \subseteq LateLocks
                    /\ \E p : Orphans' \subseteq Orphans \cup {p}
                 \/ /\ losses' = losses + 1 /\ Orphans' \subseteq Orphans
                    /\ \E y : LateLocks' \subseteq LateLocks \cup {y}
    BY <1>1, <1>3, <1>6
  <1> QED  BY <1>0, <1>7, PlainCounts

(* A dropped future of a semaphore costs as much as a command given up: a  *)
(* late acquire, or the permit that the caller never learns of.            *)
LEMMA DroppedSlack ==
  ASSUME Base, PermitSlack, NEW h \in Handles, FutureDropped(h)
  PROVE  PermitSlack'
  <1> SUFFICES ASSUME Permits'
               PROVE  (Len(holders["key"]) + Cardinality(LateLocks) =< Cardinality(Tokens) + losses)'
    BY DEF PermitSlack
  <1> DEFINE x == [n |-> losses, req |-> req[h]]
  <1>0. /\ ClientInv /\ ClientInv' /\ at[h] # "idle" /\ UNCHANGED <<role, holders>>
    BY DroppedFacts DEF Base
  <1>1. /\ at[h] \notin {"acquire", "leaf", "release"} \/ (at[h] # "release" /\ ~Succeeded(h)) =>
              Backing(h)' = Backing(h)
        /\ Backing(h) =< Backing(h)' + 1
        /\ \A q \in Handles \ {h} : Backing(q)' = Backing(q)
        /\ losses' = losses + 1
        /\ late' = (IF reply[h] = "none" THEN late \cup {x} ELSE late)
    BY <1>0, DroppedCounts
  <1>2. x.req = req[h]
    OBVIOUS
  <1> HIDE DEF x
  <1>3. /\ LateLocks' = LateLocks \/ LateLocks' = LateLocks \cup {x}
        /\ req[h].cmd = "unlock" \/ reply[h] # "none" => LateLocks' = LateLocks
    BY <1>1, <1>2 DEF LateLocks
  <1>4. /\ Len(holders["key"]) \in Nat /\ losses \in Nat
        /\ IsFiniteSet(LateLocks) /\ Cardinality(LateLocks) \in Nat
        /\ IsFiniteSet(Tokens) /\ Cardinality(Tokens) \in Nat
    BY SlackNumbers
  <1>5. /\ Permits /\ Len(holders["key"]) + Cardinality(LateLocks) =< Cardinality(Tokens) + losses
    BY <1>0 DEF Permits, PermitSlack
  <1>6. at[h] \in {"acquire", "release"} /\ (at[h] = "release" => req[h].cmd = "unlock")
    BY <1>0, <1>5, PermitWaits
  <1>7. IsFiniteSet(Tokens') /\ Cardinality(Tokens') \in Nat
    <2>1. \A q \in Handles : Backing(q) \in Nat /\ Backing(q)' \in Nat /\ Backing(q)' =< Backing(q)
      BY DroppedFacts DEF Base
    <2>2. \A q \in Handles : \A n \in 1 .. Backing(q)' : n \in 1 .. Backing(q)
      <3> SUFFICES ASSUME NEW q \in Handles, NEW n \in 1 .. Backing(q)' PROVE n \in 1 .. Backing(q)
        OBVIOUS
      <3>1. Backing(q) \in Nat /\ Backing(q)' \in Nat /\ Backing(q)' =< Backing(q)
        BY <2>1
      <3> QED  BY <3>1
    <2>3. Tokens' \in SUBSET Tokens
      BY <2>2 DEF Tokens
    <2> QED  BY <1>4, <2>3, FS_Subset, FS_CardinalityType
  <1>8. CASE Backing(h)' = Backing(h)
    <2>1. Tokens' = Tokens
      BY <1>1, <1>8 DEF Tokens
    <2>2. Cardinality(LateLocks') \in Nat /\ Cardinality(LateLocks') =< Cardinality(LateLocks) + 1
      <3>1. Cardinality(LateLocks \cup {x}) \in {Cardinality(LateLocks), Cardinality(LateLocks) + 1}
        BY <1>4, FS_AddElement
      <3>2. CASE LateLocks' = LateLocks
        BY <1>4, <3>2
      <3>3. CASE LateLocks' = LateLocks \cup {x}
        BY <1>4, <3>1, <3>3
      <3> QED  BY <1>3, <3>2, <3>3
    <2>3. Len(holders["key"]) + Cardinality(LateLocks') =< Cardinality(Tokens) + (losses + 1)
      BY <1>4, <1>5, <2>2
    <2> QED  BY <1>0, <1>1, <2>1, <2>3
  <1>9. CASE Backing(h)' # Backing(h)
    <2>1. LateLocks' = LateLocks
      BY <1>1, <1>3, <1>6, <1>9 DEF Succeeded
    <2> DEFINE p == <<h, Backing(h)>>
    <2>2. Tokens \subseteq Tokens' \cup {p}
      <3>1. \A q \in Handles : \A n \in 1 .. Backing(q) : n \in 1 .. Backing(q)' \/ (q = h /\ n = Backing(q))
        <4> SUFFICES ASSUME NEW q \in Handles, NEW n \in 1 .. Backing(q)
                     PROVE  n \in 1 .. Backing(q)' \/ (q = h /\ n = Backing(q))
          OBVIOUS
        <4>1. Backing(h) \in Nat /\ Backing(h)' \in Nat
          BY <1>0, DroppedFacts
        <4> QED  BY <1>1, <4>1
      <3> QED  BY <3>1 DEF Tokens
    <2> HIDE DEF p
    <2>3. Cardinality(Tokens) =< Cardinality(Tokens') + 1
      <3>1. /\ IsFiniteSet(Tokens' \cup {p})
            /\ Cardinality(Tokens' \cup {p}) \in {Cardinality(Tokens'), Cardinality(Tokens') + 1}
        BY <1>7, FS_AddElement
      <3>2. Cardinality(Tokens) =< Cardinality(Tokens' \cup {p})
        BY <2>2, <3>1, FS_Subset
      <3> QED  BY <1>4, <1>7, <3>1, <3>2
    <2>4. Len(holders["key"]) + Cardinality(LateLocks) =< Cardinality(Tokens') + (losses + 1)
      BY <1>4, <1>5, <1>7, <2>3
    <2> QED  BY <1>0, <1>1, <2>1, <2>4
  <1> QED  BY <1>8, <1>9

(* Of the aio primitives, too, nothing is left at the server, once no call *)
(* is under way, but one hold for each command given up and each future    *)
(* dropped, at whichever await (aio release_read 492-498 pops its lock     *)
(* before one).                                                            *)
THEOREM AioNothingLeaksHolds == AioSpec => []NothingLeaks
  <1>1. AioInit => KeptInv /\ PlainLeak /\ PermitSlack
    BY KeptInit, LeakInit DEF AioInit
  <1>2. KeptInv /\ PlainLeak /\ PermitSlack /\ [AioNext]_aioVars => PlainLeak' /\ PermitSlack'
    <2> SUFFICES ASSUME KeptInv, PlainLeak, PermitSlack, [AioNext]_aioVars
                 PROVE  PlainLeak' /\ PermitSlack'
      OBVIOUS
    <2>1. [Next]_vars \/ \E h \in Handles : FutureDropped(h)
      BY DEF AioNext, aioVars, AioHandleStep, AioLockStep, AioSemaphoreStep, AioReadLockStep,
             AioLeafStep, AioEventStep, Next, HandleStep
    <2>2. CASE [Next]_vars
      BY <2>2, LeakStep
    <2>3. ASSUME NEW h \in Handles, FutureDropped(h)
          PROVE  PlainLeak' /\ PermitSlack'
      BY <2>3, DroppedPlain, DroppedSlack DEF KeptInv, BackedInv
    <2> QED  BY <2>1, <2>2, <2>3
  <1>3. PrimInv => KeptInv
    BY DEF PrimInv
  <1> QED  BY <1>1, <1>2, <1>3, LeakBound, AioPrimHolds, PTL DEF AioSpec
=============================================================================
