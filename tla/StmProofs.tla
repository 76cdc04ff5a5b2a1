------------------------------ MODULE StmProofs ------------------------------
(* Proofs about module Stm, for any number of fibers and TVars and for any *)
(* well-typed transactions.                                                *)
EXTENDS Stm, SequenceTheorems, WellFoundedInduction, TLAPS

----------------------------------------------------------------------------
(* A set of naturals below a bound has a greatest element.                 *)
LEMMA GreatestBelow ==
  ASSUME NEW n \in Nat, NEW S, S \subseteq 1..n, S # {}
  PROVE  \E i \in S : \A k \in (i + 1)..n : k \notin S
  <1> DEFINE T == {n - i : i \in S}
  <1>1. T \subseteq Nat /\ T # {}
    <2>1. \A i \in S : i \in 1..n
      OBVIOUS
    <2>2. \A i \in S : n - i \in Nat
      BY <2>1
    <2>3. PICK i : i \in S
      OBVIOUS
    <2>4. n - i \in T
      BY <2>3
    <2> QED BY <2>2, <2>4
  <1>2. PICK x \in T : \A y \in T : ~(<<y, x>> \in OpToRel(<, Nat))
    BY <1>1, NatLessThanWellFounded, WFMin
  <1>3. \A y \in T : ~(y < x)
    BY <1>1, <1>2 DEF OpToRel
  <1>4. PICK i \in S : x = n - i
    BY <1>2
  <1>5. \A k \in (i + 1)..n : k \notin S
    BY <1>3, <1>4
  <1> QED BY <1>5

(* The search of the log for its newest entry finds one.                   *)
LEMMA NewestWriteType ==
  ASSUME NEW log \in Seq(WEnt), NEW tv, Logged(log, tv)
  PROVE  NewestWrite(log, tv) \in Value
  <1> DEFINE S == {i \in DOMAIN log : log[i].tv = tv}
  <1>1. Len(log) \in Nat /\ DOMAIN log = 1..Len(log)
    BY LenProperties
  <1>2. S \subseteq 1..Len(log) /\ S # {}
    BY <1>1 DEF Logged
  <1>3. \E i \in S : \A k \in (i + 1)..Len(log) : k \notin S
    <2> HIDE DEF S
    <2> QED BY <1>1, <1>2, GreatestBelow
  <1>4. \E i \in DOMAIN log : log[i].tv = tv /\ \A k \in (i + 1)..Len(log) : log[k].tv # tv
    BY <1>1, <1>3
  <1>5. \A i \in DOMAIN log : log[i].val \in Value
    <2>1. \A i \in DOMAIN log : log[i] \in WEnt
      BY <1>1, ElementOfSeq
    <2> QED BY <2>1 DEF WEnt
  <1> QED BY <1>4, <1>5 DEF NewestWrite

----------------------------------------------------------------------------
(* Type correctness.  The continuation of a bind is applied to a value     *)
(* only because the TVars, the log and the finished trees hold values.     *)
LEMMA FrameTypes ==
  /\ \A k \in [Value -> Tree] : [kind |-> "bind", k |-> k] \in Frame
  /\ \A m \in Tree, n \in Nat : [kind |-> "orElse", r |-> m, nw |-> n] \in Frame
  /\ \A x \in Frame : x.kind = "bind" => x.k \in [Value -> Tree]
  /\ \A x \in Frame : x.kind = "orElse" => x.r \in Tree /\ x.nw \in Nat
  BY DEF Frame

(* What a transaction delivers is an outcome.                              *)
LEMMA OutcomeTypes == Stopped \in Outcome /\ \A v \in Value : Committed(v) \in Outcome
  BY DEF Outcome

(* What each piece of a step writes is well typed.                         *)
LEMMA CurrentType ==
  ASSUME TypeOK, NEW f \in Fiber, Len(out[f]) + 1 <= Len(Txn[f])
  PROVE  Current(f) \in Tree
  <1>1. Len(out[f]) \in Nat /\ Len(Txn[f]) \in Nat
    BY StmAssumption, LenProperties DEF TypeOK
  <1>2. Len(out[f]) + 1 \in 1..Len(Txn[f])
    BY <1>1
  <1> QED BY <1>2, StmAssumption, ElementOfSeq DEF Current

(* Unregistering a fiber keeps the types of the watchers.                  *)
LEMMA UnparkType ==
  ASSUME TypeOK, NEW f \in Fiber, Unpark(f)
  PROVE  watchers' \in [TVar -> SUBSET Fiber] /\ reads' \in [Fiber -> SUBSET TVar]
  BY DEF Unpark, TypeOK

(* A fiber that is not done has a transaction to execute, and one that has *)
(* committed has come to a value.                                          *)
AtShape ==
  \A f \in Fiber : /\ at[f] # "done" => Len(out[f]) + 1 <= Len(Txn[f])
                   /\ at[f] = "wake" => cur[f].op = "pure"

(* A fiber is parked, or woken and without a worker, at its retry-park.    *)
ParkShape == \A f \in Fiber : status[f] \in {"Parked", "Runnable"} <=> at[f] = "parked"

(* Starting a transaction over keeps the types.                            *)
LEMMA RestartType ==
  ASSUME TypeOK, AtShape, NEW f \in Fiber, at[f] # "done", Restart(f)
  PROVE  /\ at' \in [Fiber -> {"enter", "run", "wake", "revalidate", "deliver", "park",
                               "parked", "done"}]
         /\ cur' \in [Fiber -> Tree]
         /\ frames' \in [Fiber -> Seq(Frame)]
         /\ rset' \in [Fiber -> SUBSET REnt]
         /\ wlog' \in [Fiber -> Seq(WEnt)]
         /\ \A g \in Fiber : at'[g] # "done" => at[g] # "done"
         /\ \A g \in Fiber : at'[g] = "wake" => at[g] = "wake" /\ cur'[g] = cur[g]
  <1>1. Current(f) \in Tree
    BY CurrentType DEF AtShape
  <1>2. <<>> \in Seq(Frame) /\ <<>> \in Seq(WEnt)
    BY EmptySeq
  <1> QED BY <1>1, <1>2 DEF Restart, TypeOK

(* Delivering a result and going on keeps the types.                       *)
LEMMA MovesOnType ==
  ASSUME TypeOK, AtShape, NEW f \in Fiber, NEW e \in Outcome, MovesOn(f, e), cur' = cur
  PROVE  /\ out' \in [Fiber -> Seq(Outcome)]
         /\ at' \in [Fiber -> {"enter", "run", "wake", "revalidate", "deliver", "park",
                               "parked", "done"}]
         /\ AtShape'
  <1>1. /\ out[f] \in Seq(Outcome) /\ Append(out[f], e) \in Seq(Outcome)
        /\ Len(Append(out[f], e)) = Len(out[f]) + 1
        /\ Len(out[f]) \in Nat /\ Len(Txn[f]) \in Nat
    BY AppendProperties, LenProperties, StmAssumption DEF TypeOK
  <1>2. out' \in [Fiber -> Seq(Outcome)]
    BY <1>1 DEF MovesOn, TypeOK
  <1>3. at' \in [Fiber -> {"enter", "run", "wake", "revalidate", "deliver", "park",
                           "parked", "done"}]
    BY DEF MovesOn, TypeOK
  <1>4. ASSUME NEW g \in Fiber, at'[g] # "done"
        PROVE  Len(out'[g]) + 1 <= Len(Txn[g])
    <2>1. CASE g = f
      <3>1. Len(out[f]) + 1 < Len(Txn[f])
        BY <1>4, <2>1 DEF MovesOn, TypeOK
      <3>2. out'[g] = Append(out[f], e)
        BY <2>1 DEF MovesOn, TypeOK
      <3> QED BY <1>1, <2>1, <3>1, <3>2
    <2>2. CASE g # f
      BY <1>4, <2>2 DEF MovesOn, TypeOK, AtShape
    <2> QED BY <2>1, <2>2
  <1>5. \A g \in Fiber : at'[g] = "wake" => cur'[g].op = "pure"
    BY DEF MovesOn, TypeOK, AtShape
  <1> QED BY <1>2, <1>3, <1>4, <1>5 DEF AtShape

(* Delivering an interruption keeps the types.                             *)
LEMMA InterruptedType ==
  ASSUME TypeOK, AtShape, NEW f \in Fiber, Interrupted(f), cur' = cur
  PROVE  /\ watchers' \in [TVar -> SUBSET Fiber] /\ reads' \in [Fiber -> SUBSET TVar]
         /\ pending' \subseteq Fiber
         /\ out' \in [Fiber -> Seq(Outcome)]
         /\ at' \in [Fiber -> {"enter", "run", "wake", "revalidate", "deliver", "park",
                               "parked", "done"}]
         /\ AtShape'
  <1>1. Unpark(f) /\ MovesOn(f, Stopped) /\ pending' = pending \ {f}
    BY DEF Interrupted
  <1> QED BY <1>1, UnparkType, MovesOnType, OutcomeTypes DEF TypeOK

(* The types hold at the start.                                            *)
LEMMA TypeInit == Init => TypeOK /\ AtShape
  <1> SUFFICES ASSUME Init PROVE TypeOK /\ AtShape
    OBVIOUS
  <1>1. \A f \in Fiber : Len(Txn[f]) \in Nat \ {0} /\ 1 \in 1..Len(Txn[f])
    <2>1. \A f \in Fiber : Len(Txn[f]) \in Nat \ {0}
      BY StmAssumption, EmptySeq
    <2>2. \A n \in Nat \ {0} : 1 \in 1..n
      OBVIOUS
    <2> QED BY <2>1, <2>2
  <1>2. \A f \in Fiber : Txn[f][1] \in Tree
    BY <1>1, StmAssumption, ElementOfSeq
  <1>3. \A S : <<>> \in Seq(S)
    BY EmptySeq
  <1>4. TypeOK
    BY <1>2, <1>3, StmAssumption DEF Init, TypeOK
  <1>5. AtShape
    <2>1. Len(<<>>) = 0
      OBVIOUS
    <2>2. \A f \in Fiber : out[f] = <<>> /\ at[f] = "enter"
      BY DEF Init
    <2>3. \A f \in Fiber : Len(out[f]) + 1 <= Len(Txn[f])
      <3>1. \A f \in Fiber : Len(out[f]) = 0
        BY <2>1, <2>2
      <3>2. \A n \in Nat \ {0} : 0 + 1 <= n
        OBVIOUS
      <3> QED BY <1>1, <3>1, <3>2
    <2> QED BY <2>2, <2>3 DEF AtShape
  <1> QED BY <1>4, <1>5

(* The steps of stm_run.                                                   *)
LEMMA RunType ==
  ASSUME TypeOK, AtShape, NEW f \in Fiber,
         PushFrame(f) \/ ReadTVar(f) \/ WriteTVar(f) \/ PopFrame(f) \/ UnwindRetry(f)
  PROVE  TypeOK' /\ AtShape'
  <1>0. /\ cur[f] \in Tree /\ WellTyped(cur[f])
        /\ frames[f] \in Seq(Frame) /\ wlog[f] \in Seq(WEnt)
    BY StmAssumption DEF TypeOK
  <1>1. CASE PushFrame(f)
    <2>1. Len(wlog[f]) \in Nat
      BY <1>0, LenProperties
    <2>2. ASSUME NEW x \in Frame PROVE <<x>> \o frames[f] \in Seq(Frame)
      BY <1>0, ConcatProperties
    <2>3. CASE cur[f].op = "bind"
      <3>1. [kind |-> "bind", k |-> cur[f].k] \in Frame /\ cur[f].m \in Tree
        BY <1>0, <2>3, FrameTypes DEF WellTyped
      <3>2. /\ frames' = [frames EXCEPT ![f] = <<[kind |-> "bind", k |-> cur[f].k]>> \o @]
            /\ cur' = [cur EXCEPT ![f] = cur[f].m]
        BY <1>1, <2>3 DEF PushFrame
      <3>3. frames' \in [Fiber -> Seq(Frame)] /\ cur' \in [Fiber -> Tree]
        BY <2>2, <3>1, <3>2 DEF TypeOK
      <3> QED BY <1>1, <3>3 DEF PushFrame, memory, control, signal, TypeOK, AtShape
    <2>4. CASE cur[f].op = "orElse"
      <3>1. /\ [kind |-> "orElse", r |-> cur[f].r, nw |-> Len(wlog[f])] \in Frame
            /\ cur[f].l \in Tree
        BY <1>0, <2>1, <2>4, FrameTypes DEF WellTyped
      <3>2. /\ frames' = [frames EXCEPT ![f] =
                   <<[kind |-> "orElse", r |-> cur[f].r, nw |-> Len(wlog[f])]>> \o @]
            /\ cur' = [cur EXCEPT ![f] = cur[f].l]
        BY <1>1, <2>4 DEF PushFrame
      <3>3. frames' \in [Fiber -> Seq(Frame)] /\ cur' \in [Fiber -> Tree]
        BY <2>2, <3>1, <3>2 DEF TypeOK
      <3> QED BY <1>1, <3>3 DEF PushFrame, memory, control, signal, TypeOK, AtShape
    <2> QED BY <1>1, <2>3, <2>4 DEF PushFrame
  <1>2. CASE ReadTVar(f)
    <2>1. cur[f].tv \in TVar
      BY <1>0, <1>2 DEF ReadTVar, WellTyped
    <2>2. CASE Logged(wlog[f], cur[f].tv)
      <3>1. Pure(NewestWrite(wlog[f], cur[f].tv)) \in Tree
        BY <1>0, <2>2, NewestWriteType, StmAssumption
      <3>2. cur' = [cur EXCEPT ![f] = Pure(NewestWrite(wlog[f], cur[f].tv))] /\ rset' = rset
        BY <1>2, <2>2 DEF ReadTVar
      <3>3. cur' \in [Fiber -> Tree] /\ rset' \in [Fiber -> SUBSET REnt]
        BY <3>1, <3>2 DEF TypeOK
      <3> QED BY <1>2, <3>2, <3>3 DEF ReadTVar, memory, control, signal, TypeOK, AtShape
    <2>3. CASE ~Logged(wlog[f], cur[f].tv)
      <3>1. box[cur[f].tv].val \in Value /\ box[cur[f].tv].ver \in Nat
        BY <2>1 DEF TypeOK
      <3>2. /\ Pure(box[cur[f].tv].val) \in Tree
            /\ [tv |-> cur[f].tv, ver |-> box[cur[f].tv].ver, val |-> box[cur[f].tv].val] \in REnt
        BY <2>1, <3>1, StmAssumption DEF REnt
      <3>3. /\ cur' = [cur EXCEPT ![f] = Pure(box[cur[f].tv].val)]
            /\ rset' = [rset EXCEPT ![f] = @ \cup {[tv |-> cur[f].tv,
                   ver |-> box[cur[f].tv].ver, val |-> box[cur[f].tv].val]}]
        BY <1>2, <2>3 DEF ReadTVar, Sample
      <3>4. cur' \in [Fiber -> Tree] /\ rset' \in [Fiber -> SUBSET REnt]
        BY <3>2, <3>3 DEF TypeOK
      <3> QED BY <1>2, <3>4 DEF ReadTVar, memory, control, signal, TypeOK, AtShape
    <2> QED BY <2>2, <2>3
  <1>3. CASE WriteTVar(f)
    <2>1. [tv |-> cur[f].tv, val |-> cur[f].val] \in WEnt
      BY <1>0, <1>3 DEF WriteTVar, WellTyped, WEnt
    <2>2. Append(wlog[f], [tv |-> cur[f].tv, val |-> cur[f].val]) \in Seq(WEnt)
      BY <1>0, <2>1, AppendProperties
    <2>3. wlog' \in [Fiber -> Seq(WEnt)] /\ cur' \in [Fiber -> Tree]
      BY <1>3, <2>2, StmAssumption DEF WriteTVar, TypeOK
    <2> QED BY <1>3, <2>3 DEF WriteTVar, memory, control, signal, TypeOK, AtShape
  <1>4. CASE PopFrame(f)
    <2>1. Head(frames[f]) \in Frame /\ Tail(frames[f]) \in Seq(Frame)
      BY <1>0, <1>4, HeadTailProperties DEF PopFrame
    <2>2. cur[f].val \in Value
      BY <1>0, <1>4 DEF PopFrame, WellTyped
    <2>3. Head(frames[f]).kind = "bind" => Head(frames[f]).k[cur[f].val] \in Tree
      BY <2>1, <2>2, FrameTypes
    <2>4. frames' \in [Fiber -> Seq(Frame)] /\ cur' \in [Fiber -> Tree]
      BY <1>4, <2>1, <2>3 DEF PopFrame, TypeOK
    <2> QED BY <1>4, <2>4 DEF PopFrame, memory, control, signal, TypeOK, AtShape
  <1>5. CASE UnwindRetry(f)
    <2>1. CASE frames[f] = <<>>
      <3>1. /\ at' = [at EXCEPT ![f] = "revalidate"] /\ at[f] # "done"
            /\ UNCHANGED <<memory, todo, status, out, cur, frames, wlog, rset, reads, signal>>
        BY <1>5, <2>1 DEF UnwindRetry
      <3> QED BY <3>1 DEF memory, signal, TypeOK, AtShape
    <2>2. CASE frames[f] # <<>>
      <3>1. Head(frames[f]) \in Frame /\ Tail(frames[f]) \in Seq(Frame)
        BY <1>0, <2>2, HeadTailProperties
      <3>2. CASE Head(frames[f]).kind = "bind"
        <4>1. /\ frames' = [frames EXCEPT ![f] = Tail(frames[f])]
              /\ UNCHANGED <<memory, todo, status, at, out, cur, wlog, rset, reads, signal>>
          BY <1>5, <2>2, <3>2 DEF UnwindRetry
        <4> QED BY <3>1, <4>1 DEF memory, signal, TypeOK, AtShape
      <3>3. CASE Head(frames[f]).kind = "orElse"
        <4>1. Head(frames[f]).r \in Tree /\ Head(frames[f]).nw \in Nat
          BY <3>1, <3>3, FrameTypes
        <4>2. TruncateWrites(wlog[f], Head(frames[f]).nw) \in Seq(WEnt)
          <5>1. \A n \in Nat : n <= Len(wlog[f]) => SubSeq(wlog[f], 1, n) \in Seq(WEnt)
            <6>1. Len(wlog[f]) \in Nat /\ \A i \in 1..Len(wlog[f]) : wlog[f][i] \in WEnt
              BY <1>0, LenProperties, ElementOfSeq
            <6> QED BY <6>1, SubSeqProperties
          <5>2. Len(wlog[f]) \in Nat
            BY <1>0, LenProperties
          <5> QED BY <4>1, <5>1, <5>2 DEF TruncateWrites
        <4>3. /\ frames' = [frames EXCEPT ![f] = Tail(frames[f])]
              /\ cur' = [cur EXCEPT ![f] = Head(frames[f]).r]
              /\ wlog' = [wlog EXCEPT ![f] = TruncateWrites(wlog[f], Head(frames[f]).nw)]
              /\ UNCHANGED at
          BY <1>5, <2>2, <3>3 DEF UnwindRetry
        <4>4. /\ cur' \in [Fiber -> Tree] /\ frames' \in [Fiber -> Seq(Frame)]
              /\ wlog' \in [Fiber -> Seq(WEnt)]
          BY <3>1, <4>1, <4>2, <4>3 DEF TypeOK
        <4> QED BY <1>5, <4>3, <4>4 DEF UnwindRetry, memory, signal, TypeOK, AtShape
      <3> QED BY <1>5, <2>2, <3>2, <3>3 DEF UnwindRetry
    <2> QED BY <2>1, <2>2
  <1> QED BY <1>1, <1>2, <1>3, <1>4, <1>5

(* The commit.                                                             *)
LEMMA CommitType ==
  ASSUME TypeOK, AtShape, NEW f \in Fiber, Commit(f)
  PROVE  TypeOK' /\ AtShape'
  <1>1. CASE ~Valid(f)
    <2>1. Restart(f) /\ at[f] # "done" /\ UNCHANGED <<memory, todo, status, out, reads, signal>>
      BY <1>1 DEF Commit
    <2> QED BY <2>1, RestartType DEF TypeOK, AtShape, memory, signal
  <1>2. CASE Valid(f)
    <2>1. box' \in [TVar -> [val : Value, ver : Nat]]
      <3>1. wlog[f] \in Seq(WEnt)
        BY DEF TypeOK
      <3>2. \A tv \in TVar : Logged(wlog[f], tv) => NewestWrite(wlog[f], tv) \in Value
        BY <3>1, NewestWriteType
      <3>3. tick + 1 \in Nat
        BY DEF TypeOK
      <3> QED BY <1>2, <3>2, <3>3 DEF Commit, NewTick, TypeOK
    <2>2. tick' \in Nat /\ watchers' \in [TVar -> SUBSET Fiber] /\ todo' \in [Fiber -> SUBSET Fiber]
      <3>1. /\ tick' = tick + 1
            /\ todo' = [todo EXCEPT ![f] =
                          UNION {watchers[tv] : tv \in {x \in TVar : Logged(wlog[f], x)}}]
            /\ watchers' = [tv \in TVar |-> IF Logged(wlog[f], tv) THEN {} ELSE watchers[tv]]
        BY <1>2 DEF Commit, NewTick
      <3>2. UNION {watchers[tv] : tv \in {x \in TVar : Logged(wlog[f], x)}} \subseteq Fiber
        BY DEF TypeOK
      <3> QED BY <3>1, <3>2 DEF TypeOK
    <2>3. past' \subseteq [TVar -> Nat]
      BY <1>2, <2>1 DEF Commit, TypeOK
    <2>4. /\ at' = [at EXCEPT ![f] = "wake"] /\ at[f] # "done" /\ cur[f].op = "pure"
          /\ UNCHANGED <<journal, status, out, reads, signal>>
      BY <1>2 DEF Commit
    <2> QED BY <2>1, <2>2, <2>3, <2>4 DEF TypeOK, AtShape, journal, signal
  <1> QED BY <1>1, <1>2

(* The other steps of atomically, and those of interrupters.               *)
LEMMA AtomicallyType ==
  ASSUME TypeOK, AtShape, ParkShape, NEW f \in Fiber,
         \/ Enter(f) \/ Wake(f) \/ Return(f) \/ Revalidate(f) \/ DeliverBeforePark(f)
         \/ Park(f) \/ Resume(f) \/ Claim(f) \/ Request(f) \/ Poke(f)
  PROVE  TypeOK' /\ AtShape'
  <1>1. CASE Enter(f)
    BY <1>1, UnparkType, RestartType DEF Enter, TypeOK, AtShape, signal
  <1>2. CASE Wake(f)
    BY <1>2 DEF Wake, TypeOK, AtShape, memory, journal, signal
  <1>3. CASE Return(f)
    <2>1. cur[f].val \in Value
      BY <1>3, StmAssumption DEF Return, TypeOK, AtShape, WellTyped
    <2>2. MovesOn(f, Committed(cur[f].val)) /\ UNCHANGED <<memory, todo, status, journal, reads, signal>>
      BY <1>3 DEF Return
    <2> QED BY <2>1, <2>2, MovesOnType, OutcomeTypes DEF TypeOK, memory, journal, signal
  <1>4. CASE Revalidate(f)
    <2>1. CASE ~Valid(f)
      BY <1>4, <2>1, RestartType DEF Revalidate, TypeOK, AtShape, memory, signal
    <2>2. CASE Valid(f)
      <3>1. /\ at' = [at EXCEPT ![f] = "deliver"] /\ at[f] # "done"
            /\ UNCHANGED <<memory, todo, status, out, reads, signal, journal>>
        BY <1>4, <2>2 DEF Revalidate
      <3> QED BY <3>1 DEF TypeOK, AtShape, memory, signal, journal
    <2> QED BY <2>1, <2>2
  <1>5. CASE DeliverBeforePark(f)
    <2>1. CASE f \in pending
      BY <1>5, <2>1, InterruptedType DEF DeliverBeforePark, TypeOK, journal
    <2>2. CASE f \notin pending
      BY <1>5, <2>2 DEF DeliverBeforePark, TypeOK, AtShape, journal
    <2> QED BY <2>1, <2>2
  <1>6. CASE Park(f)
    <2>1. CASE ~Valid(f)
      BY <1>6, <2>1, RestartType DEF Park, TypeOK, AtShape
    <2>2. CASE Valid(f)
      <3>1. ReadTVars(f) \subseteq TVar
        BY DEF TypeOK, ReadTVars, REnt
      <3>2. /\ reads' \in [Fiber -> SUBSET TVar] /\ watchers' \in [TVar -> SUBSET Fiber]
            /\ claims' \in [Fiber -> Nat]
        <4>1. /\ reads' = [reads EXCEPT ![f] = ReadTVars(f)]
              /\ watchers' = [tv \in TVar |-> IF tv \in ReadTVars(f)
                                                THEN watchers[tv] \cup {f} ELSE watchers[tv]]
              /\ claims' = [claims EXCEPT ![f] = @ + 1]
          BY <1>6, <2>2 DEF Park
        <4> QED BY <3>1, <4>1 DEF TypeOK
      <3>3. /\ status' = [status EXCEPT ![f] = "Parked"]
            /\ at' = [at EXCEPT ![f] = "parked"] /\ at[f] # "done"
            /\ UNCHANGED <<box, tick, past, todo, out, pending, poke, journal>>
        BY <1>6, <2>2 DEF Park
      <3> QED BY <3>2, <3>3 DEF TypeOK, AtShape, journal
    <2> QED BY <2>1, <2>2
  <1>7. CASE Resume(f)
    <2>1. CASE f \in pending
      BY <1>7, <2>1, InterruptedType DEF Resume, TypeOK, journal
    <2>2. CASE f \notin pending
      <3>1. at[f] # "done"
        BY <1>7 DEF Resume, ParkShape
      <3>2. /\ status' = [status EXCEPT ![f] = "Running"]
            /\ at' = [at EXCEPT ![f] = "enter"]
            /\ UNCHANGED <<box, tick, past, todo, journal, poke, claims, watchers, reads, pending, out>>
        BY <1>7, <2>2 DEF Resume
      <3> QED BY <3>1, <3>2 DEF TypeOK, AtShape, journal
    <2> QED BY <2>1, <2>2
  <1>8. CASE Claim(f)
    <2>1. claims' \in [Fiber -> Nat]
      BY <1>8 DEF Claim, TypeOK
    <2>2. CASE f \in pending /\ status[f] = "Parked"
      BY <1>8, <2>1, <2>2, InterruptedType DEF Claim, TypeOK, journal
    <2>3. CASE ~(f \in pending /\ status[f] = "Parked")
      BY <1>8, <2>1, <2>3 DEF Claim, TypeOK, AtShape, journal
    <2> QED BY <2>2, <2>3
  <1>9. CASE Request(f)
    BY <1>9 DEF Request, TypeOK, AtShape, memory, control, journal
  <1>10. CASE Poke(f)
    BY <1>10 DEF Poke, TypeOK, AtShape, memory, journal
  <1> QED BY <1>1, <1>2, <1>3, <1>4, <1>5, <1>6, <1>7, <1>8, <1>9, <1>10

(* Parked and woken fibers are at their retry-park.                        *)
LEMMA ParkShapeStep ==
  ASSUME TypeOK, ParkShape, NEW f \in Fiber,
         Worker(f) \/ Claim(f) \/ Request(f) \/ Poke(f)
  PROVE  ParkShape'
  <1>1. CASE Enter(f) \/ PushFrame(f) \/ ReadTVar(f) \/ WriteTVar(f) \/ PopFrame(f)
             \/ UnwindRetry(f) \/ Revalidate(f)
    BY <1>1 DEF Enter, PushFrame, ReadTVar, WriteTVar, PopFrame, UnwindRetry, Revalidate,
                Restart, control, TypeOK, ParkShape
  <1>2. CASE Commit(f)
    <2>1. at[f] = "run" /\ status' = status /\ \E x \in {"run", "wake"} : at' = [at EXCEPT ![f] = x]
      BY <1>2 DEF Commit, Restart
    <2> QED BY <2>1 DEF TypeOK, ParkShape
  <1>3. CASE Wake(f)
    BY <1>3 DEF Wake, TypeOK, ParkShape
  <1>4. CASE Return(f)
    <2>1. at[f] = "wake" /\ status' = status /\ \E x \in {"enter", "done"} : at' = [at EXCEPT ![f] = x]
      BY <1>4 DEF Return, MovesOn
    <2> QED BY <2>1 DEF TypeOK, ParkShape
  <1>5. CASE DeliverBeforePark(f)
    <2>1. /\ at[f] = "deliver" /\ status' = status
          /\ \E x \in {"enter", "done", "park"} : at' = [at EXCEPT ![f] = x]
      BY <1>5 DEF DeliverBeforePark, Interrupted, MovesOn
    <2> QED BY <2>1 DEF TypeOK, ParkShape
  <1>6. CASE Park(f)
    <2>1. /\ at[f] = "park"
          /\ \/ status' = status /\ at' = [at EXCEPT ![f] = "run"]
             \/ status' = [status EXCEPT ![f] = "Parked"] /\ at' = [at EXCEPT ![f] = "parked"]
      BY <1>6 DEF Park, Restart
    <2> QED BY <2>1 DEF TypeOK, ParkShape
  <1>7. CASE Resume(f)
    <2>1. /\ status' = [status EXCEPT ![f] = "Running"]
          /\ \E x \in {"enter", "done"} : at' = [at EXCEPT ![f] = x]
      BY <1>7 DEF Resume, Interrupted, MovesOn
    <2> QED BY <2>1 DEF TypeOK, ParkShape
  <1>8. CASE Claim(f)
    <2>1. \/ /\ status' = [status EXCEPT ![f] = "Running"]
             /\ \E x \in {"enter", "done"} : at' = [at EXCEPT ![f] = x]
          \/ status' = status /\ at' = at
      BY <1>8 DEF Claim, Interrupted, MovesOn
    <2> QED BY <2>1 DEF TypeOK, ParkShape
  <1>9. CASE Request(f) \/ Poke(f)
    BY <1>9 DEF Request, Poke, control, TypeOK, ParkShape
  <1> QED BY <1>1, <1>2, <1>3, <1>4, <1>5, <1>6, <1>7, <1>8, <1>9 DEF Worker

TypeInv == TypeOK /\ AtShape /\ ParkShape

(* The types are preserved by every step.                                  *)
LEMMA TypeInvStep == TypeInv /\ [Next]_vars => TypeInv'
  <1> SUFFICES ASSUME TypeInv, [Next]_vars PROVE TypeInv'
    OBVIOUS
  <1>0. TypeOK /\ AtShape /\ ParkShape
    BY DEF TypeInv
  <1>1. CASE UNCHANGED vars
    BY <1>0, <1>1 DEF TypeInv, TypeOK, AtShape, ParkShape, vars, memory, control, journal, signal
  <1>2. CASE Next
    <2>1. PICK f \in Fiber : Worker(f) \/ Claim(f) \/ Request(f) \/ Poke(f)
      BY <1>2 DEF Next
    <2>2. ParkShape'
      BY <1>0, <2>1, ParkShapeStep
    <2>3. TypeOK' /\ AtShape'
      BY <1>0, <2>1, RunType, CommitType, AtomicallyType DEF Worker
    <2> QED BY <2>2, <2>3 DEF TypeInv
  <1> QED BY <1>1, <1>2

(* Every variable of stm.c's model keeps its type, whatever the well-typed *)
(* transactions do: the continuation of a bind is never applied to         *)
(* anything but a value, and the newest-first search never comes up empty. *)
THEOREM StmTypeCorrect == Spec => []TypeOK
  <1>1. Init => TypeInv
    <2>1. Init => ParkShape
      BY DEF Init, ParkShape
    <2> QED BY <2>1, TypeInit DEF TypeInv
  <1>2. TypeInv => TypeOK
    BY DEF TypeInv
  <1> QED BY <1>1, <1>2, TypeInvStep, PTL DEF Spec

----------------------------------------------------------------------------
(* Versions.  The commit's version is newer than every one in use, so a    *)
(* version that a TVar has once named a value with names no other.         *)
Versions ==
  /\ \A tv \in TVar : box[tv].ver <= tick
  /\ \A f \in Fiber : \A r \in rset[f] : r.ver <= tick

VersionInv == TypeInv /\ Versions /\ VersionsNameValues

(* Only a read adds to a read set, and only a commit changes the TVars.    *)
LEMMA ReadSets ==
  ASSUME TypeOK, NEW f \in Fiber, Worker(f) \/ Claim(f) \/ Request(f) \/ Poke(f)
  PROVE  \/ ReadTVar(f)
         \/ Commit(f) /\ Valid(f)
         \/ box' = box /\ tick' = tick /\ \A g \in Fiber : rset'[g] \subseteq rset[g]
  <1>1. CASE Restart(f) /\ box' = box /\ tick' = tick
    BY <1>1 DEF Restart, TypeOK
  <1>2. CASE rset' = rset /\ box' = box /\ tick' = tick
    BY <1>2
  <1>3. CASE Commit(f) /\ ~Valid(f)
    BY <1>1, <1>3 DEF Commit, memory
  <1>4. CASE \/ Enter(f) \/ PushFrame(f) \/ WriteTVar(f) \/ PopFrame(f) \/ UnwindRetry(f)
             \/ Wake(f) \/ Return(f)
    BY <1>1, <1>2, <1>4 DEF Enter, PushFrame, WriteTVar, PopFrame, UnwindRetry, Wake, Return,
                            memory, journal
  <1>5. CASE Revalidate(f) \/ DeliverBeforePark(f) \/ Park(f) \/ Resume(f)
    BY <1>1, <1>2, <1>5 DEF Revalidate, DeliverBeforePark, Park, Resume, memory, journal
  <1>6. CASE Claim(f) \/ Request(f) \/ Poke(f)
    BY <1>2, <1>6 DEF Claim, Request, Poke, memory, journal
  <1> QED BY <1>3, <1>4, <1>5, <1>6 DEF Worker

(* Versions are preserved: a commit gives a variable a version no log has. *)
LEMMA VersionStep ==
  ASSUME TypeInv, Versions, VersionsNameValues, [Next]_vars
  PROVE  Versions' /\ VersionsNameValues'
  <1>0. TypeOK /\ tick \in Nat /\ \A tv \in TVar : box[tv].ver \in Nat
    BY DEF TypeInv, TypeOK
  <1>1. \A f \in Fiber : \A r \in rset[f] : r.tv \in TVar /\ r.ver \in Nat
    BY DEF TypeInv, TypeOK, REnt
  <1>2. CASE UNCHANGED vars
    BY <1>2 DEF Versions, VersionsNameValues, vars, memory, journal
  <1>3. CASE Next
    <2>1. PICK f \in Fiber : Worker(f) \/ Claim(f) \/ Request(f) \/ Poke(f)
      BY <1>3 DEF Next
    <2>2. CASE box' = box /\ tick' = tick /\ \A g \in Fiber : rset'[g] \subseteq rset[g]
      BY <2>2 DEF Versions, VersionsNameValues
    <2>3. CASE ReadTVar(f)
      <3>1. cur[f].tv \in TVar
        BY <1>0, <2>3, StmAssumption DEF ReadTVar, TypeOK, WellTyped
      <3>2. box' = box /\ tick' = tick
        BY <2>3 DEF ReadTVar, memory
      <3>3. \A g \in Fiber : \A r \in rset'[g] :
              r \in rset[g] \/ r = [tv |-> cur[f].tv, ver |-> box[cur[f].tv].ver,
                                    val |-> box[cur[f].tv].val]
        <4>1. \/ rset' = rset
              \/ rset' = [rset EXCEPT ![f] = @ \cup {[tv |-> cur[f].tv,
                     ver |-> box[cur[f].tv].ver, val |-> box[cur[f].tv].val]}]
          BY <2>3 DEF ReadTVar, Sample
        <4> QED BY <1>0, <4>1 DEF TypeOK
      <3>4. Versions'
        BY <3>1, <3>2, <3>3 DEF Versions
      <3>5. VersionsNameValues'
        BY <3>1, <3>2, <3>3 DEF VersionsNameValues
      <3> QED BY <3>4, <3>5
    <2>4. CASE Commit(f) /\ Valid(f)
      <3>1. /\ tick' = tick + 1 /\ rset' = rset
            /\ \A tv \in TVar : box'[tv] = box[tv] \/ box'[tv].ver = tick + 1
        BY <2>4 DEF Commit, NewTick, journal
      <3>2. Versions'
        BY <1>0, <1>1, <3>1 DEF Versions
      <3>3. VersionsNameValues'
        BY <1>0, <1>1, <3>1 DEF Versions, VersionsNameValues
      <3> QED BY <3>2, <3>3
    <2> QED BY <1>0, <2>1, <2>2, <2>3, <2>4, ReadSets
  <1> QED BY <1>2, <1>3

(* They hold in every reachable state.                                     *)
LEMMA VersionInvariant == Spec => []VersionInv
  <1>1. Init => VersionInv
    <2>1. Init => TypeInv
      BY TypeInit DEF TypeInv, Init, ParkShape
    <2>2. Init => Versions /\ VersionsNameValues
      BY DEF Init, Versions, VersionsNameValues
    <2> QED BY <2>1, <2>2 DEF VersionInv
  <1>2. VersionInv /\ [Next]_vars => VersionInv'
    BY TypeInvStep, VersionStep DEF VersionInv
  <1> QED BY <1>1, <1>2, PTL DEF Spec

(* Validation by versions is sound in stm.c: what was read with a version  *)
(* the TVar still has is the value it still has.                           *)
THEOREM VersionsAreNames == Spec => []VersionsNameValues
  BY VersionInvariant, PTL DEF VersionInv

(* A commit of stm.c takes place on one memory: everything it has read is  *)
(* the current value at the instant its writes are installed.              *)
THEOREM CommitsOnOneMemory == Spec => CommitsAreAtomic
  <1> DEFINE A == \A f \in Fiber : at[f] = "run" /\ at'[f] = "wake" =>
                     \A r \in rset[f] : box[r.tv].val = r.val
  <1>1. VersionInv /\ [Next]_vars => [A]_vars
    <2> SUFFICES ASSUME VersionInv, Next, NEW g \in Fiber, at[g] = "run", at'[g] = "wake",
                        NEW r \in rset[g]
                 PROVE  box[r.tv].val = r.val
      OBVIOUS
    <2>0. TypeOK
      BY DEF VersionInv, TypeInv
    <2>1. PICK f \in Fiber : Worker(f) \/ Claim(f) \/ Request(f) \/ Poke(f)
      BY DEF Next
    <2>2. f = g /\ Commit(g) /\ Valid(g)
      <3>1. CASE Commit(f)
        <4>1. CASE Valid(f)
          <5>1. at' = [at EXCEPT ![f] = "wake"]
            BY <3>1, <4>1 DEF Commit
          <5> QED BY <2>0, <3>1, <4>1, <5>1 DEF TypeOK
        <4>2. CASE ~Valid(f)
          <5>1. at' = [at EXCEPT ![f] = "run"]
            BY <3>1, <4>2 DEF Commit, Restart
          <5> QED BY <2>0, <5>1 DEF TypeOK
        <4> QED BY <4>1, <4>2
      <3>2. ASSUME ~Commit(f) PROVE at' = at \/ \E x : x # "wake" /\ at' = [at EXCEPT ![f] = x]
        BY <2>1, <3>2 DEF Worker, Enter, PushFrame, ReadTVar, WriteTVar, PopFrame, UnwindRetry,
             Wake, Return, Revalidate, DeliverBeforePark, Park, Resume, Claim, Request, Poke,
             Restart, Interrupted, MovesOn, control
      <3> QED BY <2>0, <3>1, <3>2 DEF TypeOK
    <2> QED BY <2>2 DEF Valid, VersionInv, VersionsNameValues
  <1> QED BY <1>1, VersionInvariant, PTL DEF Spec, CommitsAreAtomic

----------------------------------------------------------------------------
(* Retry.  NoStaleWatcher says who is on the watcher lists, NoLostRetry    *)
(* who is reached by them.                                                 *)
RetryInv == TypeInv /\ NoStaleWatcher /\ NoLostRetry

(* What the interrupt of a retry-parked fiber leaves behind.               *)
LEMMA UnparkLeaves ==
  ASSUME TypeOK, NoStaleWatcher, NEW f \in Fiber, Unpark(f)
  PROVE  /\ \A tv \in TVar : watchers'[tv] = watchers[tv] \ {f}
         /\ \A g \in Fiber : g # f => reads'[g] = reads[g]
  <1>1. \A tv \in TVar : f \in watchers[tv] => tv \in reads[f]
    BY DEF NoStaleWatcher
  <1>2. \A tv \in TVar : watchers'[tv] = IF tv \in reads[f] THEN watchers[tv] \ {f} ELSE watchers[tv]
    BY DEF Unpark
  <1>3. \A g \in Fiber : g # f => reads'[g] = reads[g]
    BY DEF Unpark, TypeOK
  <1> QED BY <1>1, <1>2, <1>3

(* After any step, a fiber on a watcher list is still in the retry that    *)
(* put it there.                                                           *)
LEMMA StaleStep ==
  ASSUME TypeInv, NoStaleWatcher, NEW f \in Fiber,
         Worker(f) \/ Claim(f) \/ Request(f) \/ Poke(f)
  PROVE  NoStaleWatcher'
  <1>0. TypeOK /\ ParkShape
    BY DEF TypeInv
  <1>1. CASE Unpark(f) /\ \A g \in Fiber : g # f => at'[g] = at[g]
    BY <1>0, <1>1, UnparkLeaves DEF NoStaleWatcher, TypeOK
  <1>2. ASSUME at[f] \notin {"enter", "parked"}, \A tv \in TVar : watchers'[tv] \subseteq watchers[tv],
               reads' = reads, \A g \in Fiber : g # f => at'[g] = at[g]
        PROVE  NoStaleWatcher'
    BY <1>0, <1>2 DEF NoStaleWatcher, TypeOK
  <1>3. ASSUME Restart(f) \/ \E x : at' = [at EXCEPT ![f] = x]
        PROVE  \A g \in Fiber : g # f => at'[g] = at[g]
    BY <1>0, <1>3 DEF Restart, TypeOK
  <1>4. CASE Enter(f)
    BY <1>1, <1>3, <1>4 DEF Enter
  <1>5. CASE PushFrame(f) \/ ReadTVar(f) \/ WriteTVar(f) \/ PopFrame(f) \/ UnwindRetry(f)
    <2>1. at[f] = "run" /\ watchers' = watchers /\ reads' = reads
      BY <1>5 DEF PushFrame, ReadTVar, WriteTVar, PopFrame, UnwindRetry, memory
    <2>2. at' = at \/ \E x : at' = [at EXCEPT ![f] = x]
      BY <1>5 DEF PushFrame, ReadTVar, WriteTVar, PopFrame, UnwindRetry, control
    <2> QED BY <1>2, <1>3, <2>1, <2>2
  <1>6. CASE Commit(f)
    <2>1. /\ at[f] = "run" /\ reads' = reads /\ \A tv \in TVar : watchers'[tv] \subseteq watchers[tv]
      BY <1>6 DEF Commit, memory
    <2>2. Restart(f) \/ \E x : at' = [at EXCEPT ![f] = x]
      BY <1>6 DEF Commit
    <2> QED BY <1>2, <1>3, <2>1, <2>2
  <1>7. CASE Wake(f) \/ Return(f) \/ Revalidate(f)
    <2>1. at[f] \in {"wake", "revalidate"} /\ watchers' = watchers /\ reads' = reads
      BY <1>7 DEF Wake, Return, Revalidate, memory
    <2>2. at' = at \/ Restart(f) \/ \E x : at' = [at EXCEPT ![f] = x]
      BY <1>7 DEF Wake, Return, Revalidate, MovesOn
    <2> QED BY <1>2, <1>3, <2>1, <2>2
  <1>8. CASE DeliverBeforePark(f)
    <2>1. \E x : at' = [at EXCEPT ![f] = x]
      BY <1>8 DEF DeliverBeforePark, Interrupted, MovesOn
    <2>2. Unpark(f) \/ (watchers' = watchers /\ reads' = reads)
      BY <1>8 DEF DeliverBeforePark, Interrupted
    <2>3. at[f] = "deliver"
      BY <1>8 DEF DeliverBeforePark
    <2> QED BY <1>1, <1>2, <1>3, <2>1, <2>2, <2>3
  <1>9. CASE Park(f)
    <2>1. CASE ~Valid(f)
      <3>1. at[f] = "park" /\ watchers' = watchers /\ reads' = reads /\ Restart(f)
        BY <1>9, <2>1 DEF Park
      <3> QED BY <1>2, <1>3, <3>1
    <2>2. CASE Valid(f)
      <3>1. /\ at[f] = "park"
            /\ reads' = [reads EXCEPT ![f] = ReadTVars(f)]
            /\ \A tv \in TVar : watchers'[tv] = IF tv \in ReadTVars(f) THEN watchers[tv] \cup {f}
                                                ELSE watchers[tv]
            /\ at' = [at EXCEPT ![f] = "parked"]
        BY <1>9, <2>2 DEF Park
      <3>2. \A tv \in TVar : f \notin watchers[tv]
        BY <3>1 DEF NoStaleWatcher
      <3>3. /\ reads'[f] = ReadTVars(f) /\ at'[f] = "parked"
            /\ \A g \in Fiber : g # f => reads'[g] = reads[g] /\ at'[g] = at[g]
        BY <1>0, <3>1 DEF TypeOK
      <3>4. ASSUME NEW tv \in TVar, NEW g \in watchers'[tv]
            PROVE  tv \in reads'[g] /\ (at'[g] = "parked" \/ at'[g] = "enter")
        <4>1. (g = f /\ tv \in ReadTVars(f)) \/ g \in watchers[tv]
          BY <3>1, <3>4
        <4>2. CASE g = f /\ tv \in ReadTVars(f)
          BY <3>3, <4>2
        <4>3. CASE g \in watchers[tv]
          <5>1. g \in Fiber /\ g # f
            BY <1>0, <3>2, <4>3 DEF TypeOK
          <5> QED BY <3>3, <4>3, <5>1 DEF NoStaleWatcher
        <4> QED BY <4>1, <4>2, <4>3
      <3> QED BY <3>4 DEF NoStaleWatcher
    <2> QED BY <2>1, <2>2
  <1>10. CASE Resume(f)
    <2>1. \E x : at' = [at EXCEPT ![f] = x]
      BY <1>10 DEF Resume, Interrupted, MovesOn
    <2>2. Unpark(f) \/ (watchers' = watchers /\ reads' = reads /\ at' = [at EXCEPT ![f] = "enter"])
      BY <1>10 DEF Resume, Interrupted
    <2>3. CASE watchers' = watchers /\ reads' = reads /\ at' = [at EXCEPT ![f] = "enter"]
      BY <1>0, <2>3 DEF NoStaleWatcher, TypeOK
    <2> QED BY <1>1, <1>3, <2>1, <2>2, <2>3
  <1>11. CASE Claim(f)
    <2>1. \/ Unpark(f) /\ \E x : at' = [at EXCEPT ![f] = x]
          \/ watchers' = watchers /\ reads' = reads /\ at' = at
      BY <1>11 DEF Claim, Interrupted, MovesOn
    <2>2. CASE watchers' = watchers /\ reads' = reads /\ at' = at
      BY <2>2 DEF NoStaleWatcher
    <2> QED BY <1>1, <1>3, <2>1, <2>2
  <1>12. CASE Request(f) \/ Poke(f)
    BY <1>12 DEF Request, Poke, memory, control, NoStaleWatcher
  <1> QED BY <1>4, <1>5, <1>6, <1>7, <1>8, <1>9, <1>10, <1>11, <1>12 DEF Worker

(* What NoLostRetry says of one fiber.                                     *)
Reached(g) ==
  \/ \A r \in rset[g] : g \in watchers[r.tv] /\ box[r.tv].ver = r.ver
  \/ \E h \in Fiber : at[h] = "wake" /\ g \in todo[h]

(* After any step, a retry-parked fiber watches what it has read, or       *)
(* somebody is about to wake it.                                           *)
LEMMA RetryStep ==
  ASSUME TypeInv, NoStaleWatcher, NoLostRetry, NEW f \in Fiber,
         Worker(f) \/ Claim(f) \/ Request(f) \/ Poke(f)
  PROVE  NoLostRetry'
  <1>0. TypeOK /\ ParkShape
    BY DEF TypeInv
  <1>1. \A g \in Fiber : status[g] = "Parked" => Reached(g) /\ at[g] = "parked"
    BY <1>0 DEF NoLostRetry, Reached, ParkShape
  <1>2. SUFFICES ASSUME NEW g \in Fiber, status'[g] = "Parked" PROVE Reached(g)'
    BY DEF NoLostRetry, Reached
  <1>3. \A r \in rset[g] : r.tv \in TVar
    BY <1>0 DEF TypeOK, REnt
  \* A step that keeps g's park and the wakes on their way to it.
  <1>4. ASSUME status[g] = "Parked", box' = box, rset'[g] = rset[g],
               \A tv \in TVar : g \in watchers[tv] => g \in watchers'[tv],
               \A h \in Fiber : at[h] = "wake" /\ g \in todo[h] => at'[h] = "wake" /\ g \in todo'[h]
        PROVE  Reached(g)'
    BY <1>1, <1>3, <1>4 DEF Reached
  \* The same for a step of f that changes f's own place only.
  <1>5. ASSUME status' = status, box' = box, f # g => rset'[g] = rset[g],
               \A tv \in TVar : f # g /\ g \in watchers[tv] => g \in watchers'[tv],
               todo' = todo, at[f] \notin {"parked", "wake"},
               \A h \in Fiber : h # f => at'[h] = at[h]
        PROVE  Reached(g)'
    <2>1. status[g] = "Parked" /\ f # g
      BY <1>1, <1>2, <1>5
    <2> QED BY <1>4, <1>5, <2>1
  <1>6. CASE Enter(f)
    <2>1. /\ status' = status /\ box' = box /\ todo' = todo /\ at[f] = "enter"
          /\ Unpark(f) /\ Restart(f)
      BY <1>6 DEF Enter
    <2>2. /\ f # g => rset'[g] = rset[g]
          /\ \A h \in Fiber : h # f => at'[h] = at[h]
      BY <1>0, <2>1 DEF Restart, TypeOK
    <2>3. \A tv \in TVar : f # g /\ g \in watchers[tv] => g \in watchers'[tv]
      BY <1>0, <2>1, UnparkLeaves
    <2> QED BY <1>5, <2>1, <2>2, <2>3
  <1>7. CASE PushFrame(f) \/ ReadTVar(f) \/ WriteTVar(f) \/ PopFrame(f) \/ UnwindRetry(f)
    <2>1. /\ at[f] = "run" /\ watchers' = watchers /\ status' = status /\ box' = box
          /\ todo' = todo
      BY <1>7 DEF PushFrame, ReadTVar, WriteTVar, PopFrame, UnwindRetry, memory, control
    <2>2. at' = at \/ \E x : at' = [at EXCEPT ![f] = x]
      BY <1>7 DEF PushFrame, ReadTVar, WriteTVar, PopFrame, UnwindRetry, control
    <2>3. rset' = rset \/ \E x : rset' = [rset EXCEPT ![f] = x]
      BY <1>7 DEF PushFrame, ReadTVar, WriteTVar, PopFrame, UnwindRetry
    <2>4. f # g => rset'[g] = rset[g]
      BY <1>0, <2>3 DEF TypeOK
    <2>5. \A h \in Fiber : h # f => at'[h] = at[h]
      BY <1>0, <2>2 DEF TypeOK
    <2> QED BY <1>5, <2>1, <2>4, <2>5
  <1>8. CASE Commit(f)
    <2>1. at[f] = "run" /\ status' = status
      BY <1>8 DEF Commit
    <2>2. status[g] = "Parked" /\ f # g
      BY <1>1, <1>2, <2>1
    <2>3. CASE ~Valid(f)
      <3>1. box' = box /\ watchers' = watchers /\ todo' = todo /\ Restart(f)
        BY <1>8, <2>3 DEF Commit, memory
      <3>2. rset'[g] = rset[g] /\ \A h \in Fiber : h # f => at'[h] = at[h]
        BY <1>0, <2>2, <3>1 DEF Restart, TypeOK
      <3> QED BY <1>5, <2>1, <3>1, <3>2
    <2>4. CASE Valid(f)
      <3>1. /\ \A tv \in TVar : ~Logged(wlog[f], tv) =>
                 box'[tv] = box[tv] /\ watchers'[tv] = watchers[tv]
            /\ todo' = [todo EXCEPT ![f] =
                          UNION {watchers[tv] : tv \in {x \in TVar : Logged(wlog[f], x)}}]
            /\ at' = [at EXCEPT ![f] = "wake"] /\ rset' = rset
        BY <1>8, <2>4 DEF Commit, journal
      <3>2. /\ at'[f] = "wake" /\ \A h \in Fiber : h # f => at'[h] = at[h] /\ todo'[h] = todo[h]
            /\ todo'[f] = UNION {watchers[tv] : tv \in {x \in TVar : Logged(wlog[f], x)}}
        BY <1>0, <3>1 DEF TypeOK
      <3>3. CASE \E h \in Fiber : at[h] = "wake" /\ g \in todo[h]
        BY <2>1, <3>2, <3>3 DEF Reached
      <3>4. CASE \A r \in rset[g] : g \in watchers[r.tv] /\ box[r.tv].ver = r.ver
        <4>1. CASE \E r \in rset[g] : Logged(wlog[f], r.tv)
          <5>1. PICK r \in rset[g] : Logged(wlog[f], r.tv)
            BY <4>1
          <5>2. g \in todo'[f]
            BY <1>3, <3>2, <3>4, <5>1
          <5> QED BY <3>2, <5>2 DEF Reached
        <4>2. CASE \A r \in rset[g] : ~Logged(wlog[f], r.tv)
          BY <1>3, <3>1, <3>4, <4>2 DEF Reached
        <4> QED BY <4>1, <4>2
      <3> QED BY <1>1, <2>2, <3>3, <3>4 DEF Reached
    <2> QED BY <2>3, <2>4
  <1>9. CASE Wake(f)
    <2>1. PICK k \in todo[f] :
            /\ todo' = [todo EXCEPT ![f] = @ \ {k}]
            /\ status' = IF status[k] = "Parked" THEN [status EXCEPT ![k] = "Runnable"] ELSE status
      BY <1>9 DEF Wake
    <2>2. k \in Fiber
      BY <1>0 DEF TypeOK
    <2>3. status[g] = "Parked" /\ g # k
      BY <1>0, <1>2, <2>1, <2>2 DEF TypeOK
    <2>4. box' = box /\ rset' = rset /\ watchers' = watchers /\ at' = at
      BY <1>9 DEF Wake, memory, journal
    <2>5. \A h \in Fiber : g \in todo[h] => g \in todo'[h]
      BY <1>0, <2>1, <2>3 DEF TypeOK
    <2> QED BY <1>4, <2>3, <2>4, <2>5
  <1>10. CASE Return(f)
    <2>1. /\ status' = status /\ box' = box /\ rset' = rset /\ watchers' = watchers
          /\ todo' = todo /\ todo[f] = {} /\ \E x : at' = [at EXCEPT ![f] = x]
      BY <1>10 DEF Return, MovesOn, memory, journal
    <2>2. \A h \in Fiber : h # f => at'[h] = at[h]
      BY <1>0, <2>1 DEF TypeOK
    <2>3. \A h \in Fiber : at[h] = "wake" /\ g \in todo[h] => at'[h] = "wake" /\ g \in todo'[h]
      BY <2>1, <2>2
    <2> QED BY <1>2, <1>4, <2>1, <2>3
  <1>11. CASE Revalidate(f)
    <2>1. /\ at[f] = "revalidate" /\ status' = status /\ box' = box /\ watchers' = watchers
          /\ todo' = todo
          /\ Restart(f) \/ (rset' = rset /\ at' = [at EXCEPT ![f] = "deliver"])
      BY <1>11 DEF Revalidate, memory, journal
    <2>2. (f # g => rset'[g] = rset[g]) /\ \A h \in Fiber : h # f => at'[h] = at[h]
      BY <1>0, <2>1 DEF Restart, TypeOK
    <2> QED BY <1>5, <2>1, <2>2
  <1>12. CASE DeliverBeforePark(f)
    <2>1. /\ at[f] = "deliver" /\ status' = status /\ box' = box /\ todo' = todo /\ rset' = rset
          /\ Unpark(f) \/ watchers' = watchers
          /\ \E x : at' = [at EXCEPT ![f] = x]
      BY <1>12 DEF DeliverBeforePark, Interrupted, MovesOn, journal
    <2>2. \A h \in Fiber : h # f => at'[h] = at[h]
      BY <1>0, <2>1 DEF TypeOK
    <2>3. \A tv \in TVar : f # g /\ g \in watchers[tv] => g \in watchers'[tv]
      BY <1>0, <2>1, UnparkLeaves
    <2> QED BY <1>5, <2>1, <2>2, <2>3
  <1>13. CASE Park(f)
    <2>1. CASE ~Valid(f)
      <3>1. /\ at[f] = "park" /\ status' = status /\ box' = box /\ todo' = todo
            /\ watchers' = watchers /\ Restart(f)
        BY <1>13, <2>1 DEF Park
      <3>2. (f # g => rset'[g] = rset[g]) /\ \A h \in Fiber : h # f => at'[h] = at[h]
        BY <1>0, <3>1 DEF Restart, TypeOK
      <3> QED BY <1>5, <3>1, <3>2
    <2>2. CASE Valid(f)
      <3>1. /\ at[f] = "park" /\ status' = [status EXCEPT ![f] = "Parked"]
            /\ box' = box /\ todo' = todo /\ rset' = rset
            /\ \A tv \in TVar : watchers'[tv] = IF tv \in ReadTVars(f) THEN watchers[tv] \cup {f}
                                                ELSE watchers[tv]
            /\ at' = [at EXCEPT ![f] = "parked"]
        BY <1>13, <2>2 DEF Park, journal
      <3>2. \A h \in Fiber : h # f => at'[h] = at[h] /\ status'[h] = status[h]
        BY <1>0, <3>1 DEF TypeOK
      <3>3. CASE g = f
        <4>1. \A r \in rset[f] : box[r.tv].ver = r.ver /\ r.tv \in ReadTVars(f)
          BY <2>2 DEF Valid, ReadTVars
        <4> QED BY <1>3, <3>1, <3>3, <4>1 DEF Reached
      <3>4. CASE g # f
        <4>1. \A h \in Fiber : at[h] = "wake" => at'[h] = "wake"
          BY <3>1, <3>2
        <4>2. status[g] = "Parked"
          BY <1>2, <3>2, <3>4
        <4> QED BY <1>4, <3>1, <4>1, <4>2
      <3> QED BY <3>3, <3>4
    <2> QED BY <2>1, <2>2
  <1>14. CASE Resume(f) \/ Claim(f)
    <2>1. /\ box' = box /\ todo' = todo /\ rset' = rset
          /\ Unpark(f) \/ watchers' = watchers
          /\ status' = [status EXCEPT ![f] = "Running"] \/ (status' = status /\ watchers' = watchers)
          /\ at' = at \/ (status[f] \in {"Parked", "Runnable"} /\ \E x : at' = [at EXCEPT ![f] = x])
      BY <1>14 DEF Resume, Claim, Interrupted, MovesOn, journal
    <2>2. status[g] = "Parked"
      BY <1>0, <1>2, <2>1 DEF TypeOK
    <2>3. \A h \in Fiber : at[h] = "wake" => at'[h] = "wake"
      BY <1>0, <2>1 DEF TypeOK, ParkShape
    <2>4. \A tv \in TVar : g \in watchers[tv] => g \in watchers'[tv]
      <3>1. CASE f = g
        <4>1. status' = status /\ watchers' = watchers
          BY <1>0, <1>2, <2>1, <3>1 DEF TypeOK
        <4> QED BY <4>1
      <3>2. CASE f # g
        BY <1>0, <2>1, <3>2, UnparkLeaves
      <3> QED BY <3>1, <3>2
    <2> QED BY <1>4, <2>1, <2>2, <2>3, <2>4
  <1>15. CASE Request(f) \/ Poke(f)
    <2>1. /\ box' = box /\ todo' = todo /\ rset' = rset /\ watchers' = watchers /\ at' = at
          /\ status' = status \/ status' = [status EXCEPT ![f] = "Runnable"]
      BY <1>15 DEF Request, Poke, memory, control, journal
    <2>2. status[g] = "Parked"
      BY <1>0, <1>2, <2>1 DEF TypeOK
    <2> QED BY <1>4, <2>1, <2>2
  <1> QED BY <1>6, <1>7, <1>8, <1>9, <1>10, <1>11, <1>12, <1>13, <1>14, <1>15 DEF Worker

(* Both hold in every reachable state.                                     *)
LEMMA RetryInvariant == Spec => []RetryInv
  <1>1. Init => RetryInv
    <2>1. Init => TypeInv
      BY TypeInit DEF TypeInv, Init, ParkShape
    <2>2. Init => NoStaleWatcher /\ NoLostRetry
      BY DEF Init, NoStaleWatcher, NoLostRetry
    <2> QED BY <2>1, <2>2 DEF RetryInv
  <1>2. RetryInv /\ [Next]_vars => RetryInv'
    <2> SUFFICES ASSUME RetryInv, [Next]_vars PROVE RetryInv'
      OBVIOUS
    <2>1. TypeInv'
      BY TypeInvStep DEF RetryInv
    <2>2. CASE UNCHANGED vars
      BY <2>1, <2>2 DEF RetryInv, NoStaleWatcher, NoLostRetry, vars, memory, control, journal
    <2>3. CASE Next
      BY <2>1, <2>3, StaleStep, RetryStep DEF RetryInv, Next
    <2> QED BY <2>2, <2>3
  <1> QED BY <1>1, <1>2, PTL DEF Spec

(* retry loses no wake-up: a parked fiber is on the watcher list of all it *)
(* has read, unchanged since, or a committer is about to wake it.          *)
THEOREM RetriesAreWoken == Spec => []NoLostRetry
  BY RetryInvariant, PTL DEF RetryInv

(* A fiber that has left its retry has left every watcher list.            *)
THEOREM WatchersLeave == Spec => []NoStaleWatcher
  BY RetryInvariant, PTL DEF RetryInv

----------------------------------------------------------------------------
(* Proofs that module Stm implements module AtomicStm, for any number of   *)
(* fibers and TVars and for any well-typed transactions of finite depth.   *)

(* What a tree does when it runs alone.  Eval is defined by recursion; the *)
(* height of the trees makes the recursion well-founded.                   *)

Store == [TVar -> Value]
Blocks == [ok |-> FALSE]
Yields(v, st) == [ok |-> TRUE, val |-> v, store |-> st]
Result == {Blocks} \cup [ok : {TRUE}, val : Value, store : Store]

(* One level of the meaning of a tree, from the meaning e of its parts.    *)
Level(e, m, st) == Abstract!Effect(e, m, st)

(* The meanings of the trees below height n, if e is one.                  *)
Low(n) == {m \in Tree : Height[m] < n}
Below(n, e) ==
  /\ e \in [Low(n) -> [Store -> Result]]
  /\ \A m \in Low(n) : \A st \in Store : e[m][st] = Level(e, m, st)

(* The parts of a tree are trees of a smaller height.                      *)
LEMMA PartsBelow ==
  ASSUME NEW m \in Tree
  PROVE  /\ Height[m] \in Nat
         /\ m.op = "bind" => /\ m.m \in Tree /\ Height[m.m] \in Nat /\ Height[m.m] < Height[m]
                             /\ \A v \in Value : /\ m.k[v] \in Tree /\ Height[m.k[v]] \in Nat
                                                 /\ Height[m.k[v]] < Height[m]
         /\ m.op = "orElse" => /\ m.l \in Tree /\ Height[m.l] \in Nat /\ Height[m.l] < Height[m]
                               /\ m.r \in Tree /\ Height[m.r] \in Nat /\ Height[m.r] < Height[m]
  BY StmAssumption, FiniteTrees DEF WellTyped

(* What each kind of tree does, from what its parts do.                    *)
LEMMA LevelPure ==
  ASSUME NEW e, NEW m, NEW st, m.op = "pure"
  PROVE  Level(e, m, st) = Yields(m.val, st)
  BY DEF Level, Yields, Abstract!Effect, Abstract!Yields

(* A read yields what the TVar holds.                                      *)
LEMMA LevelRead ==
  ASSUME NEW e, NEW m, NEW st, m.op = "read"
  PROVE  Level(e, m, st) = Yields(st[m.tv], st)
  BY DEF Level, Yields, Abstract!Effect, Abstract!Yields

(* A write yields the unit value and changes one TVar.                     *)
LEMMA LevelWrite ==
  ASSUME NEW e, NEW m, NEW st, m.op = "write"
  PROVE  Level(e, m, st) = Yields(Unit, [st EXCEPT ![m.tv] = m.val])
  BY DEF Level, Yields, Abstract!Effect, Abstract!Yields

(* A retry blocks.                                                         *)
LEMMA LevelRetry ==
  ASSUME NEW e, NEW m, NEW st, m.op = "retry"
  PROVE  Level(e, m, st) = Blocks
  <1>1. Abstract!Effect(e, m, st) = Abstract!Blocks
    BY SMTT(30) DEF Abstract!Effect
  <1> QED BY <1>1 DEF Level, Blocks, Abstract!Blocks

(* A bind goes on where its first part has left the memory.                *)
LEMMA LevelBind ==
  ASSUME NEW e, NEW m, NEW st, m.op = "bind", NEW r, r = e[m.m][st]
  PROVE  /\ r.ok => Level(e, m, st) = e[m.k[r.val]][r.store]
         /\ ~r.ok => Level(e, m, st) = Blocks
  <1>1. Level(e, m, st) = IF e[m.m][st].ok THEN e[m.k[e[m.m][st].val]][e[m.m][st].store] ELSE Blocks
    BY DEF Level, Blocks, Abstract!Effect, Abstract!Blocks
  <1>2. Level(e, m, st) = IF r.ok THEN e[m.k[r.val]][r.store] ELSE Blocks
    BY <1>1
  <1> QED BY <1>2

(* An orElse is its left branch unless that blocks.                        *)
LEMMA LevelOrElse ==
  ASSUME NEW e, NEW m, NEW st, m.op = "orElse", NEW r, r = e[m.l][st]
  PROVE  /\ r.ok => Level(e, m, st) = r
         /\ ~r.ok => Level(e, m, st) = e[m.r][st]
  <1>1. Level(e, m, st) = IF e[m.l][st].ok THEN e[m.l][st] ELSE e[m.r][st]
    BY DEF Level, Abstract!Effect
  <1>2. ASSUME r.ok PROVE Level(e, m, st) = r
    BY <1>1, <1>2
  <1>3. ASSUME ~r.ok PROVE Level(e, m, st) = e[m.r][st]
    BY <1>1, <1>3
  <1> QED BY <1>2, <1>3

(* What is known of a result.                                              *)
LEMMA ResultTypes ==
  /\ Blocks \in Result /\ ~Blocks.ok
  /\ \A r \in Result : r = Blocks \/ (r.ok /\ r.val \in Value /\ r.store \in Store)
  BY DEF Result, Blocks

(* What is known of a result that is not a retry.                          *)
LEMMA YieldTypes ==
  ASSUME NEW v, NEW st
  PROVE  /\ Yields(v, st).ok /\ Yields(v, st).val = v /\ Yields(v, st).store = st
         /\ v \in Value /\ st \in Store => Yields(v, st) \in Result
  <1>1. Yields(v, st).ok /\ Yields(v, st).val = v /\ Yields(v, st).store = st
    BY DEF Yields
  <1>2. v \in Value /\ st \in Store => Yields(v, st) \in Result
    BY DEF Result, Yields
  <1> QED BY <1>1, <1>2

(* The meanings e give the parts of m results; e and d give them the same. *)
Typed(e, m) ==
  /\ m.op = "bind" => e[m.m] \in [Store -> Result] /\ \A v \in Value : e[m.k[v]] \in [Store -> Result]
  /\ m.op = "orElse" => e[m.l] \in [Store -> Result] /\ e[m.r] \in [Store -> Result]
Agree(e, d, m) ==
  /\ m.op = "bind" => e[m.m] = d[m.m] /\ \A v \in Value : e[m.k[v]] = d[m.k[v]]
  /\ m.op = "orElse" => e[m.l] = d[m.l] /\ e[m.r] = d[m.r]

(* The meaning of a tree is a result, and the same for any two meanings of *)
(* its parts that agree.                                                   *)
LEMMA LevelSame ==
  ASSUME NEW m \in Tree, NEW st \in Store, NEW e, NEW d, Typed(e, m), Agree(e, d, m)
  PROVE  Level(e, m, st) = Level(d, m, st) /\ Level(e, m, st) \in Result
  <1>1. WellTyped(m)
    BY StmAssumption
  <1>2. CASE m.op = "pure"
    <2>1. m.val \in Value
      BY <1>1, <1>2 DEF WellTyped
    <2>2. Level(e, m, st) = Yields(m.val, st) /\ Level(d, m, st) = Yields(m.val, st)
      BY <1>2, LevelPure
    <2> QED BY <2>1, <2>2, YieldTypes
  <1>3. CASE m.op = "read"
    <2>1. st[m.tv] \in Value
      BY <1>1, <1>3 DEF WellTyped, Store
    <2>2. Level(e, m, st) = Yields(st[m.tv], st) /\ Level(d, m, st) = Yields(st[m.tv], st)
      BY <1>3, LevelRead
    <2> QED BY <2>1, <2>2, YieldTypes
  <1>4. CASE m.op = "write"
    <2>1. [st EXCEPT ![m.tv] = m.val] \in Store /\ Unit \in Value
      BY <1>1, <1>4, StmAssumption DEF WellTyped, Store
    <2>2. /\ Level(e, m, st) = Yields(Unit, [st EXCEPT ![m.tv] = m.val])
          /\ Level(d, m, st) = Yields(Unit, [st EXCEPT ![m.tv] = m.val])
      BY <1>4, LevelWrite
    <2> QED BY <2>1, <2>2, YieldTypes
  <1>5. CASE m.op = "retry"
    <2>1. Level(e, m, st) = Blocks /\ Level(d, m, st) = Blocks
      BY <1>5, LevelRetry
    <2> QED BY <2>1, ResultTypes
  <1>6. CASE m.op = "bind"
    <2>1. PICK r \in Result : r = e[m.m][st] /\ r = d[m.m][st]
      BY <1>6 DEF Typed, Agree
    <2>2. CASE r.ok
      <3>1. r.val \in Value /\ r.store \in Store
        BY <2>2, ResultTypes
      <3>2. e[m.k[r.val]] = d[m.k[r.val]] /\ e[m.k[r.val]] \in [Store -> Result]
        BY <1>6, <3>1 DEF Typed, Agree
      <3>3. r = e[m.m][st]
        BY <2>1
      <3>4. r = d[m.m][st]
        BY <2>1
      <3>5. Level(e, m, st) = e[m.k[r.val]][r.store]
        BY <1>6, <2>2, <3>3, LevelBind
      <3>6. Level(d, m, st) = d[m.k[r.val]][r.store]
        BY <1>6, <2>2, <3>4, LevelBind
      <3> QED BY <3>1, <3>2, <3>5, <3>6
    <2>3. CASE ~r.ok
      <3>1. r = e[m.m][st]
        BY <2>1
      <3>2. r = d[m.m][st]
        BY <2>1
      <3>3. Level(e, m, st) = Blocks
        BY <1>6, <2>3, <3>1, LevelBind
      <3>4. Level(d, m, st) = Blocks
        BY <1>6, <2>3, <3>2, LevelBind
      <3> QED BY <3>3, <3>4, ResultTypes
    <2> QED BY <2>2, <2>3
  <1>7. CASE m.op = "orElse"
    <2>1. PICK r \in Result : r = e[m.l][st] /\ r = d[m.l][st]
      BY <1>7 DEF Typed, Agree
    <2>2. e[m.r][st] = d[m.r][st] /\ e[m.r][st] \in Result
      BY <1>7 DEF Typed, Agree
    <2>3. /\ r.ok => Level(e, m, st) = r
          /\ ~r.ok => Level(e, m, st) = e[m.r][st]
      <3>1. r = e[m.l][st]
        BY <2>1
      <3> QED BY <1>7, <3>1, LevelOrElse
    <2>4. /\ r.ok => Level(d, m, st) = r
          /\ ~r.ok => Level(d, m, st) = d[m.r][st]
      <3>1. r = d[m.l][st]
        BY <2>1
      <3> QED BY <1>7, <3>1, LevelOrElse
    <2> QED BY <2>2, <2>3, <2>4
  <1> QED BY <1>1, <1>2, <1>3, <1>4, <1>5, <1>6, <1>7 DEF WellTyped

(* A set of naturals that is not empty has a least element.                *)
LEMMA Least ==
  ASSUME NEW T, T \subseteq Nat, T # {}
  PROVE  \E x \in T : \A y \in T : x <= y
  <1>1. PICK x \in T : \A y \in T : ~(<<y, x>> \in OpToRel(<, Nat))
    BY NatLessThanWellFounded, WFMin
  <1>2. \A y \in T : ~(y < x)
    BY <1>1 DEF OpToRel
  <1> QED BY <1>2

(* Two meanings of the trees below two heights agree on what is below both.*)
LEMMA BelowUnique ==
  ASSUME NEW n \in Nat, NEW k \in Nat, NEW e, NEW d, Below(n, e), Below(k, d),
         NEW m \in Tree, Height[m] < n, Height[m] < k
  PROVE  e[m] = d[m]
  <1> DEFINE B == {x \in Low(n) \cap Low(k) : e[x] # d[x]}
             T == {Height[x] : x \in B}
  <1>1. SUFFICES ASSUME e[m] # d[m] PROVE FALSE
    OBVIOUS
  <1>2. T \subseteq Nat /\ T # {}
    <2>1. \A x \in B : Height[x] \in Nat
      BY PartsBelow DEF Low
    <2>2. m \in B
      BY <1>1 DEF Low
    <2> QED BY <2>1, <2>2
  <1>3. PICK h \in T : \A y \in T : h <= y
    <2> HIDE DEF T
    <2> QED BY <1>2, Least
  <1>4. PICK x \in B : h = Height[x]
    OBVIOUS
  <1>5. /\ x \in Tree /\ x \in Low(n) /\ x \in Low(k) /\ e[x] # d[x]
        /\ \A y \in Low(n) \cap Low(k) : Height[y] < Height[x] => e[y] = d[y]
    <2>1. x \in Tree /\ x \in Low(n) /\ x \in Low(k) /\ e[x] # d[x]
      BY DEF Low
    <2>2. ASSUME NEW y \in Low(n) \cap Low(k), Height[y] < Height[x], e[y] # d[y] PROVE FALSE
      <3>1. Height[y] \in T
        BY <2>2
      <3>2. Height[x] <= Height[y] /\ Height[x] \in Nat /\ Height[y] \in Nat
        BY <1>2, <1>3, <1>4, <3>1
      <3> QED BY <2>2, <3>2
    <2> QED BY <2>1, <2>2
  <1> HIDE DEF B, T
  <1>6. \A y \in Tree : Height[y] \in Nat /\ Height[y] < Height[x] => y \in Low(n) /\ y \in Low(k)
    <2>1. Height[x] \in Nat /\ Height[x] < n /\ Height[x] < k
      BY <1>5, PartsBelow DEF Low
    <2> QED BY <2>1 DEF Low
  <1>7. Typed(e, x) /\ Agree(e, d, x)
    <2>1. \A y \in Low(n) : e[y] \in [Store -> Result]
      BY DEF Below
    <2>2. x.op = "bind" => /\ x.m \in Low(n) \cap Low(k) /\ Height[x.m] < Height[x]
                           /\ \A v \in Value : /\ x.k[v] \in Low(n) \cap Low(k)
                                               /\ Height[x.k[v]] < Height[x]
      BY <1>5, <1>6, PartsBelow
    <2>3. x.op = "orElse" => /\ x.l \in Low(n) \cap Low(k) /\ Height[x.l] < Height[x]
                             /\ x.r \in Low(n) \cap Low(k) /\ Height[x.r] < Height[x]
      BY <1>5, <1>6, PartsBelow
    <2> QED BY <1>5, <2>1, <2>2, <2>3 DEF Typed, Agree
  <1>8. \A st \in Store : e[x][st] = Level(e, x, st) /\ d[x][st] = Level(d, x, st)
    BY <1>5 DEF Below
  <1>9. \A st \in Store : e[x][st] = d[x][st]
    BY <1>5, <1>7, <1>8, LevelSame
  <1>10. e[x] \in [Store -> Result] /\ d[x] \in [Store -> Result]
    BY <1>5 DEF Below
  <1> QED BY <1>5, <1>9, <1>10

(* There is a meaning of the trees below any height.                       *)
LEMMA BelowExists ==
  ASSUME NEW n \in Nat
  PROVE  \E e : Below(n, e)
  <1> DEFINE T == {k \in Nat : ~\E e : Below(k, e)}
  <1>1. SUFFICES ASSUME T # {} PROVE FALSE
    OBVIOUS
  <1>2. PICK k \in T : \A j \in T : k <= j
    <2>1. T \subseteq Nat
      OBVIOUS
    <2> HIDE DEF T
    <2> QED BY <1>1, <2>1, Least
  <1>3. /\ k \in Nat
        /\ ~\E e : Below(k, e)
        /\ \A j \in Nat : j < k => \E e : Below(j, e)
    BY <1>2
  <1> HIDE DEF T
  <1>4. CASE k = 0
    <2> DEFINE e == [m \in Low(0) |-> [st \in Store |-> Blocks]]
    <2>1. Low(0) = {}
      BY PartsBelow DEF Low
    <2>2. e \in [Low(0) -> [Store -> Result]]
      BY <2>1
    <2>3. Below(0, e)
      BY <2>1, <2>2 DEF Below
    <2> QED BY <1>3, <1>4, <2>3
  <1>5. CASE k # 0
    <2>1. PICK j \in Nat : j = k - 1 /\ j < k
      BY <1>3, <1>5
    <2>2. PICK e : Below(j, e)
      <3>1. j < k => \E e : Below(j, e)
        BY <1>3
      <3> QED BY <2>1, <3>1
    <2> DEFINE d == [m \in Low(k) |-> [st \in Store |-> Level(e, m, st)]]
    <2>3. \A m \in Low(j) : m \in Low(k)
      BY <1>3, <2>1, PartsBelow DEF Low
    <2>4. ASSUME NEW m \in Low(k)
          PROVE  /\ m \in Tree
                 /\ m.op = "bind" => m.m \in Low(j) /\ \A v \in Value : m.k[v] \in Low(j)
                 /\ m.op = "orElse" => m.l \in Low(j) /\ m.r \in Low(j)
      <3>1. m \in Tree /\ Height[m] \in Nat /\ Height[m] < k
        BY PartsBelow DEF Low
      <3>2. \A x \in Tree : Height[x] \in Nat /\ Height[x] < Height[m] => x \in Low(j)
        BY <1>3, <2>1, <3>1 DEF Low
      <3> QED BY <3>1, <3>2, PartsBelow
    <2>5. \A m \in Low(j) : e[m] \in [Store -> Result] /\ \A st \in Store : e[m][st] = Level(e, m, st)
      BY <2>2 DEF Below
    <2>6. ASSUME NEW m \in Low(k) PROVE m \in Tree /\ Typed(e, m)
      BY <2>4, <2>5 DEF Typed
    <2>7. \A m \in Low(k) : \A st \in Store : Level(e, m, st) \in Result
      <3>1. \A m : Agree(e, e, m)
        BY DEF Agree
      <3> QED BY <2>6, <3>1, LevelSame
    <2>8. d \in [Low(k) -> [Store -> Result]]
      BY <2>7
    <2>9. \A m \in Low(k) : \A st \in Store : d[m][st] = Level(e, m, st)
      OBVIOUS
    <2>10. ASSUME NEW m \in Low(j) PROVE d[m] = e[m]
      <3>1. d[m] = [st \in Store |-> Level(e, m, st)]
        BY <2>3
      <3>2. e[m] \in [Store -> Result] /\ \A st \in Store : e[m][st] = Level(e, m, st)
        BY <2>5
      <3> QED BY <3>1, <3>2
    <2> HIDE DEF d
    <2>11. ASSUME NEW m \in Low(k) PROVE Agree(e, d, m)
      BY <2>4, <2>10 DEF Agree
    <2>12. ASSUME NEW m \in Low(k), NEW st \in Store PROVE d[m][st] = Level(d, m, st)
      <3>1. Level(e, m, st) = Level(d, m, st)
        BY <2>6, <2>11, LevelSame
      <3> QED BY <2>9, <3>1
    <2>13. Below(k, d)
      BY <2>8, <2>12 DEF Below
    <2> QED BY <1>3, <2>13
  <1> QED BY <1>4, <1>5

(* What a tree does alone, by the abstract specification.                  *)
Meaning == Abstract!Eval

(* The equations that define Eval have a solution, so Eval is one.         *)
LEMMA EvalEquation == Meaning = [m \in Tree |-> [st \in Store |-> Level(Meaning, m, st)]]
  <1> DEFINE B(m) == CHOOSE e : Below(Height[m] + 1, e)
             E == [m \in Tree |-> B(m)[m]]
  <1>1. ASSUME NEW m \in Tree
        PROVE  Height[m] + 1 \in Nat /\ Height[m] < Height[m] + 1 /\ Below(Height[m] + 1, B(m))
    <2>1. Height[m] + 1 \in Nat /\ Height[m] < Height[m] + 1
      BY PartsBelow
    <2> QED BY <2>1, BelowExists
  <1> HIDE DEF B
  <1>2. ASSUME NEW m \in Tree, NEW x \in Tree, Height[x] < Height[m] + 1
        PROVE  E[x] = B(m)[x]
    <2>1. /\ Height[m] + 1 \in Nat /\ Below(Height[m] + 1, B(m))
          /\ Height[x] + 1 \in Nat /\ Below(Height[x] + 1, B(x)) /\ Height[x] < Height[x] + 1
      BY <1>1
    <2>2. B(x)[x] = B(m)[x]
      BY <1>2, <2>1, BelowUnique
    <2> QED BY <2>2
  <1> HIDE DEF E
  <1>3. ASSUME NEW m \in Tree PROVE E[m] = [st \in Store |-> Level(E, m, st)]
    <2>1. /\ Height[m] \in Nat /\ Height[m] < Height[m] + 1 /\ Below(Height[m] + 1, B(m))
      BY <1>1, PartsBelow
    <2> DEFINE e == B(m)
    <2>2. E[m] = e[m]
      BY <1>2, <2>1
    <2>3. /\ e[m] \in [Store -> Result]
          /\ \A x \in Tree : Height[x] < Height[m] + 1 => e[x] \in [Store -> Result]
          /\ \A st \in Store : e[m][st] = Level(e, m, st)
      BY <2>1 DEF Below, Low
    <2>4. /\ m.op = "bind" => /\ m.m \in Tree /\ Height[m.m] < Height[m] + 1
                              /\ \A v \in Value : m.k[v] \in Tree /\ Height[m.k[v]] < Height[m] + 1
          /\ m.op = "orElse" => /\ m.l \in Tree /\ Height[m.l] < Height[m] + 1
                                /\ m.r \in Tree /\ Height[m.r] < Height[m] + 1
      BY PartsBelow
    <2>5. \A x \in Tree : Height[x] < Height[m] + 1 => e[x] = E[x]
      BY <1>2
    <2> HIDE DEF e
    <2>6. Typed(e, m) /\ Agree(e, E, m)
      BY <2>3, <2>4, <2>5 DEF Typed, Agree
    <2>7. \A st \in Store : e[m][st] = Level(E, m, st)
      BY <2>3, <2>6, LevelSame
    <2> QED BY <2>2, <2>3, <2>7
  <1>4. E = [m \in Tree |-> [st \in Store |-> Level(E, m, st)]]
    <2>1. E = [m \in Tree |-> E[m]]
      BY DEF E
    <2> QED BY <1>3, <2>1
  <1>5. \E e : e = [m \in Tree |-> [st \in Store |-> Level(e, m, st)]]
    BY <1>4
  <1>6. Meaning = CHOOSE e : e = [m \in Tree |-> [st \in Store |-> Level(e, m, st)]]
    BY DEF Meaning, Abstract!Eval, Level, Abstract!Store, Store
  <1> QED BY <1>5, <1>6

(* What a tree does alone is a result, and follows from what its parts do. *)
LEMMA EvalTypes ==
  ASSUME NEW m \in Tree, NEW st \in Store
  PROVE  Meaning[m][st] \in Result /\ Meaning[m][st] = Level(Meaning, m, st)
  <1> DEFINE Bad == {x \in Tree : Meaning[x] \notin [Store -> Result]}
             T == {Height[x] : x \in Bad}
  <1>1. ASSUME NEW x \in Tree PROVE Meaning[x] = [s \in Store |-> Level(Meaning, x, s)]
    BY EvalEquation
  <1>2. SUFFICES ASSUME T # {} PROVE FALSE
    <2>1. Meaning[m] \in [Store -> Result]
      BY <1>2
    <2> QED BY <1>1, <2>1
  <1>3. PICK h \in T : \A y \in T : h <= y
    <2>1. T \subseteq Nat
      BY PartsBelow
    <2> HIDE DEF T
    <2> QED BY <1>2, <2>1, Least
  <1>4. PICK x \in Bad : h = Height[x]
    OBVIOUS
  <1>5. /\ x \in Tree /\ Height[x] \in Nat /\ Meaning[x] \notin [Store -> Result]
        /\ \A y \in Tree : Height[y] < Height[x] => Meaning[y] \in [Store -> Result]
    <2>1. x \in Tree /\ Height[x] \in Nat /\ Meaning[x] \notin [Store -> Result]
      BY PartsBelow
    <2>2. ASSUME NEW y \in Tree, Height[y] < Height[x], Meaning[y] \notin [Store -> Result]
          PROVE  FALSE
      <3>1. Height[y] \in T
        BY <2>2
      <3>2. Height[x] <= Height[y] /\ Height[y] \in Nat
        BY <1>3, <1>4, <3>1, PartsBelow
      <3> QED BY <2>1, <2>2, <3>2
    <2> QED BY <2>1, <2>2
  <1> HIDE DEF Bad, T
  <1>6. Typed(Meaning, x) /\ Agree(Meaning, Meaning, x)
    <2>1. /\ x.op = "bind" => /\ x.m \in Tree /\ Height[x.m] < Height[x]
                              /\ \A v \in Value : x.k[v] \in Tree /\ Height[x.k[v]] < Height[x]
          /\ x.op = "orElse" => /\ x.l \in Tree /\ Height[x.l] < Height[x]
                                /\ x.r \in Tree /\ Height[x.r] < Height[x]
      BY <1>5, PartsBelow
    <2> QED BY <1>5, <2>1 DEF Typed, Agree
  <1>7. ASSUME NEW s \in Store PROVE Level(Meaning, x, s) \in Result
    BY <1>5, <1>6, LevelSame
  <1>8. Meaning[x] \in [Store -> Result]
    BY <1>1, <1>5, <1>7
  <1> QED BY <1>5, <1>8

----------------------------------------------------------------------------
(* The memory a transaction has before it: what the TVars hold, under the  *)
(* newest of its own writes.                                               *)
Overlay(st, log) == [tv \in TVar |-> IF Logged(log, tv) THEN NewestWrite(log, tv) ELSE st[tv]]

(* An empty log hides nothing.                                             *)
LEMMA OverlayEmpty ==
  ASSUME NEW st \in Store
  PROVE  Overlay(st, <<>>) = st
  <1>1. \A tv : ~Logged(<<>>, tv)
    BY DEF Logged
  <1> QED BY <1>1 DEF Overlay, Store

(* Under a log, the TVars still hold values.                               *)
LEMMA OverlayType ==
  ASSUME NEW st \in Store, NEW log \in Seq(WEnt)
  PROVE  Overlay(st, log) \in Store
  BY NewestWriteType DEF Overlay, Store

(* The newest entry is the last one for its TVar.                          *)
LEMMA NewestIs ==
  ASSUME NEW log \in Seq(WEnt), NEW tv, NEW i \in 1..Len(log), log[i].tv = tv,
         \A k \in (i + 1)..Len(log) : log[k].tv # tv
  PROVE  Logged(log, tv) /\ NewestWrite(log, tv) = log[i].val
  <1>1. Len(log) \in Nat /\ DOMAIN log = 1..Len(log)
    BY LenProperties
  <1>2. Logged(log, tv)
    BY <1>1 DEF Logged
  <1> DEFINE P(j) == j \in DOMAIN log /\ log[j].tv = tv /\ \A k \in (j + 1)..Len(log) : log[k].tv # tv
  <1>3. ASSUME NEW j, P(j) PROVE j = i
    <2>1. j \in 1..Len(log) /\ log[j].tv = tv /\ \A k \in (j + 1)..Len(log) : log[k].tv # tv
      BY <1>1, <1>3
    <2>2. ~(i < j)
      BY <1>1, <2>1
    <2>3. ~(j < i)
      BY <1>1, <2>1
    <2> QED BY <1>1, <2>1, <2>2, <2>3
  <1>4. P(i)
    BY <1>1
  <1>5. (CHOOSE j \in DOMAIN log : log[j].tv = tv /\ \A k \in (j + 1)..Len(log) : log[k].tv # tv) = i
    BY <1>3, <1>4
  <1> QED BY <1>2, <1>5 DEF NewestWrite

(* A write adds to the memory the transaction has before it.               *)
LEMMA OverlayWrite ==
  ASSUME NEW st \in Store, NEW log \in Seq(WEnt), NEW x \in TVar, NEW v \in Value
  PROVE  Overlay(st, Append(log, [tv |-> x, val |-> v])) = [Overlay(st, log) EXCEPT ![x] = v]
  <1> DEFINE w == [tv |-> x, val |-> v]
             long == Append(log, w)
  <1>1. w \in WEnt /\ w.tv = x /\ w.val = v
    BY DEF WEnt
  <1> HIDE DEF w
  <1>2. /\ Len(log) \in Nat /\ DOMAIN log = 1..Len(log)
        /\ long \in Seq(WEnt) /\ Len(long) = Len(log) + 1 /\ long[Len(log) + 1] = w
        /\ \A i \in 1..Len(log) : long[i] = log[i]
        /\ DOMAIN long = 1..(Len(log) + 1)
    BY <1>1, AppendProperties, LenProperties
  <1> HIDE DEF long
  <1>3. Logged(long, x) /\ NewestWrite(long, x) = v
    BY <1>1, <1>2, NewestIs
  <1>4. ASSUME NEW tv \in TVar, tv # x
        PROVE  /\ Logged(long, tv) <=> Logged(log, tv)
               /\ Logged(log, tv) => NewestWrite(long, tv) = NewestWrite(log, tv)
    <2>1. Logged(long, tv) <=> Logged(log, tv)
      BY <1>1, <1>2, <1>4 DEF Logged
    <2>2. ASSUME Logged(log, tv) PROVE NewestWrite(long, tv) = NewestWrite(log, tv)
      <3> DEFINE S == {i \in DOMAIN log : log[i].tv = tv}
      <3>1. S \subseteq 1..Len(log) /\ S # {}
        BY <1>2, <2>2 DEF Logged
      <3>2. \E i \in S : \A k \in (i + 1)..Len(log) : k \notin S
        <4> HIDE DEF S
        <4> QED BY <1>2, <3>1, GreatestBelow
      <3>3. PICK i \in 1..Len(log) : /\ log[i].tv = tv
                                     /\ \A k \in (i + 1)..Len(log) : log[k].tv # tv
        BY <1>2, <3>1, <3>2
      <3>4. NewestWrite(log, tv) = log[i].val
        BY <3>3, NewestIs
      <3>5. /\ i \in 1..Len(long) /\ long[i] = log[i]
            /\ \A k \in (i + 1)..Len(long) : long[k].tv # tv
        BY <1>1, <1>2, <1>4, <3>3
      <3>6. NewestWrite(long, tv) = long[i].val
        BY <1>2, <3>3, <3>5, NewestIs
      <3> QED BY <3>4, <3>5, <3>6
    <2> QED BY <2>1, <2>2
  <1>5. ASSUME NEW tv \in TVar PROVE Overlay(st, long)[tv] = [Overlay(st, log) EXCEPT ![x] = v][tv]
    BY <1>3, <1>4 DEF Overlay
  <1>6. /\ Overlay(st, long) = [tv \in TVar |-> Overlay(st, long)[tv]]
        /\ [Overlay(st, log) EXCEPT ![x] = v] = [tv \in TVar |-> [Overlay(st, log) EXCEPT ![x] = v][tv]]
    BY DEF Overlay
  <1>7. Overlay(st, long) = [Overlay(st, log) EXCEPT ![x] = v]
    BY <1>5, <1>6
  <1> QED BY <1>7 DEF long, w

(* What j_truncate_writes leaves.                                          *)
LEMMA Truncated ==
  ASSUME NEW log \in Seq(WEnt), NEW n \in Nat
  PROVE  LET t == TruncateWrites(log, n)
         IN /\ t \in Seq(WEnt) /\ Len(log) \in Nat
            /\ Len(t) = (IF n > Len(log) THEN Len(log) ELSE n)
            /\ \A i \in 1..Len(t) : t[i] = log[i]
  <1> DEFINE k == IF n > Len(log) THEN Len(log) ELSE n
  <1>1. Len(log) \in Nat /\ \A i \in 1..Len(log) : log[i] \in WEnt
    BY LenProperties, ElementOfSeq
  <1>2. k \in Nat /\ k <= Len(log)
    BY <1>1
  <1>3. TruncateWrites(log, n) = SubSeq(log, 1, k)
    BY DEF TruncateWrites
  <1> HIDE DEF k
  <1>4. \A i \in 1..k : log[i] \in WEnt
    BY <1>1, <1>2
  <1>5. /\ SubSeq(log, 1, k) \in Seq(WEnt) /\ Len(SubSeq(log, 1, k)) = k
        /\ \A i \in 1..k : SubSeq(log, 1, k)[i] = log[i]
    BY <1>2, <1>4, SubSeqProperties
  <1> QED BY <1>1, <1>3, <1>5 DEF k

(* Cutting the log twice, at a later point first, is cutting it once.      *)
LEMMA TruncateTwice ==
  ASSUME NEW log \in Seq(WEnt), NEW n \in Nat, NEW k \in Nat, k <= n
  PROVE  TruncateWrites(TruncateWrites(log, n), k) = TruncateWrites(log, k)
  <1> DEFINE t == TruncateWrites(log, n)
  <1>1. /\ t \in Seq(WEnt) /\ Len(log) \in Nat
        /\ Len(t) = (IF n > Len(log) THEN Len(log) ELSE n)
        /\ \A i \in 1..Len(t) : t[i] = log[i]
    BY Truncated
  <1> HIDE DEF t
  <1> DEFINE a == TruncateWrites(t, k)
             b == TruncateWrites(log, k)
  <1>2. /\ a \in Seq(WEnt) /\ Len(a) = (IF k > Len(t) THEN Len(t) ELSE k)
        /\ \A i \in 1..Len(a) : a[i] = t[i]
    BY <1>1, Truncated
  <1>3. /\ b \in Seq(WEnt) /\ Len(b) = (IF k > Len(log) THEN Len(log) ELSE k)
        /\ \A i \in 1..Len(b) : b[i] = log[i]
    BY Truncated
  <1> HIDE DEF a, b
  <1>4. Len(a) = Len(b)
    BY <1>1, <1>2, <1>3
  <1>5. \A i \in 1..Len(a) : a[i] = b[i]
    BY <1>1, <1>2, <1>3, <1>4
  <1>6. a = b
    BY <1>2, <1>3, <1>4, <1>5, SeqEqual
  <1> QED BY <1>6 DEF a, b, t

(* Cutting the log where it ends leaves it as it is.                       *)
LEMMA TruncateNone ==
  ASSUME NEW log \in Seq(WEnt)
  PROVE  TruncateWrites(log, Len(log)) = log
  <1>1. Len(log) \in Nat
    BY LenProperties
  <1> DEFINE t == TruncateWrites(log, Len(log))
  <1>2. t \in Seq(WEnt) /\ Len(t) = Len(log) /\ \A i \in 1..Len(t) : t[i] = log[i]
    BY <1>1, Truncated
  <1> HIDE DEF t
  <1>3. t = log
    BY <1>2, SeqEqual
  <1> QED BY <1>3 DEF t

(* What is cut off is forgotten, also what was appended since.             *)
LEMMA TruncateAppend ==
  ASSUME NEW log \in Seq(WEnt), NEW w \in WEnt, NEW n \in Nat, n <= Len(log)
  PROVE  TruncateWrites(Append(log, w), n) = TruncateWrites(log, n)
  <1> DEFINE long == Append(log, w)
  <1>1. /\ Len(log) \in Nat /\ long \in Seq(WEnt) /\ Len(long) = Len(log) + 1
        /\ \A i \in 1..Len(log) : long[i] = log[i]
    BY AppendProperties, LenProperties
  <1> HIDE DEF long
  <1> DEFINE a == TruncateWrites(long, n)
             b == TruncateWrites(log, n)
  <1>2. a \in Seq(WEnt) /\ Len(a) = n /\ \A i \in 1..Len(a) : a[i] = long[i]
    <2>1. /\ a \in Seq(WEnt) /\ Len(a) = (IF n > Len(long) THEN Len(long) ELSE n)
          /\ \A i \in 1..Len(a) : a[i] = long[i]
      BY <1>1, Truncated
    <2>2. ~(n > Len(long))
      BY <1>1
    <2> QED BY <2>1, <2>2
  <1>3. b \in Seq(WEnt) /\ Len(b) = n /\ \A i \in 1..Len(b) : b[i] = log[i]
    <2>1. /\ b \in Seq(WEnt) /\ Len(b) = (IF n > Len(log) THEN Len(log) ELSE n)
          /\ \A i \in 1..Len(b) : b[i] = log[i]
      BY Truncated
    <2>2. ~(n > Len(log))
      BY <1>1
    <2> QED BY <2>1, <2>2
  <1> HIDE DEF a, b
  <1>4. ASSUME NEW i \in 1..Len(a) PROVE a[i] = b[i]
    <2>1. i \in 1..Len(log) /\ i \in 1..Len(b)
      BY <1>1, <1>2, <1>3
    <2> QED BY <1>1, <1>2, <1>3, <2>1
  <1>5. a = b
    BY <1>2, <1>3, <1>4, SeqEqual
  <1> QED BY <1>5 DEF a, b, long

----------------------------------------------------------------------------
(* The stack of stm_run.  A frame takes the result r of what is above it   *)
(* to the result s of the frame and all above it, in the memory st and     *)
(* with the writes log.                                                    *)
Link(fr, r, s, st, log) ==
  /\ fr.kind = "bind" =>
       /\ r.ok => s = Meaning[fr.k[r.val]][r.store]
       /\ ~r.ok => s = Blocks
  /\ fr.kind = "orElse" =>
       /\ r.ok => s = r
       /\ ~r.ok => s = Meaning[fr.r][Overlay(st, TruncateWrites(log, fr.nw))]

(* With the frames fs below it the tree c comes to the result goal: s[i]   *)
(* is what is above the i-th frame from the top, s[1] what c comes to.     *)
Chained(c, fs, log, st, goal) ==
  \E s \in [1..(Len(fs) + 1) -> Result] :
    /\ s[1] = Meaning[c][Overlay(st, log)]
    /\ s[Len(fs) + 1] = goal
    /\ \A i \in 1..Len(fs) : Link(fs[i], s[i], s[i + 1], st, log)

(* The stack gs is fs with one more frame on top of it.                    *)
Pushed(gs, fs) ==
  /\ fs \in Seq(Frame) /\ gs \in Seq(Frame) /\ Len(fs) \in Nat /\ Len(gs) = Len(fs) + 1
  /\ \A i \in 1..Len(fs) : gs[i + 1] = fs[i]

(* What the log of writes means to the frames fs does not change.          *)
SameLinks(fs, log, st, new) ==
  \A i \in 1..Len(fs) : \A r, s : Link(fs[i], r, s, st, log) => Link(fs[i], r, s, st, new)

(* Evaluation goes on in place.                                            *)
LEMMA ChainSame ==
  ASSUME NEW c, NEW d, NEW fs \in Seq(Frame), NEW log, NEW new, NEW st, NEW goal,
         Chained(c, fs, log, st, goal), SameLinks(fs, log, st, new),
         Meaning[d][Overlay(st, new)] = Meaning[c][Overlay(st, log)]
  PROVE  Chained(d, fs, new, st, goal)
  <1>1. PICK s \in [1..(Len(fs) + 1) -> Result] :
          /\ s[1] = Meaning[c][Overlay(st, log)]
          /\ s[Len(fs) + 1] = goal
          /\ \A i \in 1..Len(fs) : Link(fs[i], s[i], s[i + 1], st, log)
    BY DEF Chained
  <1>2. \A i \in 1..Len(fs) : Link(fs[i], s[i], s[i + 1], st, new)
    BY <1>1 DEF SameLinks
  <1> QED BY <1>1, <1>2 DEF Chained

(* Evaluation goes on in a part of the tree, under a new frame.            *)
LEMMA ChainPush ==
  ASSUME NEW c \in Tree, NEW d \in Tree, NEW fs, NEW gs, Pushed(gs, fs), NEW log \in Seq(WEnt),
         NEW st \in Store, NEW goal, Chained(c, fs, log, st, goal),
         Link(gs[1], Meaning[d][Overlay(st, log)], Meaning[c][Overlay(st, log)], st, log)
  PROVE  Chained(d, gs, log, st, goal)
  <1>1. PICK s \in [1..(Len(fs) + 1) -> Result] :
          /\ s[1] = Meaning[c][Overlay(st, log)]
          /\ s[Len(fs) + 1] = goal
          /\ \A i \in 1..Len(fs) : Link(fs[i], s[i], s[i + 1], st, log)
    BY DEF Chained
  <1>2. /\ Len(fs) \in Nat /\ Len(gs) = Len(fs) + 1
        /\ \A i \in 1..Len(fs) : gs[i + 1] = fs[i]
    BY DEF Pushed
  <1>3. Meaning[d][Overlay(st, log)] \in Result
    BY OverlayType, EvalTypes
  <1> DEFINE t == [i \in 1..(Len(gs) + 1) |-> IF i = 1 THEN Meaning[d][Overlay(st, log)] ELSE s[i - 1]]
  <1>4. t \in [1..(Len(gs) + 1) -> Result]
    BY <1>2, <1>3
  <1>5. /\ t[1] = Meaning[d][Overlay(st, log)]
        /\ \A i \in 2..(Len(gs) + 1) : t[i] = s[i - 1]
    BY <1>2
  <1> HIDE DEF t
  <1>6. t[Len(gs) + 1] = goal
    BY <1>1, <1>2, <1>5
  <1>7. ASSUME NEW i \in 1..Len(gs) PROVE Link(gs[i], t[i], t[i + 1], st, log)
    <2>1. CASE i = 1
      <3>1. t[i] = Meaning[d][Overlay(st, log)] /\ t[i + 1] = Meaning[c][Overlay(st, log)]
        BY <1>1, <1>2, <1>5, <2>1
      <3> QED BY <2>1, <3>1
    <2>2. CASE i # 1
      <3>1. PICK j \in 1..Len(fs) : i = j + 1
        BY <1>2, <2>2
      <3>2. t[i] = s[j] /\ t[i + 1] = s[j + 1] /\ gs[i] = fs[j]
        BY <1>2, <1>5, <3>1
      <3> QED BY <1>1, <3>2
    <2> QED BY <2>1, <2>2
  <1> QED BY <1>4, <1>5, <1>6, <1>7 DEF Chained

(* Evaluation goes on below the topmost frame.                             *)
LEMMA ChainPop ==
  ASSUME NEW c, NEW d, NEW fs, NEW gs, Pushed(gs, fs), NEW log, NEW new, NEW st, NEW goal,
         Chained(c, gs, log, st, goal), SameLinks(fs, log, st, new),
         \A s : Link(gs[1], Meaning[c][Overlay(st, log)], s, st, log)
                  => s = Meaning[d][Overlay(st, new)]
  PROVE  Chained(d, fs, new, st, goal)
  <1>1. PICK s \in [1..(Len(gs) + 1) -> Result] :
          /\ s[1] = Meaning[c][Overlay(st, log)]
          /\ s[Len(gs) + 1] = goal
          /\ \A i \in 1..Len(gs) : Link(gs[i], s[i], s[i + 1], st, log)
    BY DEF Chained
  <1>2. /\ Len(fs) \in Nat /\ Len(gs) = Len(fs) + 1
        /\ \A i \in 1..Len(fs) : gs[i + 1] = fs[i]
    BY DEF Pushed
  <1> DEFINE t == [i \in 1..(Len(fs) + 1) |-> s[i + 1]]
  <1>3. t \in [1..(Len(fs) + 1) -> Result] /\ \A i \in 1..(Len(fs) + 1) : t[i] = s[i + 1]
    BY <1>2
  <1> HIDE DEF t
  <1>4. t[1] = Meaning[d][Overlay(st, new)]
    <2>1. Link(gs[1], s[1], s[2], st, log)
      BY <1>1, <1>2
    <2>2. t[1] = s[2]
      BY <1>2, <1>3
    <2> QED BY <1>1, <2>1, <2>2
  <1>5. t[Len(fs) + 1] = goal
    BY <1>1, <1>2, <1>3
  <1>6. ASSUME NEW i \in 1..Len(fs) PROVE Link(fs[i], t[i], t[i + 1], st, new)
    <2>1. Link(gs[i + 1], s[i + 1], s[(i + 1) + 1], st, log)
      BY <1>1, <1>2
    <2>2. t[i] = s[i + 1] /\ t[i + 1] = s[(i + 1) + 1] /\ gs[i + 1] = fs[i]
      BY <1>2, <1>3
    <2>3. Link(fs[i], t[i], t[i + 1], st, log)
      BY <2>1, <2>2
    <2> QED BY <2>3 DEF SameLinks
  <1> QED BY <1>3, <1>4, <1>5, <1>6 DEF Chained

----------------------------------------------------------------------------
(* The log lengths the orElse frames hold: none beyond the end n of the    *)
(* log, and the lower ones no greater than those above them.               *)
Nested(fs, n) ==
  /\ \A i \in 1..Len(fs) : fs[i].kind = "orElse" => fs[i].nw <= n
  /\ \A i, j \in 1..Len(fs) :
       i < j /\ fs[i].kind = "orElse" /\ fs[j].kind = "orElse" => fs[j].nw <= fs[i].nw

(* A new orElse frame holds the length the log has now.                    *)
LEMMA NestedPush ==
  ASSUME NEW fs, NEW gs, Pushed(gs, fs), NEW n \in Nat, Nested(fs, n),
         gs[1].kind = "orElse" => gs[1].nw = n
  PROVE  Nested(gs, n)
  <1>1. Len(fs) \in Nat /\ Len(gs) = Len(fs) + 1
    BY DEF Pushed
  <1>2. ASSUME NEW i \in 1..Len(gs), i # 1
        PROVE  \E k \in 1..Len(fs) : i = k + 1 /\ gs[i] = fs[k]
    <2>1. i - 1 \in 1..Len(fs) /\ i = (i - 1) + 1
      BY <1>1, <1>2
    <2> QED BY <2>1 DEF Pushed
  <1>3. ASSUME NEW i \in 1..Len(gs), gs[i].kind = "orElse" PROVE gs[i].nw <= n
    BY <1>2, <1>3 DEF Nested
  <1>4. ASSUME NEW i \in 1..Len(gs), NEW j \in 1..Len(gs), i < j,
               gs[i].kind = "orElse", gs[j].kind = "orElse"
        PROVE  gs[j].nw <= gs[i].nw
    <2>1. PICK l \in 1..Len(fs) : j = l + 1 /\ gs[j] = fs[l]
      BY <1>1, <1>2, <1>4
    <2>2. CASE i = 1
      BY <1>4, <2>1, <2>2 DEF Nested
    <2>3. CASE i # 1
      <3>1. PICK k \in 1..Len(fs) : i = k + 1 /\ gs[i] = fs[k]
        BY <1>2, <2>3
      <3>2. k < l
        BY <1>1, <1>4, <2>1, <3>1
      <3> QED BY <1>4, <2>1, <3>1, <3>2 DEF Nested
    <2> QED BY <2>2, <2>3
  <1> QED BY <1>3, <1>4 DEF Nested

(* The frames below the topmost one are within its length of the log.      *)
LEMMA NestedPop ==
  ASSUME NEW fs, NEW gs, Pushed(gs, fs), NEW n, Nested(gs, n)
  PROVE  Nested(fs, n) /\ (gs[1].kind = "orElse" => Nested(fs, gs[1].nw) /\ gs[1].nw <= n)
  <1>1. Len(fs) \in Nat /\ Len(gs) = Len(fs) + 1 /\ 1 \in 1..Len(gs)
    BY DEF Pushed
  <1>2. ASSUME NEW i \in 1..Len(fs) PROVE i + 1 \in 1..Len(gs) /\ 1 < i + 1 /\ gs[i + 1] = fs[i]
    BY <1>1 DEF Pushed
  <1>3. \A i, j \in 1..Len(fs) :
          i < j /\ fs[i].kind = "orElse" /\ fs[j].kind = "orElse" => fs[j].nw <= fs[i].nw
    <2>1. ASSUME NEW i \in 1..Len(fs), NEW j \in 1..Len(fs), i < j,
                 fs[i].kind = "orElse", fs[j].kind = "orElse"
          PROVE  fs[j].nw <= fs[i].nw
      <3>1. i + 1 < j + 1
        BY <1>1, <2>1
      <3> QED BY <1>2, <2>1, <3>1 DEF Nested
    <2> QED BY <2>1
  <1>4. \A i \in 1..Len(fs) : fs[i].kind = "orElse" => fs[i].nw <= n
    BY <1>2 DEF Nested
  <1>5. ASSUME gs[1].kind = "orElse"
        PROVE  gs[1].nw <= n /\ \A i \in 1..Len(fs) : fs[i].kind = "orElse" => fs[i].nw <= gs[1].nw
    BY <1>1, <1>2, <1>5 DEF Nested
  <1> QED BY <1>3, <1>4, <1>5 DEF Nested

(* A write is not seen by the right branches: their frames cut it off.     *)
LEMMA LinksAppend ==
  ASSUME NEW fs \in Seq(Frame), NEW log \in Seq(WEnt), NEW w \in WEnt, NEW st,
         Nested(fs, Len(log))
  PROVE  SameLinks(fs, log, st, Append(log, w)) /\ Nested(fs, Len(Append(log, w)))
  <1>1. Len(log) \in Nat /\ Len(Append(log, w)) = Len(log) + 1
    BY LenProperties, AppendProperties
  <1>2. ASSUME NEW i \in 1..Len(fs), fs[i].kind = "orElse"
        PROVE  fs[i].nw \in Nat /\ fs[i].nw <= Len(log)
    <2>1. fs[i] \in Frame
      BY ElementOfSeq, LenProperties
    <2> QED BY <1>2, <2>1, FrameTypes DEF Nested
  <1>3. ASSUME NEW i \in 1..Len(fs), fs[i].kind = "orElse"
        PROVE  TruncateWrites(Append(log, w), fs[i].nw) = TruncateWrites(log, fs[i].nw)
    BY <1>2, <1>3, TruncateAppend
  <1>4. SameLinks(fs, log, st, Append(log, w))
    BY <1>3 DEF SameLinks, Link
  <1>5. \A i \in 1..Len(fs) : fs[i].kind = "orElse" => fs[i].nw <= Len(Append(log, w))
    <2>1. \A k \in Nat : k <= Len(log) => k <= Len(Append(log, w))
      BY <1>1
    <2> QED BY <1>2, <2>1
  <1> QED BY <1>4, <1>5 DEF Nested

(* Nor is anything but what a retry has to take back cut off for them.     *)
LEMMA LinksTruncate ==
  ASSUME NEW fs \in Seq(Frame), NEW log \in Seq(WEnt), NEW n \in Nat, NEW st,
         Nested(fs, n)
  PROVE  SameLinks(fs, log, st, TruncateWrites(log, n))
  <1>1. ASSUME NEW i \in 1..Len(fs), fs[i].kind = "orElse"
        PROVE  TruncateWrites(TruncateWrites(log, n), fs[i].nw) = TruncateWrites(log, fs[i].nw)
    <2>1. fs[i] \in Frame
      BY ElementOfSeq, LenProperties
    <2>2. fs[i].nw \in Nat /\ fs[i].nw <= n
      BY <1>1, <2>1, FrameTypes DEF Nested
    <2> QED BY <2>2, TruncateTwice
  <1> QED BY <1>1 DEF SameLinks, Link

(* A stack with a frame put before it is pushed.                           *)
LEMMA PushIsPushed ==
  ASSUME NEW fs \in Seq(Frame), NEW x \in Frame
  PROVE  Pushed(<<x>> \o fs, fs) /\ (<<x>> \o fs)[1] = x
  <1> DEFINE one == <<x>>
  <1>1. one \in Seq(Frame) /\ Len(one) = 1 /\ one[1] = x
    <2>1. <<x>> \in Seq(Frame)
      OBVIOUS
    <2>2. Len(<<x>>) = 1
      OBVIOUS
    <2>3. <<x>>[1] = x
      OBVIOUS
    <2> QED BY <2>1, <2>2, <2>3
  <1> HIDE DEF one
  <1>2. Len(fs) \in Nat
    BY LenProperties
  <1>3. /\ one \o fs \in Seq(Frame) /\ Len(one \o fs) = 1 + Len(fs)
        /\ \A i \in 1..(1 + Len(fs)) : (one \o fs)[i] = IF i <= 1 THEN one[i] ELSE fs[i - 1]
    <2>1. /\ one \o fs \in Seq(Frame) /\ Len(one \o fs) = Len(one) + Len(fs)
          /\ \A i \in 1..(Len(one) + Len(fs)) :
               (one \o fs)[i] = IF i <= Len(one) THEN one[i] ELSE fs[i - Len(one)]
      BY <1>1, ConcatProperties
    <2> QED BY <1>1, <2>1
  <1>4. (one \o fs)[1] = x
    BY <1>1, <1>2, <1>3
  <1>5. ASSUME NEW i \in 1..Len(fs) PROVE (one \o fs)[i + 1] = fs[i]
    <2>1. i + 1 \in 1..(1 + Len(fs)) /\ ~(i + 1 <= 1) /\ (i + 1) - 1 = i
      BY <1>2
    <2> QED BY <1>3, <2>1
  <1>6. Len(one \o fs) = Len(fs) + 1
    BY <1>2, <1>3
  <1> QED BY <1>2, <1>3, <1>4, <1>5, <1>6 DEF Pushed, one

(* A stack that is not empty is its tail with its head pushed.             *)
LEMMA TailIsPushed ==
  ASSUME NEW gs \in Seq(Frame), gs # <<>>
  PROVE  Pushed(gs, Tail(gs)) /\ Head(gs) = gs[1] /\ gs[1] \in Frame
  <1>1. /\ Tail(gs) \in Seq(Frame) /\ Len(Tail(gs)) = Len(gs) - 1 /\ Head(gs) = gs[1]
        /\ \A i \in 1..Len(Tail(gs)) : Tail(gs)[i] = gs[i + 1]
        /\ Head(gs) \in Frame
    BY HeadTailProperties
  <1>2. Len(gs) \in Nat /\ Len(Tail(gs)) \in Nat
    BY <1>1, LenProperties
  <1>3. Len(gs) = Len(Tail(gs)) + 1
    BY <1>1, <1>2
  <1> QED BY <1>1, <1>2, <1>3 DEF Pushed

----------------------------------------------------------------------------
(* The transaction m is on course when it has come to the tree c, with the *)
(* frames fs, the read set rs and the log of writes log: in every memory   *)
(* that agrees with what it has read, going on from here gives the result  *)
(* that m has there when it runs alone.                                    *)
Agrees(st, rs) == \A r \in rs : st[r.tv] = r.val
OnCourse(m, c, fs, rs, log) ==
  /\ Nested(fs, Len(log))
  /\ \A st \in Store : Agrees(st, rs) => Chained(c, fs, log, st, Meaning[m][st])

(* A transaction that starts is on course.                                 *)
LEMMA CourseStart ==
  ASSUME NEW m \in Tree
  PROVE  OnCourse(m, m, <<>>, {}, <<>>)
  <1>1. PICK none : none = <<>>
    OBVIOUS
  <1>2. Len(none) = 0
    BY <1>1
  <1>3. Nested(none, 0)
    BY <1>2 DEF Nested
  <1>4. ASSUME NEW st \in Store PROVE Chained(m, none, none, st, Meaning[m][st])
    <2> DEFINE s == [i \in 1..(Len(none) + 1) |-> Meaning[m][st]]
    <2>1. s \in [1..(Len(none) + 1) -> Result]
      BY EvalTypes
    <2>2. s[1] = Meaning[m][st] /\ s[Len(none) + 1] = Meaning[m][st]
      BY <1>2
    <2>3. Overlay(st, none) = st
      BY <1>1, OverlayEmpty
    <2> HIDE DEF s
    <2>4. \A i \in 1..Len(none) : Link(none[i], s[i], s[i + 1], st, none)
      BY <1>2
    <2> QED BY <2>1, <2>2, <2>3, <2>4 DEF Chained
  <1> QED BY <1>1, <1>2, <1>3, <1>4 DEF OnCourse

(* The frame that stm_run pushes for c before it goes on with the part d.  *)
Opens(c, x, d, n) ==
  \/ c.op = "bind" /\ x = [kind |-> "bind", k |-> c.k] /\ d = c.m
  \/ c.op = "orElse" /\ x = [kind |-> "orElse", r |-> c.r, nw |-> n] /\ d = c.l

(* What the frame makes of the result of the part is the result of c.      *)
LEMMA OpensLinks ==
  ASSUME NEW c \in Tree, NEW x, NEW d \in Tree, NEW st \in Store, NEW log \in Seq(WEnt),
         Opens(c, x, d, Len(log))
  PROVE  Link(x, Meaning[d][Overlay(st, log)], Meaning[c][Overlay(st, log)], st, log)
  <1> DEFINE now == Overlay(st, log)
  <1>1. now \in Store
    BY OverlayType
  <1> HIDE DEF now
  <1>2. Meaning[c][now] = Level(Meaning, c, now)
    BY <1>1, EvalTypes
  <1>3. PICK r : r = Meaning[d][now]
    OBVIOUS
  <1>4. CASE c.op = "bind" /\ x = [kind |-> "bind", k |-> c.k] /\ d = c.m
    <2>1. r = Meaning[c.m][now]
      BY <1>3, <1>4
    <2>2. /\ r.ok => Meaning[c][now] = Meaning[c.k[r.val]][r.store]
          /\ ~r.ok => Meaning[c][now] = Blocks
      BY <1>2, <1>4, <2>1, LevelBind
    <2>3. Link(x, r, Meaning[c][now], st, log)
      BY <1>4, <2>2 DEF Link
    <2> QED BY <1>3, <2>3 DEF now
  <1>5. CASE c.op = "orElse" /\ x = [kind |-> "orElse", r |-> c.r, nw |-> Len(log)] /\ d = c.l
    <2>1. r = Meaning[c.l][now]
      BY <1>3, <1>5
    <2>2. /\ r.ok => Meaning[c][now] = r
          /\ ~r.ok => Meaning[c][now] = Meaning[c.r][now]
      BY <1>2, <1>5, <2>1, LevelOrElse
    <2>3. now = Overlay(st, TruncateWrites(log, Len(log)))
      BY TruncateNone DEF now
    <2>4. x.kind = "orElse" /\ x.r = c.r /\ x.nw = Len(log)
      BY <1>5
    <2>5. Link(x, r, Meaning[c][now], st, log)
      BY <2>2, <2>3, <2>4 DEF Link
    <2> QED BY <1>3, <2>5 DEF now
  <1> QED BY <1>4, <1>5 DEF Opens

(* stm_run stays on course when it pushes a frame.                         *)
LEMMA CoursePush ==
  ASSUME NEW m, NEW c \in Tree, NEW d \in Tree, NEW fs, NEW gs, Pushed(gs, fs), NEW rs,
         NEW log \in Seq(WEnt), OnCourse(m, c, fs, rs, log), Opens(c, gs[1], d, Len(log))
  PROVE  OnCourse(m, d, gs, rs, log)
  <1>1. Nested(gs, Len(log))
    <2>1. Len(log) \in Nat
      BY LenProperties
    <2>2. gs[1].kind = "orElse" => gs[1].nw = Len(log)
      BY DEF Opens
    <2> QED BY <2>1, <2>2, NestedPush DEF OnCourse
  <1>2. ASSUME NEW st \in Store, Agrees(st, rs) PROVE Chained(d, gs, log, st, Meaning[m][st])
    <2>1. Chained(c, fs, log, st, Meaning[m][st])
      BY <1>2 DEF OnCourse
    <2>2. Link(gs[1], Meaning[d][Overlay(st, log)], Meaning[c][Overlay(st, log)], st, log)
      BY OpensLinks
    <2> QED BY <2>1, <2>2, ChainPush
  <1> QED BY <1>1, <1>2 DEF OnCourse

(* A value is its own meaning.                                             *)
LEMMA PureMeans ==
  ASSUME NEW v \in Value, NEW st \in Store
  PROVE  Pure(v) \in Tree /\ Meaning[Pure(v)][st] = Yields(v, st)
  <1>1. Pure(v) \in Tree /\ Pure(v).op = "pure" /\ Pure(v).val = v
    BY StmAssumption DEF Pure
  <1> QED BY <1>1, EvalTypes, LevelPure

(* Nothing changes for the frames when the log does not.                   *)
LEMMA LinksSame ==
  ASSUME NEW fs, NEW log, NEW st
  PROVE  SameLinks(fs, log, st, log)
  BY DEF SameLinks

(* stm_run stays on course when it reads a TVar: the value is the newest   *)
(* write of the log, or else goes into the read set.                       *)
LEMMA CourseRead ==
  ASSUME NEW m, NEW c \in Tree, c.op = "read", NEW fs \in Seq(Frame), NEW rs, NEW new,
         rs \subseteq new, NEW log \in Seq(WEnt), OnCourse(m, c, fs, rs, log), NEW v \in Value,
         \/ Logged(log, c.tv) /\ v = NewestWrite(log, c.tv)
         \/ ~Logged(log, c.tv) /\ \E r \in new : r.tv = c.tv /\ r.val = v
  PROVE  OnCourse(m, Pure(v), fs, new, log)
  <1>1. c.tv \in TVar
    BY StmAssumption DEF WellTyped
  <1>2. ASSUME NEW st \in Store, Agrees(st, new)
        PROVE  Chained(Pure(v), fs, log, st, Meaning[m][st])
    <2> DEFINE now == Overlay(st, log)
    <2>1. now \in Store
      BY OverlayType
    <2>2. now[c.tv] = v
      BY <1>1, <1>2 DEF Overlay, Agrees
    <2> HIDE DEF now
    <2>3. Meaning[c][now] = Yields(now[c.tv], now)
      BY <2>1, EvalTypes, LevelRead
    <2>4. Meaning[Pure(v)][now] = Meaning[c][now]
      BY <2>1, <2>2, <2>3, PureMeans
    <2>5. Agrees(st, rs)
      BY <1>2 DEF Agrees
    <2>6. Chained(c, fs, log, st, Meaning[m][st])
      BY <2>5 DEF OnCourse
    <2> QED BY <2>4, <2>6, LinksSame, ChainSame DEF now
  <1> QED BY <1>2 DEF OnCourse

(* stm_run stays on course when it writes a TVar to the log.               *)
LEMMA CourseWrite ==
  ASSUME NEW m, NEW c \in Tree, c.op = "write", NEW fs \in Seq(Frame), NEW rs,
         NEW log \in Seq(WEnt), OnCourse(m, c, fs, rs, log)
  PROVE  OnCourse(m, Pure(Unit), fs, rs, Append(log, [tv |-> c.tv, val |-> c.val]))
  <1>1. c.tv \in TVar /\ c.val \in Value /\ Unit \in Value
    BY StmAssumption DEF WellTyped
  <1>2. PICK w : w = [tv |-> c.tv, val |-> c.val]
    OBVIOUS
  <1>3. w \in WEnt
    BY <1>1, <1>2 DEF WEnt
  <1>4. \A st : SameLinks(fs, log, st, Append(log, w)) /\ Nested(fs, Len(Append(log, w)))
    BY <1>3, LinksAppend DEF OnCourse
  <1>5. ASSUME NEW st \in Store, Agrees(st, rs)
        PROVE  Chained(Pure(Unit), fs, Append(log, w), st, Meaning[m][st])
    <2> DEFINE now == Overlay(st, log)
               then == Overlay(st, Append(log, w))
    <2>1. now \in Store
      BY OverlayType
    <2>2. then = [now EXCEPT ![c.tv] = c.val]
      BY <1>1, <1>2, OverlayWrite
    <2>3. then \in Store
      BY <1>1, <2>1, <2>2 DEF Store
    <2> HIDE DEF now, then
    <2>4. Meaning[c][now] = Yields(Unit, then)
      <3>1. Meaning[c][now] = Level(Meaning, c, now)
        BY <2>1, EvalTypes
      <3>2. Level(Meaning, c, now) = Yields(Unit, [now EXCEPT ![c.tv] = c.val])
        BY LevelWrite
      <3> QED BY <2>2, <3>1, <3>2
    <2>5. Meaning[Pure(Unit)][then] = Meaning[c][now]
      BY <1>1, <2>3, <2>4, PureMeans
    <2>6. Chained(c, fs, log, st, Meaning[m][st])
      BY <1>5 DEF OnCourse
    <2>7. SameLinks(fs, log, st, Append(log, w))
      BY <1>4
    <2>8. PICK long : long = Append(log, w)
      OBVIOUS
    <2>9. Chained(Pure(Unit), fs, long, st, Meaning[m][st])
      BY <2>5, <2>6, <2>7, <2>8, ChainSame DEF now, then
    <2> QED BY <2>8, <2>9
  <1> QED BY <1>2, <1>4, <1>5 DEF OnCourse

(* What a frame makes of a value or of a retry.                            *)
LEMMA LinkCases ==
  ASSUME NEW x, NEW r, NEW s, NEW st, NEW log, Link(x, r, s, st, log)
  PROVE  /\ x.kind = "bind" /\ r.ok => s = Meaning[x.k[r.val]][r.store]
         /\ x.kind = "bind" /\ ~r.ok => s = Blocks
         /\ x.kind = "orElse" /\ r.ok => s = r
         /\ x.kind = "orElse" /\ ~r.ok => s = Meaning[x.r][Overlay(st, TruncateWrites(log, x.nw))]
  BY DEF Link

(* stm_run stays on course when a value meets the topmost frame.           *)
LEMMA CoursePop ==
  ASSUME NEW m, NEW c \in Tree, c.op = "pure", NEW d, NEW fs, NEW gs, Pushed(gs, fs), NEW rs,
         NEW log \in Seq(WEnt), OnCourse(m, c, gs, rs, log),
         gs[1].kind \in {"bind", "orElse"},
         d = IF gs[1].kind = "bind" THEN gs[1].k[c.val] ELSE c
  PROVE  OnCourse(m, d, fs, rs, log)
  <1>1. Nested(fs, Len(log))
    BY NestedPop DEF OnCourse
  <1>2. c.val \in Value
    BY StmAssumption DEF WellTyped
  <1>3. ASSUME NEW st \in Store, Agrees(st, rs) PROVE Chained(d, fs, log, st, Meaning[m][st])
    <2>1. PICK now \in Store : now = Overlay(st, log)
      BY OverlayType
    <2>2. Meaning[c][now] = Yields(c.val, now)
      BY EvalTypes, LevelPure
    <2>3. ASSUME NEW s, Link(gs[1], Meaning[c][now], s, st, log) PROVE s = Meaning[d][now]
      <3>1. PICK r : r = Meaning[c][now]
        OBVIOUS
      <3>2. r.ok /\ r.val = c.val /\ r.store = now
        BY <2>2, <3>1, <1>2, YieldTypes
      <3>3. Link(gs[1], r, s, st, log)
        BY <2>3, <3>1
      <3>4. CASE gs[1].kind = "bind"
        <4>1. s = Meaning[gs[1].k[r.val]][r.store]
          BY <3>2, <3>3, <3>4, LinkCases
        <4> QED BY <3>2, <3>4, <4>1
      <3>5. CASE gs[1].kind = "orElse"
        <4>1. s = r /\ d = c
          BY <3>2, <3>3, <3>5, LinkCases
        <4> QED BY <3>1, <4>1
      <3> QED BY <3>4, <3>5
    <2>4. Chained(c, gs, log, st, Meaning[m][st])
      BY <1>3 DEF OnCourse
    <2>5. \A s : Link(gs[1], Meaning[c][Overlay(st, log)], s, st, log)
                   => s = Meaning[d][Overlay(st, log)]
      BY <2>1, <2>3
    <2> QED BY <2>4, <2>5, LinksSame, ChainPop
  <1> QED BY <1>1, <1>3 DEF OnCourse

(* A retry is its own meaning.                                             *)
LEMMA RetryMeans ==
  ASSUME NEW c \in Tree, c.op = "retry", NEW st \in Store
  PROVE  Meaning[c][st] = Blocks /\ ~Meaning[c][st].ok
  BY EvalTypes, LevelRetry, ResultTypes

(* stm_run stays on course when a retry goes through a bind.               *)
LEMMA CourseUnwind ==
  ASSUME NEW m, NEW c \in Tree, c.op = "retry", NEW fs, NEW gs, Pushed(gs, fs), NEW rs,
         NEW log \in Seq(WEnt), OnCourse(m, c, gs, rs, log), gs[1].kind = "bind"
  PROVE  OnCourse(m, c, fs, rs, log)
  <1>1. Nested(fs, Len(log))
    BY NestedPop DEF OnCourse
  <1>2. ASSUME NEW st \in Store, Agrees(st, rs) PROVE Chained(c, fs, log, st, Meaning[m][st])
    <2>1. Overlay(st, log) \in Store
      BY OverlayType
    <2>2. ASSUME NEW s, Link(gs[1], Meaning[c][Overlay(st, log)], s, st, log)
          PROVE  s = Meaning[c][Overlay(st, log)]
      BY <2>1, <2>2, RetryMeans, LinkCases
    <2>3. Chained(c, gs, log, st, Meaning[m][st])
      BY <1>2 DEF OnCourse
    <2> QED BY <2>2, <2>3, LinksSame, ChainPop
  <1> QED BY <1>1, <1>2 DEF OnCourse

(* stm_run stays on course when a retry comes to an orElse: the right      *)
(* branch starts with the writes before the orElse.                        *)
LEMMA CourseBranch ==
  ASSUME NEW m, NEW c \in Tree, c.op = "retry", NEW fs, NEW gs, Pushed(gs, fs), NEW rs,
         NEW log \in Seq(WEnt), OnCourse(m, c, gs, rs, log), gs[1].kind = "orElse",
         gs[1].nw \in Nat
  PROVE  OnCourse(m, gs[1].r, fs, rs, TruncateWrites(log, gs[1].nw))
  <1>1. PICK n \in Nat : n = gs[1].nw
    OBVIOUS
  <1>2. PICK new : new = TruncateWrites(log, n)
    OBVIOUS
  <1>3. Nested(fs, n) /\ n <= Len(log)
    BY <1>1, NestedPop DEF OnCourse
  <1>4. Len(new) = n
    <2>1. Len(log) \in Nat /\ Len(new) = (IF n > Len(log) THEN Len(log) ELSE n)
      BY <1>2, Truncated
    <2> QED BY <1>3, <2>1
  <1>5. fs \in Seq(Frame)
    BY DEF Pushed
  <1>6. ASSUME NEW st \in Store, Agrees(st, rs)
        PROVE  Chained(gs[1].r, fs, new, st, Meaning[m][st])
    <2>1. Overlay(st, log) \in Store
      BY OverlayType
    <2>2. ASSUME NEW s, Link(gs[1], Meaning[c][Overlay(st, log)], s, st, log)
          PROVE  s = Meaning[gs[1].r][Overlay(st, new)]
      BY <1>1, <1>2, <2>1, <2>2, RetryMeans, LinkCases
    <2>3. Chained(c, gs, log, st, Meaning[m][st])
      BY <1>6 DEF OnCourse
    <2>4. SameLinks(fs, log, st, new)
      BY <1>2, <1>3, <1>5, LinksTruncate
    <2> QED BY <2>2, <2>3, <2>4, ChainPop
  <1> QED BY <1>1, <1>2, <1>3, <1>4, <1>6 DEF OnCourse

(* Where stm_run has come to the end of its frames, the tree it has come   *)
(* to is the result.                                                       *)
LEMMA CourseEnd ==
  ASSUME NEW m, NEW c, NEW rs, NEW log, OnCourse(m, c, <<>>, rs, log), NEW st \in Store,
         Agrees(st, rs)
  PROVE  Meaning[m][st] = Meaning[c][Overlay(st, log)]
  <1>1. PICK none : none = <<>>
    OBVIOUS
  <1>2. Len(none) = 0
    BY <1>1
  <1>3. Chained(c, none, log, st, Meaning[m][st])
    BY <1>1 DEF OnCourse
  <1>4. PICK s \in [1..(Len(none) + 1) -> Result] :
          s[1] = Meaning[c][Overlay(st, log)] /\ s[Len(none) + 1] = Meaning[m][st]
    BY <1>3 DEF Chained
  <1> QED BY <1>2, <1>4

----------------------------------------------------------------------------
(* Every attempt is on course, and one that has given up has come to a     *)
(* retry that no orElse has caught.                                        *)
Attempt == {"run", "revalidate", "deliver", "park", "parked"}
OnTrack(f) ==
  /\ OnCourse(Current(f), cur[f], frames[f], rset[f], wlog[f])
  /\ at[f] # "run" => cur[f].op = "retry" /\ frames[f] = <<>>

TrackInv ==
  /\ TypeInv
  /\ \A f \in Fiber : at[f] \in Attempt => OnTrack(f)
  /\ pending \subseteq Victim

(* What an attempt consists of, besides the place of its fiber.            *)
Same(g) ==
  /\ out'[g] = out[g] /\ cur'[g] = cur[g] /\ frames'[g] = frames[g]
  /\ rset'[g] = rset[g] /\ wlog'[g] = wlog[g]

(* Being on track depends on the attempt alone.                            *)
LEMMA TrackSame ==
  ASSUME NEW g \in Fiber, OnTrack(g), Same(g), at'[g] = at[g] \/ at[g] # "run"
  PROVE  OnTrack(g)'
  <1>1. Current(g)' = Current(g)
    BY DEF Same, Current
  <1>2. OnCourse(Current(g), cur[g], frames[g], rset[g], wlog[g])'
    BY <1>1 DEF OnTrack, Same
  <1>3. at'[g] # "run" => cur'[g].op = "retry" /\ frames'[g] = <<>>
    BY DEF OnTrack, Same
  <1> QED BY <1>2, <1>3 DEF OnTrack

(* A step for one fiber leaves the attempts of the others alone.           *)
LEMMA Elsewhere ==
  ASSUME TypeOK, NEW f \in Fiber, Worker(f) \/ Claim(f) \/ Request(f) \/ Poke(f),
         NEW g \in Fiber, g # f
  PROVE  Same(g) /\ at'[g] = at[g]
  <1>1. ASSUME Restart(f), out' = out PROVE Same(g) /\ at'[g] = at[g]
    BY <1>1 DEF Restart, Same, TypeOK
  <1>2. ASSUME UNCHANGED journal, \E e : MovesOn(f, e) PROVE Same(g) /\ at'[g] = at[g]
    BY <1>2 DEF MovesOn, journal, Same, TypeOK
  <1>3. ASSUME UNCHANGED journal, out' = out, at' = at \/ \E x : at' = [at EXCEPT ![f] = x]
        PROVE  Same(g) /\ at'[g] = at[g]
    BY <1>3 DEF journal, Same, TypeOK
  <1>4. CASE PushFrame(f) \/ ReadTVar(f) \/ WriteTVar(f) \/ PopFrame(f)
    BY <1>4 DEF PushFrame, ReadTVar, WriteTVar, PopFrame, control, Same, TypeOK
  <1>5. CASE UnwindRetry(f)
    BY <1>5 DEF UnwindRetry, Same, TypeOK
  <1>6. CASE Enter(f)
    BY <1>1, <1>6 DEF Enter
  <1>7. CASE Commit(f) \/ Revalidate(f) \/ Park(f)
    BY <1>1, <1>3, <1>7 DEF Commit, Revalidate, Park
  <1>8. CASE Wake(f) \/ Request(f) \/ Poke(f)
    BY <1>3, <1>8 DEF Wake, Request, Poke, control
  <1>9. CASE Return(f)
    BY <1>2, <1>9 DEF Return
  <1>10. CASE DeliverBeforePark(f) \/ Claim(f) \/ Resume(f)
    BY <1>2, <1>3, <1>10 DEF DeliverBeforePark, Claim, Resume, Interrupted
  <1> QED BY <1>4, <1>5, <1>6, <1>7, <1>8, <1>9, <1>10 DEF Worker

(* A transaction that starts, or starts again, is on track.                *)
LEMMA TrackRestart ==
  ASSUME TypeOK, AtShape, NEW f \in Fiber, at[f] # "done", Restart(f), out' = out
  PROVE  OnTrack(f)'
  <1>1. PICK m \in Tree : m = Current(f)
    BY CurrentType DEF AtShape
  <1>2. Current(f)' = m
    BY <1>1 DEF Current
  <1>3. /\ at'[f] = "run" /\ cur'[f] = m /\ frames'[f] = <<>>
        /\ rset'[f] = {} /\ wlog'[f] = <<>>
    BY <1>1 DEF Restart, TypeOK
  <1>4. OnCourse(Current(f), cur[f], frames[f], rset[f], wlog[f])'
    BY <1>2, <1>3, CourseStart
  <1> QED BY <1>3, <1>4 DEF OnTrack

(* What is on course after the step is on track.                           *)
LEMMA TrackMove ==
  ASSUME NEW f \in Fiber, out' = out, at'[f] = "run",
         OnCourse(Current(f), cur'[f], frames'[f], rset'[f], wlog'[f])
  PROVE  OnTrack(f)'
  <1>1. Current(f)' = Current(f)
    BY DEF Current
  <1> QED BY <1>1 DEF OnTrack

(* stm_run keeps an attempt on track: the steps that go down into a tree.  *)
LEMMA TrackDown ==
  ASSUME TypeOK, NEW f \in Fiber, OnTrack(f), PushFrame(f) \/ ReadTVar(f) \/ WriteTVar(f)
  PROVE  OnTrack(f)'
  <1>1. PICK c \in Tree : c = cur[f] /\ WellTyped(c)
    BY StmAssumption DEF TypeOK
  <1>2. PICK fs \in Seq(Frame) : fs = frames[f]
    BY DEF TypeOK
  <1>3. PICK log \in Seq(WEnt) : log = wlog[f]
    BY DEF TypeOK
  <1>4. OnCourse(Current(f), c, fs, rset[f], log)
    BY <1>1, <1>2, <1>3 DEF OnTrack
  <1>5. out' = out /\ at' = at /\ at[f] = "run"
    BY DEF PushFrame, ReadTVar, WriteTVar, control
  <1>6. CASE PushFrame(f)
    <2>1. PICK x \in Frame, d \in Tree :
            /\ Opens(c, x, d, Len(log))
            /\ frames' = [frames EXCEPT ![f] = <<x>> \o fs] /\ cur' = [cur EXCEPT ![f] = d]
      <3>1. CASE c.op = "bind"
        <4>1. PICK x \in Frame : x = [kind |-> "bind", k |-> c.k]
          BY <1>1, <3>1, FrameTypes DEF WellTyped
        <4>2. c.m \in Tree
          BY <1>1, <3>1 DEF WellTyped
        <4>3. frames' = [frames EXCEPT ![f] = <<x>> \o fs] /\ cur' = [cur EXCEPT ![f] = c.m]
          BY <1>1, <1>2, <1>6, <3>1, <4>1 DEF PushFrame
        <4> QED BY <3>1, <4>1, <4>2, <4>3 DEF Opens
      <3>2. CASE c.op = "orElse"
        <4>1. Len(log) \in Nat
          BY LenProperties
        <4>2. PICK x \in Frame : x = [kind |-> "orElse", r |-> c.r, nw |-> Len(log)]
          BY <1>1, <3>2, <4>1, FrameTypes DEF WellTyped
        <4>3. c.l \in Tree
          BY <1>1, <3>2 DEF WellTyped
        <4>4. frames' = [frames EXCEPT ![f] = <<x>> \o fs] /\ cur' = [cur EXCEPT ![f] = c.l]
          BY <1>1, <1>2, <1>3, <1>6, <3>2, <4>2 DEF PushFrame
        <4> QED BY <3>2, <4>2, <4>3, <4>4 DEF Opens
      <3> QED BY <1>1, <1>6, <3>1, <3>2 DEF PushFrame
    <2>2. PICK gs : gs = <<x>> \o fs
      OBVIOUS
    <2>3. Pushed(gs, fs) /\ gs[1] = x
      BY <2>2, PushIsPushed
    <2>4. OnCourse(Current(f), d, gs, rset[f], log)
      BY <1>4, <2>1, <2>3, CoursePush
    <2>5. cur'[f] = d /\ frames'[f] = gs /\ rset'[f] = rset[f] /\ wlog'[f] = log
      BY <1>3, <1>6, <2>1, <2>2 DEF PushFrame, TypeOK
    <2> QED BY <1>5, <2>4, <2>5, TrackMove
  <1>7. CASE ReadTVar(f)
    <2>1. c.op = "read" /\ c.tv \in TVar
      BY <1>1, <1>7 DEF ReadTVar, WellTyped
    <2>2. frames'[f] = fs /\ wlog'[f] = log
      BY <1>2, <1>3, <1>7 DEF ReadTVar
    <2>3. CASE Logged(log, c.tv)
      <3>1. PICK v \in Value : v = NewestWrite(log, c.tv)
        BY <2>3, NewestWriteType
      <3>2. cur'[f] = Pure(v) /\ rset'[f] = rset[f]
        BY <1>1, <1>3, <1>7, <2>3, <3>1 DEF ReadTVar, TypeOK
      <3>3. OnCourse(Current(f), Pure(v), fs, rset[f], log)
        BY <1>4, <2>1, <2>3, <3>1, CourseRead
      <3> QED BY <1>5, <2>2, <3>2, <3>3, TrackMove
    <2>4. CASE ~Logged(log, c.tv)
      <3>1. PICK v \in Value : v = box[c.tv].val
        BY <2>1 DEF TypeOK
      <3>2. /\ cur'[f] = Pure(v)
            /\ rset'[f] = rset[f] \cup {[tv |-> c.tv, ver |-> box[c.tv].ver, val |-> v]}
        <4>1. /\ cur' = [cur EXCEPT ![f] = Pure(v)]
              /\ rset' = [rset EXCEPT ![f] =
                            @ \cup {[tv |-> c.tv, ver |-> box[c.tv].ver, val |-> v]}]
          BY <1>1, <1>3, <1>7, <2>4, <3>1 DEF ReadTVar, Sample
        <4> QED BY <4>1 DEF TypeOK
      <3>3. rset[f] \subseteq rset'[f] /\ \E r \in rset'[f] : r.tv = c.tv /\ r.val = v
        <4>1. PICK r : r = [tv |-> c.tv, ver |-> box[c.tv].ver, val |-> v]
          OBVIOUS
        <4>2. r.tv = c.tv /\ r.val = v
          BY <4>1
        <4>3. r \in rset'[f]
          BY <3>2, <4>1
        <4> QED BY <3>2, <4>2, <4>3
      <3>4. OnCourse(Current(f), Pure(v), fs, rset'[f], log)
        BY <1>4, <2>1, <2>4, <3>3, CourseRead
      <3> QED BY <1>5, <2>2, <3>2, <3>4, TrackMove
    <2> QED BY <2>3, <2>4
  <1>8. CASE WriteTVar(f)
    <2>1. c.op = "write"
      BY <1>1, <1>8 DEF WriteTVar
    <2>2. /\ cur'[f] = Pure(Unit) /\ frames'[f] = fs /\ rset'[f] = rset[f]
          /\ wlog'[f] = Append(log, [tv |-> c.tv, val |-> c.val])
      BY <1>1, <1>2, <1>3, <1>8 DEF WriteTVar, TypeOK
    <2>3. OnCourse(Current(f), Pure(Unit), fs, rset[f], Append(log, [tv |-> c.tv, val |-> c.val]))
      BY <1>4, <2>1, CourseWrite
    <2>4. OnCourse(Current(f), cur'[f], frames'[f], rset'[f], wlog'[f])
      BY <2>2, <2>3
    <2> QED BY <1>5, <2>4, TrackMove
  <1> QED BY <1>6, <1>7, <1>8

(* stm_run keeps an attempt on track: the steps that go up a frame.        *)
LEMMA TrackUp ==
  ASSUME TypeOK, NEW f \in Fiber, OnTrack(f), PopFrame(f) \/ UnwindRetry(f)
  PROVE  OnTrack(f)'
  <1>1. PICK c \in Tree : c = cur[f]
    BY DEF TypeOK
  <1>2. PICK gs \in Seq(Frame) : gs = frames[f]
    BY DEF TypeOK
  <1>3. PICK log \in Seq(WEnt) : log = wlog[f]
    BY DEF TypeOK
  <1>4. OnCourse(Current(f), c, gs, rset[f], log)
    BY <1>1, <1>2, <1>3 DEF OnTrack
  <1>5. out' = out /\ at[f] = "run" /\ rset'[f] = rset[f]
    BY DEF PopFrame, UnwindRetry, control
  <1>6. CASE gs # <<>>
    <2>1. PICK fs : fs = Tail(gs)
      OBVIOUS
    <2>2. Pushed(gs, fs) /\ Head(gs) = gs[1] /\ gs[1] \in Frame
      BY <1>6, <2>1, TailIsPushed
    <2>3. gs[1].kind \in {"bind", "orElse"} /\ (gs[1].kind = "orElse" => gs[1].nw \in Nat)
      BY <2>2 DEF Frame
    <2>4. frames'[f] = fs
      BY <1>2, <1>6, <2>1 DEF PopFrame, UnwindRetry, TypeOK
    <2>5. CASE PopFrame(f)
      <3>1. PICK d : d = IF gs[1].kind = "bind" THEN gs[1].k[c.val] ELSE c
        OBVIOUS
      <3>2. c.op = "pure" /\ at' = at /\ wlog'[f] = log
        BY <1>1, <1>3, <2>5 DEF PopFrame, control
      <3>3. cur'[f] = d
        <4>1. CASE gs[1].kind = "bind"
          BY <1>1, <1>2, <2>2, <2>5, <3>1, <4>1 DEF PopFrame, TypeOK
        <4>2. CASE gs[1].kind # "bind"
          BY <1>1, <1>2, <2>2, <2>5, <3>1, <4>2 DEF PopFrame, TypeOK
        <4> QED BY <4>1, <4>2
      <3>4. OnCourse(Current(f), d, fs, rset[f], log)
        BY <1>4, <2>2, <2>3, <3>1, <3>2, CoursePop
      <3> QED BY <1>5, <2>4, <3>2, <3>3, <3>4, TrackMove
    <2>6. CASE UnwindRetry(f) /\ gs[1].kind = "bind"
      <3>1. c.op = "retry" /\ at' = at /\ wlog'[f] = log /\ cur'[f] = c
        BY <1>1, <1>2, <1>3, <1>6, <2>2, <2>6 DEF UnwindRetry
      <3>2. OnCourse(Current(f), c, fs, rset[f], log)
        BY <1>4, <2>2, <2>6, <3>1, CourseUnwind
      <3> QED BY <1>5, <2>4, <3>1, <3>2, TrackMove
    <2>7. CASE UnwindRetry(f) /\ gs[1].kind = "orElse"
      <3>1. /\ c.op = "retry" /\ at' = at /\ cur'[f] = gs[1].r
            /\ wlog'[f] = TruncateWrites(log, gs[1].nw)
        BY <1>1, <1>2, <1>3, <1>6, <2>2, <2>7 DEF UnwindRetry, TypeOK
      <3>2. OnCourse(Current(f), gs[1].r, fs, rset[f], TruncateWrites(log, gs[1].nw))
        BY <1>4, <2>2, <2>3, <2>7, <3>1, CourseBranch
      <3>3. OnCourse(Current(f), cur'[f], frames'[f], rset'[f], wlog'[f])
        BY <1>5, <2>4, <3>1, <3>2
      <3> QED BY <1>5, <3>1, <3>3, TrackMove
    <2> QED BY <2>3, <2>5, <2>6, <2>7
  <1>7. CASE gs = <<>>
    <2>1. UnwindRetry(f) /\ frames[f] = <<>>
      BY <1>2, <1>7 DEF PopFrame
    <2>2. /\ at'[f] = "revalidate" /\ cur[f].op = "retry"
          /\ cur'[f] = cur[f] /\ frames'[f] = frames[f] /\ wlog'[f] = wlog[f]
      BY <2>1 DEF UnwindRetry, TypeOK
    <2>3. Current(f)' = Current(f)
      BY <1>5 DEF Current
    <2> QED BY <1>5, <2>1, <2>2, <2>3 DEF OnTrack
  <1> QED BY <1>6, <1>7

(* Every step leaves the attempt of its fiber on track, or ends it.        *)
LEMMA TrackHere ==
  ASSUME TrackInv, NEW f \in Fiber, Worker(f) \/ Claim(f) \/ Request(f) \/ Poke(f),
         at'[f] \in Attempt
  PROVE  OnTrack(f)'
  <1>0. TypeOK /\ AtShape /\ ParkShape
    BY DEF TrackInv, TypeInv
  <1>1. at[f] \in Attempt => OnTrack(f)
    BY DEF TrackInv
  <1>2. ASSUME at[f] # "done", Restart(f), out' = out PROVE OnTrack(f)'
    BY <1>0, <1>2, TrackRestart
  <1>3. ASSUME NEW e, MovesOn(f, e) PROVE FALSE
    BY <1>0, <1>3 DEF MovesOn, Attempt, TypeOK
  <1>4. ASSUME UNCHANGED journal, out' = out, at[f] \in Attempt, at'[f] = at[f] \/ at[f] # "run"
        PROVE  OnTrack(f)'
    <2>1. Same(f)
      BY <1>4 DEF Same, journal
    <2> QED BY <1>1, <1>4, <2>1, TrackSame
  <1>5. CASE PushFrame(f) \/ ReadTVar(f) \/ WriteTVar(f) \/ PopFrame(f) \/ UnwindRetry(f)
    <2>1. at[f] \in Attempt
      BY <1>5 DEF PushFrame, ReadTVar, WriteTVar, PopFrame, UnwindRetry, Attempt
    <2> QED BY <1>0, <1>1, <1>5, <2>1, TrackDown, TrackUp
  <1>6. CASE Enter(f)
    BY <1>2, <1>6 DEF Enter
  <1>7. CASE Commit(f)
    <2>1. CASE ~Valid(f)
      BY <1>2, <1>7, <2>1 DEF Commit
    <2>2. CASE Valid(f)
      <3>1. at'[f] = "wake"
        BY <1>0, <1>7, <2>2 DEF Commit, TypeOK
      <3> QED BY <3>1 DEF Attempt
    <2> QED BY <2>1, <2>2
  <1>8. CASE Wake(f)
    BY <1>8 DEF Wake, Attempt
  <1>9. CASE Return(f)
    BY <1>3, <1>9 DEF Return
  <1>10. CASE Revalidate(f)
    <2>1. at[f] = "revalidate" /\ out' = out
      BY <1>10 DEF Revalidate
    <2>2. Restart(f) \/ UNCHANGED journal
      BY <1>10 DEF Revalidate
    <2> QED BY <1>2, <1>4, <2>1, <2>2 DEF Attempt
  <1>11. CASE DeliverBeforePark(f)
    <2>1. at[f] = "deliver" /\ UNCHANGED journal
      BY <1>11 DEF DeliverBeforePark
    <2>2. MovesOn(f, Stopped) \/ out' = out
      BY <1>11 DEF DeliverBeforePark, Interrupted
    <2> QED BY <1>3, <1>4, <2>1, <2>2 DEF Attempt
  <1>12. CASE Park(f)
    <2>1. at[f] = "park" /\ out' = out
      BY <1>12 DEF Park
    <2>2. Restart(f) \/ UNCHANGED journal
      BY <1>12 DEF Park
    <2> QED BY <1>2, <1>4, <2>1, <2>2 DEF Attempt
  <1>13. CASE Resume(f)
    <2>1. MovesOn(f, Stopped) \/ at'[f] = "enter"
      BY <1>0, <1>13 DEF Resume, Interrupted, TypeOK
    <2> QED BY <1>3, <2>1 DEF Attempt
  <1>14. CASE Claim(f)
    <2>1. UNCHANGED journal /\ (MovesOn(f, Stopped) \/ (out' = out /\ at' = at))
      BY <1>14 DEF Claim, Interrupted
    <2> QED BY <1>3, <1>4, <2>1
  <1>15. CASE Request(f) \/ Poke(f)
    <2>1. UNCHANGED journal /\ out' = out /\ at' = at
      BY <1>15 DEF Request, Poke, control
    <2> QED BY <1>4, <2>1
  <1> QED BY <1>5, <1>6, <1>7, <1>8, <1>9, <1>10, <1>11, <1>12, <1>13, <1>14, <1>15 DEF Worker

(* Every attempt stays on track.                                           *)
LEMMA TrackStep == TrackInv /\ [Next]_vars => TrackInv'
  <1> SUFFICES ASSUME TrackInv, [Next]_vars PROVE TrackInv'
    OBVIOUS
  <1>1. TypeInv'
    BY TypeInvStep DEF TrackInv
  <1>2. CASE UNCHANGED vars
    <2>1. UNCHANGED journal /\ at' = at /\ out' = out /\ pending' = pending
      BY <1>2 DEF vars, control, signal
    <2>2. ASSUME NEW g \in Fiber, at'[g] \in Attempt PROVE OnTrack(g)'
      <3>1. OnTrack(g) /\ Same(g)
        BY <2>1, <2>2 DEF TrackInv, Same, journal
      <3> QED BY <2>1, <3>1, TrackSame
    <2> QED BY <1>1, <2>1, <2>2 DEF TrackInv
  <1>3. CASE Next
    <2>1. PICK f \in Fiber : Worker(f) \/ Claim(f) \/ Request(f) \/ Poke(f)
      BY <1>3 DEF Next
    <2>2. ASSUME NEW g \in Fiber, at'[g] \in Attempt PROVE OnTrack(g)'
      <3>1. CASE g = f
        BY <2>1, <2>2, <3>1, TrackHere
      <3>2. CASE g # f
        <4>1. Same(g) /\ at'[g] = at[g]
          BY <2>1, <3>2, Elsewhere DEF TrackInv, TypeInv
        <4>2. OnTrack(g)
          BY <2>2, <4>1 DEF TrackInv
        <4> QED BY <4>1, <4>2, TrackSame
      <3> QED BY <3>1, <3>2
    <2>3. pending' \subseteq Victim
      <3>1. pending' \subseteq pending \/ (f \in Victim /\ pending' = pending \cup {f})
        BY <2>1 DEF Worker, Enter, PushFrame, ReadTVar, WriteTVar, PopFrame, UnwindRetry, Commit,
             Wake, Return, Revalidate, DeliverBeforePark, Park, Resume, Claim, Request, Poke,
             Interrupted, signal
      <3> QED BY <3>1 DEF TrackInv
    <2> QED BY <1>1, <2>2, <2>3 DEF TrackInv
  <1> QED BY <1>2, <1>3

(* They are on track in every reachable state.                             *)
LEMMA TrackInvariant == Spec => []TrackInv
  <1>1. Init => TrackInv
    <2>1. Init => TypeInv
      BY TypeInit DEF TypeInv, Init, ParkShape
    <2>2. Init => pending \subseteq Victim /\ \A f \in Fiber : at[f] \notin Attempt
      BY DEF Init, Attempt
    <2> QED BY <2>1, <2>2 DEF TrackInv
  <1> QED BY <1>1, TrackStep, PTL DEF Spec

----------------------------------------------------------------------------
(* What the abstract specification sees of stm.c: the values of the TVars, *)
(* and the outcomes with the one that is on its way to its fiber.          *)
Memory == [tv \in TVar |-> box[tv].val]
Ended == [f \in Fiber |-> IF at[f] = "wake" THEN Append(out[f], Committed(cur[f].val))
                          ELSE out[f]]

(* A fiber's next transaction is the one it is in, run alone.              *)
LEMMA NowMeans ==
  ASSUME NEW f \in Fiber, at[f] # "wake"
  PROVE  /\ Ended[f] = out[f]
         /\ Abstract!Now(f) = Meaning[Current(f)][Memory]
         /\ Abstract!Waiting(f) <=> Len(out[f]) < Len(Txn[f])
  <1>1. Ended[f] = out[f]
    BY DEF Ended
  <1>2. Abstract!Now(f) = Meaning[Txn[f][Len(Ended[f]) + 1]][Memory]
    BY DEF Abstract!Now, Meaning, Ended, Memory
  <1>3. Abstract!Waiting(f) <=> Len(Ended[f]) < Len(Txn[f])
    BY DEF Abstract!Waiting, Ended
  <1> QED BY <1>1, <1>2, <1>3 DEF Current

(* A fiber in an attempt has a transaction to execute.                     *)
LEMMA StillWaiting ==
  ASSUME TypeOK, AtShape, NEW f \in Fiber, at[f] # "wake", at[f] # "done"
  PROVE  Abstract!Waiting(f)
  <1>1. Len(out[f]) \in Nat /\ Len(Txn[f]) \in Nat
    BY StmAssumption, LenProperties DEF TypeOK
  <1>2. Len(out[f]) + 1 <= Len(Txn[f])
    BY DEF AtShape
  <1>3. Len(out[f]) < Len(Txn[f])
    BY <1>1, <1>2
  <1> QED BY <1>3, NowMeans

(* The memory holds values, and agrees with a validated read set.          *)
LEMMA ValidAgrees ==
  ASSUME TypeOK, VersionsNameValues, NEW f \in Fiber
  PROVE  Memory \in Store /\ (Valid(f) => Agrees(Memory, rset[f]))
  <1>1. Memory \in Store
    BY DEF Memory, Store, TypeOK
  <1>2. ASSUME Valid(f), NEW r \in rset[f] PROVE Memory[r.tv] = r.val
    <2>1. r.tv \in TVar
      BY DEF TypeOK, REnt
    <2>2. box[r.tv].val = r.val
      BY <1>2 DEF Valid, VersionsNameValues
    <2> QED BY <2>1, <2>2 DEF Memory
  <1> QED BY <1>1, <1>2 DEF Agrees

(* A commit is the transaction's effect, all of it and at once.            *)
LEMMA CommitIsAtomic ==
  ASSUME TrackInv, VersionsNameValues, NEW f \in Fiber, Commit(f), Valid(f)
  PROVE  Abstract!Atomically(f)
  <1>0. TypeOK /\ AtShape
    BY DEF TrackInv, TypeInv
  <1>1. PICK c \in Tree : c = cur[f] /\ WellTyped(c)
    BY <1>0, StmAssumption DEF TypeOK
  <1>2. PICK log \in Seq(WEnt) : log = wlog[f]
    BY <1>0 DEF TypeOK
  <1>3. /\ at[f] = "run" /\ c.op = "pure" /\ frames[f] = <<>> /\ out' = out
        /\ at' = [at EXCEPT ![f] = "wake"] /\ cur' = cur
        /\ box' = [tv \in TVar |-> IF Logged(log, tv)
                                     THEN [val |-> NewestWrite(log, tv), ver |-> NewTick]
                                     ELSE box[tv]]
    BY <1>1, <1>2 DEF Commit, journal
  <1>4. c.val \in Value
    BY <1>1, <1>3 DEF WellTyped
  <1>5. Memory' = Overlay(Memory, log)
    <2>1. \A tv \in TVar : box'[tv].val = IF Logged(log, tv) THEN NewestWrite(log, tv)
                                          ELSE Memory[tv]
      BY <1>3 DEF Memory
    <2> QED BY <2>1 DEF Memory, Overlay
  <1>6. Meaning[Current(f)][Memory] = Yields(c.val, Memory')
    <2>1. Memory \in Store /\ Agrees(Memory, rset[f])
      BY <1>0, ValidAgrees
    <2>2. OnCourse(Current(f), c, <<>>, rset[f], log)
      BY <1>1, <1>2, <1>3 DEF TrackInv, Attempt, OnTrack
    <2>3. Meaning[Current(f)][Memory] = Meaning[c][Overlay(Memory, log)]
      BY <2>1, <2>2, CourseEnd
    <2>4. Overlay(Memory, log) \in Store
      BY <2>1, OverlayType
    <2>5. Meaning[c][Overlay(Memory, log)] = Yields(c.val, Overlay(Memory, log))
      BY <1>3, <2>4, EvalTypes, LevelPure
    <2> QED BY <1>5, <2>3, <2>5
  <1>7. Ended' = [Ended EXCEPT ![f] = Append(@, [op |-> "committed", val |-> c.val])]
    <2>1. Ended'[f] = Append(out[f], [op |-> "committed", val |-> c.val]) /\ Ended[f] = out[f]
      BY <1>0, <1>1, <1>3 DEF Ended, Committed, TypeOK
    <2>2. \A g \in Fiber : g # f => Ended'[g] = Ended[g]
      BY <1>0, <1>3 DEF Ended, TypeOK
    <2> QED BY <2>1, <2>2 DEF Ended
  <1>8. PICK now : now = Abstract!Now(f)
    OBVIOUS
  <1>9. now.ok /\ Memory' = now.store /\ now.val = c.val
    <2>1. now = Yields(c.val, Memory')
      BY <1>3, <1>6, <1>8, NowMeans
    <2> QED BY <2>1, YieldTypes
  <1>10. Abstract!Waiting(f)
    BY <1>0, <1>3, StillWaiting
  <1>11. Ended' = [Ended EXCEPT ![f] = Append(@, [op |-> "committed", val |-> now.val])]
    BY <1>7, <1>9
  <1> QED BY <1>8, <1>9, <1>10, <1>11 DEF Abstract!Atomically, Memory, Ended

(* Delivering an interrupt ends a transaction without an effect.           *)
LEMMA InterruptIsAtomic ==
  ASSUME TrackInv, NEW f \in Fiber, f \in pending, at[f] \notin {"wake", "done"},
         MovesOn(f, Stopped), box' = box, cur' = cur
  PROVE  Abstract!Interrupt(f)
  <1>0. TypeOK /\ AtShape
    BY DEF TrackInv, TypeInv
  <1>1. Abstract!Waiting(f) /\ f \in Victim
    BY <1>0, StillWaiting DEF TrackInv
  <1>2. Memory' = Memory
    BY DEF Memory
  <1>3. Ended' = [Ended EXCEPT ![f] = Append(@, [op |-> "interrupted"])]
    <2>1. Ended'[f] = Append(out[f], [op |-> "interrupted"]) /\ Ended[f] = out[f]
      BY <1>0 DEF MovesOn, Ended, Stopped, TypeOK
    <2>2. \A g \in Fiber : g # f => Ended'[g] = Ended[g]
      BY <1>0 DEF MovesOn, Ended, TypeOK
    <2> QED BY <2>1, <2>2 DEF Ended
  <1> QED BY <1>1, <1>2, <1>3 DEF Abstract!Interrupt, Memory, Ended

(* The other steps do nothing that the abstract specification sees.        *)
LEMMA StutterHere ==
  ASSUME TypeOK, NEW f \in Fiber, box' = box, at[f] # "wake", out' = out, cur' = cur,
         at' = at \/ \E x : x # "wake" /\ at' = [at EXCEPT ![f] = x]
  PROVE  Memory' = Memory /\ Ended' = Ended
  BY DEF Memory, Ended, TypeOK

(* Every step of stm.c is one of the abstract specification, or none.      *)
LEMMA AbstractStep ==
  ASSUME TrackInv, VersionsNameValues, NEW f \in Fiber,
         Worker(f) \/ Claim(f) \/ Request(f) \/ Poke(f)
  PROVE  Abstract!Atomically(f) \/ Abstract!Interrupt(f) \/ (Memory' = Memory /\ Ended' = Ended)
  <1>0. TypeOK /\ AtShape /\ ParkShape
    BY DEF TrackInv, TypeInv
  <1>1. ASSUME box' = box, at[f] # "wake", out' = out,
               \E x : x # "wake" /\ at' = [at EXCEPT ![f] = x],
               \E v : cur' = [cur EXCEPT ![f] = v]
        PROVE  Memory' = Memory /\ Ended' = Ended
    BY <1>0, <1>1 DEF Memory, Ended, TypeOK
  <1>2. ASSUME box' = box, at[f] # "wake", out' = out, Restart(f)
        PROVE  Memory' = Memory /\ Ended' = Ended
    BY <1>1, <1>2 DEF Restart
  <1>3. CASE PushFrame(f) \/ ReadTVar(f) \/ WriteTVar(f) \/ PopFrame(f) \/ UnwindRetry(f)
    <2>1. box' = box /\ at[f] = "run" /\ out' = out
      BY <1>3 DEF PushFrame, ReadTVar, WriteTVar, PopFrame, UnwindRetry, memory, control
    <2>2. \E x : x # "wake" /\ at' = [at EXCEPT ![f] = x]
      <3>1. at' = [at EXCEPT ![f] = "run"] \/ at' = [at EXCEPT ![f] = "revalidate"]
        BY <1>0, <1>3 DEF PushFrame, ReadTVar, WriteTVar, PopFrame, UnwindRetry, control, TypeOK
      <3> QED BY <3>1
    <2>3. \E v : cur' = [cur EXCEPT ![f] = v]
      <3>1. cur = [cur EXCEPT ![f] = cur[f]]
        BY <1>0 DEF TypeOK
      <3> QED BY <1>3, <3>1 DEF PushFrame, ReadTVar, WriteTVar, PopFrame, UnwindRetry
    <2> QED BY <1>1, <2>1, <2>2, <2>3
  <1>4. CASE Enter(f)
    BY <1>2, <1>4 DEF Enter
  <1>5. CASE Commit(f)
    <2>1. CASE ~Valid(f)
      BY <1>2, <1>5, <2>1 DEF Commit, memory
    <2>2. CASE Valid(f)
      BY <1>5, <2>2, CommitIsAtomic
    <2> QED BY <2>1, <2>2
  <1>6. CASE Wake(f) \/ Request(f) \/ Poke(f)
    <2>1. box' = box /\ at' = at /\ out' = out /\ cur' = cur
      BY <1>6 DEF Wake, Request, Poke, memory, control, journal
    <2> QED BY <2>1 DEF Memory, Ended
  <1>7. CASE Return(f)
    <2>1. /\ box' = box /\ cur' = cur /\ at[f] = "wake"
          /\ out' = [out EXCEPT ![f] = Append(@, Committed(cur[f].val))]
          /\ \E x : x # "wake" /\ at' = [at EXCEPT ![f] = x]
      <3>1. at' = [at EXCEPT ![f] = "enter"] \/ at' = [at EXCEPT ![f] = "done"]
        BY <1>7 DEF Return, MovesOn
      <3>2. /\ box' = box /\ cur' = cur /\ at[f] = "wake"
            /\ out' = [out EXCEPT ![f] = Append(@, Committed(cur[f].val))]
        BY <1>7 DEF Return, MovesOn, memory, journal
      <3> QED BY <3>1, <3>2
    <2>2. ASSUME NEW g \in Fiber PROVE Ended'[g] = Ended[g]
      <3>1. CASE g = f
        BY <1>0, <2>1, <3>1 DEF Ended, TypeOK
      <3>2. CASE g # f
        BY <1>0, <2>1, <3>2 DEF Ended, TypeOK
      <3> QED BY <3>1, <3>2
    <2>3. Ended' = Ended
      BY <2>2 DEF Ended
    <2> QED BY <2>1, <2>3 DEF Memory
  <1>8. CASE Revalidate(f)
    <2>1. CASE ~Valid(f)
      BY <1>2, <1>8, <2>1 DEF Revalidate, memory
    <2>2. CASE Valid(f)
      BY <1>0, <1>8, <2>2, StutterHere DEF Revalidate, memory, journal
    <2> QED BY <2>1, <2>2
  <1>9. CASE DeliverBeforePark(f)
    <2>1. CASE f \in pending
      BY <1>9, <2>1, InterruptIsAtomic DEF DeliverBeforePark, Interrupted, journal
    <2>2. CASE f \notin pending
      BY <1>0, <1>9, <2>2, StutterHere DEF DeliverBeforePark, journal
    <2> QED BY <2>1, <2>2
  <1>10. CASE Park(f)
    <2>1. CASE ~Valid(f)
      BY <1>2, <1>10, <2>1 DEF Park
    <2>2. CASE Valid(f)
      BY <1>0, <1>10, <2>2, StutterHere DEF Park, journal
    <2> QED BY <2>1, <2>2
  <1>11. CASE Resume(f)
    <2>1. at[f] = "parked"
      BY <1>0, <1>11 DEF Resume, ParkShape
    <2>2. CASE f \in pending
      BY <1>11, <2>1, <2>2, InterruptIsAtomic DEF Resume, Interrupted, journal
    <2>3. CASE f \notin pending
      BY <1>0, <1>11, <2>1, <2>3, StutterHere DEF Resume, journal
    <2> QED BY <2>2, <2>3
  <1>12. CASE Claim(f)
    <2>1. CASE f \in pending /\ status[f] = "Parked"
      <3>1. at[f] = "parked"
        BY <1>0, <2>1 DEF ParkShape
      <3> QED BY <1>12, <2>1, <3>1, InterruptIsAtomic DEF Claim, Interrupted, journal
    <2>2. CASE ~(f \in pending /\ status[f] = "Parked")
      <3>1. box' = box /\ at' = at /\ out' = out /\ cur' = cur
        BY <1>12, <2>2 DEF Claim, journal
      <3> QED BY <3>1 DEF Memory, Ended
    <2> QED BY <2>1, <2>2
  <1> QED BY <1>3, <1>4, <1>5, <1>6, <1>7, <1>8, <1>9, <1>10, <1>11, <1>12 DEF Worker

(* stm.c is serializable: for any number of fibers, TVars and values and   *)
(* any well-typed transactions of finite depth, every commit has the       *)
(* effect and the result its transaction has when it runs alone at that    *)
(* instant, an interrupted transaction has no effect, and nothing else     *)
(* changes a TVar.                                                         *)
THEOREM StmSerializable == Spec => Serializable
  <1>1. Init => Abstract!Init
    <2> SUFFICES ASSUME Init PROVE Abstract!Init
      OBVIOUS
    <2>1. Memory = InitStore
      BY StmAssumption DEF Init, Memory
    <2>2. Ended = [f \in Fiber |-> <<>>]
      BY DEF Init, Ended
    <2> QED BY <2>1, <2>2 DEF Abstract!Init, Memory, Ended
  <1>2. TrackInv /\ VersionInv /\ [Next]_vars => [Abstract!Next]_(Abstract!vars)
    <2> SUFFICES ASSUME TrackInv, VersionInv, [Next]_vars
                 PROVE  Abstract!Next \/ (Memory' = Memory /\ Ended' = Ended)
      BY DEF Abstract!vars, Memory, Ended
    <2>1. CASE UNCHANGED vars
      <3>1. box' = box /\ at' = at /\ out' = out /\ cur' = cur
        BY <2>1 DEF vars, memory, control, journal
      <3> QED BY <3>1 DEF Memory, Ended
    <2>2. CASE Next
      <3>1. PICK f \in Fiber : Worker(f) \/ Claim(f) \/ Request(f) \/ Poke(f)
        BY <2>2 DEF Next
      <3>2. Abstract!Atomically(f) \/ Abstract!Interrupt(f) \/ (Memory' = Memory /\ Ended' = Ended)
        BY <3>1, AbstractStep DEF VersionInv
      <3> QED BY <3>2 DEF Abstract!Next
    <2> QED BY <2>1, <2>2
  <1> QED BY <1>1, <1>2, TrackInvariant, VersionInvariant, PTL DEF Spec, Serializable, Abstract!Spec

(* retry waits for good reason only: whatever the transactions are, one    *)
(* that is parked with no wake on its way would retry again if it ran      *)
(* alone now, its orElse branches included.                                *)
THEOREM StmBlockedMeansRetry == Spec => []BlockedMeansRetry
  <1>1. TrackInv /\ VersionInv /\ RetryInv => BlockedMeansRetry
    <2> SUFFICES ASSUME TrackInv, VersionInv, RetryInv, NEW f \in Fiber, status[f] = "Parked",
                        \A g \in Fiber : f \notin todo[g]
                 PROVE  ~Abstract!Now(f).ok
      BY DEF BlockedMeansRetry
    <2>1. TypeOK /\ at[f] = "parked" /\ VersionsNameValues
      BY DEF TrackInv, TypeInv, ParkShape, VersionInv
    <2>2. Valid(f)
      BY DEF RetryInv, NoLostRetry, Valid
    <2>3. Memory \in Store /\ Agrees(Memory, rset[f])
      BY <2>1, <2>2, ValidAgrees
    <2>4. /\ OnCourse(Current(f), cur[f], <<>>, rset[f], wlog[f])
          /\ cur[f].op = "retry"
      BY <2>1 DEF TrackInv, Attempt, OnTrack
    <2>5. Meaning[Current(f)][Memory] = Meaning[cur[f]][Overlay(Memory, wlog[f])]
      BY <2>3, <2>4, CourseEnd
    <2>6. cur[f] \in Tree /\ Overlay(Memory, wlog[f]) \in Store
      BY <2>1, <2>3, OverlayType DEF TypeOK
    <2>7. ~Meaning[Current(f)][Memory].ok
      BY <2>4, <2>5, <2>6, RetryMeans
    <2> QED BY <2>1, <2>7, NowMeans
  <1> QED BY <1>1, TrackInvariant, VersionInvariant, RetryInvariant, PTL

=============================================================================
