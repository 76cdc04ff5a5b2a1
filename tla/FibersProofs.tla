---------------------------- MODULE FibersProofs ----------------------------
(* Proofs about the scheduler of module Fibers, for any number of fibers,  *)
(* workers, promises and scopes.                                           *)
EXTENDS Fibers, FiniteSetTheorems, TLAPS

----------------------------------------------------------------------------
(* Type correctness.  It rests on ThreadShape: what a worker puts into the *)
(* run queue is a fiber only because of where the worker is.               *)
LEMMA TypeInit == Init => TypeOK /\ ThreadShape
  <1> SUFFICES ASSUME Init PROVE TypeOK /\ ThreadShape
    OBVIOUS
  <1> USE FibersAssumption
  <1>1. rq \in Seq(Fiber)
    <2>1. Cardinality(Roots) \in Nat
      BY FS_CardinalityType DEF Init
    <2>2. rq \in [1..Cardinality(Roots) -> Fiber]
      BY <2>1 DEF Init
    <2> QED BY <2>1, <2>2
  <1>2. TypeOK
    BY <1>1 DEF Init, TypeOK, Cur, Label, Waiter, Registration
  <1>3. ThreadShape
    BY DEF Init, ThreadShape, Shape
  <1> QED BY <1>2, <1>3

(* The data the steps build has the types TypeOK names.                    *)
LEMMA WaitableTypes ==
  /\ Fiber \subseteq Waitable /\ Promise \subseteq Waitable /\ Scope \subseteq Waitable
  /\ Nil \notin Waitable /\ Nil \notin Fiber /\ Nil \notin Scope
  BY FibersAssumption DEF Waitable

(* What a fiber is at is an operation and, for some, its object.           *)
LEMMA CurTypes ==
  /\ \A o \in Waitable \cup {Nil} : Pure(o) \in Cur
  /\ \A op \in ParkOps, o \in Waitable \cup {Nil} : [op |-> op, obj |-> o] \in Cur
  /\ \A c \in Cur : c.obj \in Waitable \cup {Nil}
  BY DEF Pure, Cur, ParkOps

(* A waiter node is a fiber and the number of the park it belongs to.      *)
LEMMA NodeTypes ==
  /\ \A f \in Fiber, n \in Nat : <<f, n>> \in Node
  /\ \A w \in Node : w[1] \in Fiber
  BY DEF Node

(* What DeliverInterrupt, ParkOn and WakeAll write is well typed.          *)
LEMMA DeliverType ==
  ASSUME TypeOK, NEW f \in Fiber, NEW r, DeliverInterrupt(f, r)
  PROVE  /\ waiters' \in [Waitable -> SUBSET Node]
         /\ park' \in [Fiber -> Waiter \cup {Nil}]
         /\ cur' \in [Fiber -> Cur]
         /\ pending' \subseteq Fiber /\ interrupted' \subseteq Fiber
         /\ resumed' \subseteq Fiber /\ masked' \subseteq Fiber
  <1>1. waiters' \in [Waitable -> SUBSET Node]
    BY DEF DeliverInterrupt, Unlink, TypeOK
  <1>2. cur' \in [Fiber -> Cur]
    BY CurTypes DEF DeliverInterrupt, TypeOK
  <1> QED BY <1>1, <1>2 DEF DeliverInterrupt, TypeOK

(* Parking keeps the types of what it writes.                              *)
LEMMA ParkType ==
  ASSUME TypeOK, NEW t \in Thread, NEW f \in Fiber, NEW o \in Waitable \cup {Nil},
         ParkOn(t, f, o)
  PROVE  /\ parks' \in [Fiber -> Nat]
         /\ waiters' \in [Waitable -> SUBSET Node]
         /\ park' \in [Fiber -> Waiter \cup {Nil}]
         /\ reg' \in [Thread -> Registration \cup {Nil}]
         /\ status' \in [Fiber -> {"Unborn", "Runnable", "Running", "Parked", "Done"}]
  <1> DEFINE n == parks[f] + 1
             r == [obj |-> o, n |-> n, unmasked |-> f \notin masked]
  <1>1. n \in Nat
    BY DEF TypeOK
  <1>2. <<f, n>> \in Node /\ [obj |-> o, n |-> n] \in Waiter
    BY <1>1 DEF Node, Waiter
  <1>3. r \in Registration
    BY <1>1 DEF Registration
  <1>4. reg' \in [Thread -> Registration \cup {Nil}]
    BY <1>3 DEF ParkOn, TypeOK
  <1> QED BY <1>1, <1>2, <1>4 DEF ParkOn, TypeOK

(* Taking a list of waiters keeps the types, and only the taker moves.     *)
LEMMA WakeAllType ==
  ASSUME TypeOK, NEW t \in Thread, NEW list \in SUBSET Node,
         NEW o \in Waitable \cup {Nil}, NEW next \in Label, WakeAll(t, list, o, next)
  PROVE  /\ todo' \in [Thread -> SUBSET Node] /\ src' \in [Thread -> Waitable \cup {Nil}]
         /\ ret' \in [Thread -> Label] /\ pc' \in [Thread -> Label]
         /\ pc'[t] = (IF list = {} THEN next ELSE "wake")
         /\ ret'[t] = next
         /\ \A u \in Thread \ {t} : pc'[u] = pc[u] /\ ret'[u] = ret[u]
  BY DEF WakeAll, TypeOK, Label

(* A worker that starts a wake loop keeps its locals in shape, provided it *)
(* has a fiber to go back to.                                              *)
LEMMA WakeAllShape ==
  ASSUME TypeOK, ThreadShape, NEW t \in Thread, NEW list \in SUBSET Node,
         NEW o \in Waitable \cup {Nil},
         NEW next \in {"run", "check", "claim", "kids", "detach", "idle"},
         WakeAll(t, list, o, next), pc[t] \notin {"push", "attach"},
         won' = won, next # "idle" => fib'[t] \in Fiber,
         \A u \in Thread \ {t} : fib'[u] = fib[u]
  PROVE  ThreadShape'
  <1> SUFFICES ASSUME NEW u \in Thread PROVE Shape(u)'
    BY DEF ThreadShape
  <1>1. /\ pc'[t] = (IF list = {} THEN next ELSE "wake") /\ ret'[t] = next
        /\ \A v \in Thread \ {t} : pc'[v] = pc[v] /\ ret'[v] = ret[v]
    BY DEF WakeAll, TypeOK
  <1>2. Shape(u)
    BY DEF ThreadShape
  <1>3. CASE u = t
    BY <1>1, <1>2, <1>3 DEF Shape
  <1>4. CASE u # t
    BY <1>1, <1>2, <1>4 DEF Shape
  <1> QED BY <1>3, <1>4

(* Types and worker positions are preserved by every step.                 *)
LEMMA TypeNext ==
  ASSUME TypeOK, ThreadShape, [Next]_vars
  PROVE  TypeOK' /\ ThreadShape'
  <1>1. ASSUME NEW t \in Thread, Pop(t) PROVE TypeOK' /\ ThreadShape'
    <2>2. TypeOK'
      BY <1>1 DEF TypeOK, Label, Pop, fiberVars, objectVars, threadVars
    <2>3. ThreadShape'
      BY <1>1 DEF TypeOK, ThreadShape, Shape, Pop, fiberVars, objectVars, threadVars
    <2> QED BY <2>2, <2>3
  <1>2. ASSUME NEW t \in Thread, Deliver(t) PROVE TypeOK' /\ ThreadShape'
    <2>1. fib[t] \in Fiber
      BY <1>2 DEF Deliver, ThreadShape, Shape
    <2>2. TypeOK'
      BY <1>2, <2>1, DeliverType DEF TypeOK, Label, Deliver, fiberVars, objectVars, threadVars
    <2>3. ThreadShape'
      BY <1>2, <2>1 DEF TypeOK, ThreadShape, Shape, Deliver, fiberVars, objectVars, threadVars
    <2> QED BY <2>2, <2>3
  <1>3. ASSUME NEW t \in Thread, Park(t) PROVE TypeOK' /\ ThreadShape'
    <2>1. fib[t] \in Fiber /\ cur[fib[t]].obj \in Waitable \cup {Nil}
      BY <1>3, CurTypes DEF Park, TypeOK, ThreadShape, Shape
    <2>2. CASE FoundResolved(t)
      <3>0. Pure(cur[fib[t]].obj) \in Cur
        BY <2>1, CurTypes
      <3>1. cur' \in [Fiber -> Cur]
        BY <1>3, <2>1, <2>2, <3>0 DEF Park, TypeOK
      <3>2. TypeOK'
        BY <1>3, <2>1, <2>2, <3>1 DEF Park, TypeOK, Label
      <3>3. ThreadShape'
        BY <1>3, <2>1, <2>2 DEF Park, TypeOK, ThreadShape, Shape
      <3> QED BY <3>2, <3>3
    <2>3. CASE ~FoundResolved(t)
      <3>1. TypeOK'
        BY <1>3, <2>1, <2>3, ParkType DEF Park, TypeOK, Label
      <3>2. ThreadShape'
        BY <1>3, <2>1, <2>3 DEF Park, TypeOK, ThreadShape, Shape
      <3> QED BY <3>1, <3>2
    <2> QED BY <2>2, <2>3
  <1>4. ASSUME NEW t \in Thread, Claim(t) PROVE TypeOK' /\ ThreadShape'
    <2>1. fib[t] \in Fiber
      BY <1>4 DEF Claim, ThreadShape, Shape
    <2>2. CASE ClaimsPending(t)
      <3>1. DeliverInterrupt(fib[t], reg[t])
        BY <1>4, <2>2 DEF Claim
      <3>2. TypeOK'
        <4>1. /\ waiters' \in [Waitable -> SUBSET Node]
              /\ park' \in [Fiber -> Waiter \cup {Nil}]
              /\ cur' \in [Fiber -> Cur]
              /\ pending' \subseteq Fiber /\ interrupted' \subseteq Fiber
              /\ resumed' \subseteq Fiber /\ masked' \subseteq Fiber
          BY <2>1, <3>1, DeliverType
        <4>2. /\ status' = [status EXCEPT ![fib[t]] = "Running"]
              /\ pc' = [pc EXCEPT ![t] = "run"] /\ fib' = fib
              /\ reg' = [reg EXCEPT ![t] = Nil]
              /\ UNCHANGED <<born, parks, att, ops, rq, completed, shutting, todo, src,
                             won, ret, kids>>
          BY <1>4, <2>2 DEF Claim
        <4> QED BY <2>1, <4>1, <4>2 DEF TypeOK, Label
      <3>3. ThreadShape'
        BY <1>4, <2>1, <2>2 DEF Claim, TypeOK, ThreadShape, Shape
      <3> QED BY <3>2, <3>3
    <2>3. CASE ~ClaimsPending(t)
      <3>1. TypeOK'
        BY <1>4, <2>1, <2>3 DEF Claim, TypeOK, Label
      <3>2. ThreadShape'
        BY <1>4, <2>1, <2>3 DEF Claim, TypeOK, ThreadShape, Shape
      <3> QED BY <3>1, <3>2
    <2> QED BY <2>2, <2>3
  <1>5. ASSUME NEW t \in Thread, WakeCas(t) PROVE TypeOK' /\ ThreadShape'
    <2>1. PICK w \in todo[t] : WakeCas(t)!2!(w)
      BY <1>5 DEF WakeCas
    <2>2. w[1] \in Fiber
      BY <2>1, NodeTypes DEF TypeOK
    <2>3. TypeOK'
      <3>1. CASE CasFromParked(w[1])
        BY ZenonT(30), <1>5, <2>1, <2>2, <3>1 DEF WakeCas, TypeOK, Label, objectVars
      <3>2. CASE ~CasFromParked(w[1])
        BY ZenonT(30), <1>5, <2>1, <3>2 DEF WakeCas, TypeOK, Label, objectVars
      <3> QED BY <3>1, <3>2
    <2>4. ThreadShape'
      BY <1>5, <2>1, <2>2, WaitableTypes DEF WakeCas, TypeOK, ThreadShape, Shape
    <2> QED BY <2>3, <2>4
  <1>6. ASSUME NEW t \in Thread, Push(t) PROVE TypeOK' /\ ThreadShape'
    <2>1. won[t] \in Fiber
      BY <1>6 DEF Push, TypeOK, ThreadShape, Shape
    <2>2. rq' \in Seq(Fiber)
      BY <1>6, <2>1 DEF Push, RqPush, TypeOK
    <2>3. cur' \in [Fiber -> Cur] /\ park' \in [Fiber -> Waiter \cup {Nil}]
      <3>1. CASE src[t] = Nil
        BY <1>6, <3>1 DEF Push, TypeOK
      <3>2. CASE src[t] # Nil
        <4>1. Pure(src[t]) \in Cur
          BY CurTypes DEF TypeOK
        <4>2. /\ cur' = [cur EXCEPT ![won[t]] = Pure(src[t])]
              /\ park' = [park EXCEPT ![won[t]] = Nil]
          BY <1>6, <3>2 DEF Push
        <4> QED BY <2>1, <4>1, <4>2 DEF TypeOK
      <3> QED BY <3>1, <3>2
    <2>4. pc' \in [Thread -> Label]
      BY <1>6 DEF Push, TypeOK, Label
    <2>5. TypeOK'
      BY <1>6, <2>1, <2>2, <2>3, <2>4 DEF Push, TypeOK
    <2>6. ThreadShape'
      BY <1>6, <2>1 DEF Push, TypeOK, ThreadShape, Shape
    <2> QED BY <2>5, <2>6
  <1>7. ASSUME NEW t \in Thread, Check(t) PROVE TypeOK' /\ ThreadShape'
    <2>1. fib[t] \in Fiber
      BY <1>7 DEF Check, ThreadShape, Shape
    <2>2. TypeOK'
      BY <1>7, <2>1 DEF TypeOK, Label, Check, fiberVars, objectVars, threadVars
    <2>3. ThreadShape'
      BY <1>7, <2>1 DEF TypeOK, ThreadShape, Shape, Check, fiberVars, objectVars, threadVars
    <2> QED BY <2>2, <2>3
  <1>8. ASSUME NEW t \in Thread, BornInterrupted(t) PROVE TypeOK' /\ ThreadShape'
    <2>1. fib[t] \in Fiber /\ won[t] \in Fiber
      BY <1>8 DEF BornInterrupted, TypeOK, ThreadShape, Shape
    <2>2. TypeOK'
      BY <1>8, <2>1 DEF BornInterrupted, TypeOK, Label, objectVars
    <2>3. ThreadShape'
      BY <1>8, <2>1 DEF BornInterrupted, TypeOK, ThreadShape, Shape
    <2> QED BY <2>2, <2>3
  <1>9. ASSUME NEW t \in Thread, InterruptKid(t) PROVE TypeOK' /\ ThreadShape'
    <2>1. PICK k \in kids[t] : InterruptKid(t)!2!(k)
      BY <1>9 DEF InterruptKid
    <2>2. PICK next \in {"claim", "kids"} : WakeAll(t, {<<k, 0>>}, Nil, next)
      BY <2>1 DEF RequestInterrupt
    <2>3. k \in Fiber /\ {<<k, 0>>} \in SUBSET Node /\ {<<k, 0>>} # {} /\ next \in Label
      BY <2>1, <2>2, NodeTypes DEF TypeOK, Label
    <2>4. fib[t] \in Fiber
      BY <1>9 DEF InterruptKid, ThreadShape, Shape
    <2>5. TypeOK'
      BY <1>9, <2>1, <2>2, <2>3, WakeAllType
      DEF InterruptKid, RequestInterrupt, TypeOK, objectVars
    <2>6. ThreadShape'
      <3>1. won' = won /\ fib' = fib /\ pc[t] = "kids"
        BY <1>9 DEF InterruptKid
      <3> QED BY <2>2, <2>3, <2>4, <3>1, WakeAllShape
    <2> QED BY <2>5, <2>6
  <1>10. ASSUME NEW t \in Thread, Detach(t) PROVE TypeOK' /\ ThreadShape'
    <2>1. fib[t] \in Fiber
      BY <1>10 DEF Detach, ThreadShape, Shape
    <2> DEFINE s == att[fib[t]]
    <2>2. CASE LastChild(fib[t])
      <3>1. waiters[s] \in SUBSET Node /\ s \in Waitable /\ "idle" \in Label
        BY <2>1, <2>2, WaitableTypes DEF TypeOK, Label, LastChild
      <3>2. WakeAll(t, waiters[s], s, "idle")
        BY <1>10, <2>2 DEF Detach
      <3>3. TypeOK'
        BY <1>10, <2>1, <2>2, <3>1, <3>2, WakeAllType DEF Detach, TypeOK
      <3>4. ThreadShape'
        BY <1>10, <2>1, <3>1, <3>2, WakeAllShape DEF Detach, TypeOK
      <3> QED BY <3>3, <3>4
    <2>3. CASE ~LastChild(fib[t])
      <3>1. TypeOK'
        BY <1>10, <2>1, <2>3 DEF Detach, TypeOK, Label
      <3>2. ThreadShape'
        BY <1>10, <2>1, <2>3 DEF Detach, TypeOK, ThreadShape, Shape
      <3> QED BY <3>1, <3>2
    <2> QED BY <2>2, <2>3
  <1>11. ASSUME NEW t \in Thread, Cede(t) PROVE TypeOK' /\ ThreadShape'
    <2>1. fib[t] \in Fiber
      BY <1>11 DEF Cede, Executes, ThreadShape, Shape
    <2>2. TypeOK'
      <3>1. cur' \in [Fiber -> Cur]
        BY <1>11, <2>1, CurTypes DEF Cede, TypeOK
      <3>2. ops' \in 0..MaxOps
        BY <1>11, FibersAssumption DEF Cede, Executes, TypeOK
      <3>3. rq' \in Seq(Fiber)
        BY <1>11, <2>1 DEF Cede, RqPush, TypeOK
      <3> QED BY <1>11, <2>1, <3>1, <3>2, <3>3 DEF Cede, TypeOK, Label
    <2>3. ThreadShape'
      BY <1>11, <2>1 DEF TypeOK, ThreadShape, Shape, Cede, Executes, fiberVars, objectVars, threadVars
    <2> QED BY <2>2, <2>3
  <1>12. ASSUME NEW t \in Thread, EnterMask(t) PROVE TypeOK' /\ ThreadShape'
    <2>1. fib[t] \in Fiber
      BY <1>12 DEF EnterMask, Continues, ThreadShape, Shape
    <2>2. TypeOK'
      <3>1. cur' \in [Fiber -> Cur]
        BY <1>12, <2>1, CurTypes DEF EnterMask, Continues, TypeOK
      <3>2. ops' \in 0..MaxOps
        BY <1>12, FibersAssumption DEF EnterMask, TypeOK
      <3> QED
        BY <1>12, <2>1, <3>1, <3>2 DEF EnterMask, Continues, TypeOK, objectVars, threadVars
    <2>3. ThreadShape'
      BY <1>12, <2>1 DEF TypeOK, ThreadShape, Shape, EnterMask, Continues, fiberVars, objectVars, threadVars
    <2> QED BY <2>2, <2>3
  <1>13. ASSUME NEW t \in Thread, LeaveMask(t) PROVE TypeOK' /\ ThreadShape'
    <2>1. fib[t] \in Fiber
      BY <1>13 DEF LeaveMask, Continues, ThreadShape, Shape
    <2>2. TypeOK'
      BY <1>13, <2>1, CurTypes DEF TypeOK, Label, LeaveMask, Continues, fiberVars, objectVars, threadVars
    <2>3. ThreadShape'
      BY <1>13, <2>1 DEF TypeOK, ThreadShape, Shape, LeaveMask, Continues, fiberVars, objectVars, threadVars
    <2> QED BY <2>2, <2>3
  <1>14. ASSUME NEW t \in Thread, Finish(t) PROVE TypeOK' /\ ThreadShape'
    <2>1. fib[t] \in Fiber /\ fib[t] \in Waitable
      BY <1>14, WaitableTypes DEF Finish, ThreadShape, Shape
    <2>2. waiters[fib[t]] \in SUBSET Node /\ "detach" \in Label
      BY <2>1 DEF TypeOK, Label
    <2>3. WakeAll(t, waiters[fib[t]], fib[t], "detach")
      BY <1>14 DEF Finish
    <2>4. TypeOK'
      BY <1>14, <2>1, <2>2, <2>3, WakeAllType, CurTypes DEF Finish, Continues, TypeOK
    <2>5. ThreadShape'
      BY <1>14, <2>1, <2>2, <2>3, WakeAllShape DEF Finish
    <2> QED BY <2>4, <2>5
  <1>15. ASSUME NEW t \in Thread, NEW o \in Promise \cup Fiber, Await(t, o) PROVE TypeOK' /\ ThreadShape'
    <2>1. fib[t] \in Fiber /\ [op |-> "await", obj |-> o] \in Cur
      BY <1>15, CurTypes, WaitableTypes DEF Await, Executes, ThreadShape, Shape, ParkOps
    <2>2. TypeOK'
      <3>1. ops' \in 0..MaxOps
        BY <1>15, FibersAssumption DEF Await, Executes, TypeOK
      <3> QED BY <1>15, <2>1, <3>1 DEF Await, Enters, TypeOK, Label, objectVars
    <2>3. ThreadShape'
      BY <1>15, <2>1 DEF Await, Executes, TypeOK, ThreadShape, Shape
    <2> QED BY <2>2, <2>3
  <1>16. ASSUME NEW t \in Thread, NEW p \in Promise, Complete(t, p) PROVE TypeOK' /\ ThreadShape'
    <2>1. fib[t] \in Fiber /\ p \in Waitable
      BY <1>16, WaitableTypes DEF Complete, Executes, ThreadShape, Shape
    <2>2. cur' \in [Fiber -> Cur] /\ resumed' \subseteq Fiber /\ ops' \in 0..MaxOps
      BY <1>16, <2>1, CurTypes, FibersAssumption DEF Complete, Executes, Continues, TypeOK
    <2>3. CASE p \in completed
      <3>1. TypeOK'
        BY <1>16, <2>1, <2>2, <2>3 DEF Complete, TypeOK
      <3>2. ThreadShape'
        BY <1>16, <2>1, <2>3 DEF Complete, TypeOK, ThreadShape, Shape
      <3> QED BY <3>1, <3>2
    <2>4. CASE p \notin completed
      <3>1. waiters[p] \in SUBSET Node /\ "run" \in Label
        BY <2>1 DEF TypeOK, Label
      <3>2. WakeAll(t, waiters[p], p, "run")
        BY <1>16, <2>4 DEF Complete
      <3>3. TypeOK'
        BY <1>16, <2>1, <2>2, <2>4, <3>1, <3>2, WakeAllType DEF Complete, TypeOK
      <3>4. ThreadShape'
        BY <1>16, <2>1, <3>1, <3>2, WakeAllShape DEF Complete, Executes
      <3> QED BY <3>3, <3>4
    <2> QED BY <2>3, <2>4
  <1>17. ASSUME NEW t \in Thread, NEW g \in Fiber, InterruptFork(t, g) PROVE TypeOK' /\ ThreadShape'
    <2>1. fib[t] \in Fiber
      BY <1>17 DEF InterruptFork, Executes, ThreadShape, Shape
    <2>2. cur' \in [Fiber -> Cur] /\ resumed' \subseteq Fiber /\ ops' \in 0..MaxOps
      BY <1>17, <2>1, CurTypes, WaitableTypes, FibersAssumption
      DEF InterruptFork, Executes, Continues, TypeOK, ParkOps
    <2>3. {<<g, 0>>} \in SUBSET Node /\ {<<g, 0>>} # {} /\ "run" \in Label
      BY NodeTypes DEF Label
    <2>4. WakeAll(t, {<<g, 0>>}, Nil, "run")
      BY <1>17 DEF InterruptFork, RequestInterrupt
    <2>5. TypeOK'
      BY <1>17, <2>1, <2>2, <2>3, <2>4, WakeAllType
      DEF InterruptFork, RequestInterrupt, TypeOK, objectVars
    <2>6. ThreadShape'
      BY <1>17, <2>1, <2>3, <2>4, WakeAllShape DEF InterruptFork, Executes
    <2> QED BY <2>5, <2>6
  <1>18. ASSUME NEW t \in Thread, NEW g \in Fiber, Interrupt(t, g) PROVE TypeOK' /\ ThreadShape'
    <2>1. fib[t] \in Fiber
      BY <1>18 DEF Interrupt, Executes, ThreadShape, Shape
    <2>2. cur' \in [Fiber -> Cur] /\ resumed' \subseteq Fiber /\ ops' \in 0..MaxOps
      BY <1>18, <2>1, CurTypes, WaitableTypes, FibersAssumption
      DEF Interrupt, Executes, Enters, TypeOK, ParkOps
    <2>3. {<<g, 0>>} \in SUBSET Node /\ {<<g, 0>>} # {} /\ "check" \in Label
      BY NodeTypes DEF Label
    <2>4. WakeAll(t, {<<g, 0>>}, Nil, "check")
      BY <1>18 DEF Interrupt, RequestInterrupt
    <2>5. TypeOK'
      BY <1>18, <2>1, <2>2, <2>3, <2>4, WakeAllType
      DEF Interrupt, RequestInterrupt, TypeOK, objectVars
    <2>6. ThreadShape'
      BY <1>18, <2>1, <2>3, <2>4, WakeAllShape DEF Interrupt, Executes
    <2> QED BY <2>5, <2>6
  <1>19. ASSUME NEW t \in Thread, NEW c \in Fiber, NEW s \in Scope, Fork(t, c, s) PROVE TypeOK' /\ ThreadShape'
    <2>1. fib[t] \in Fiber
      BY <1>19 DEF Fork, Executes, ThreadShape, Shape
    <2>2. cur' \in [Fiber -> Cur] /\ resumed' \subseteq Fiber /\ ops' \in 0..MaxOps
      BY <1>19, <2>1, CurTypes, FibersAssumption DEF Fork, Executes, Continues, TypeOK
    <2>3. pc' \in [Thread -> Label] /\ ret' \in [Thread -> Label]
      BY <1>19 DEF Fork, TypeOK, Label
    <2>4. TypeOK'
      BY <1>19, <2>1, <2>2, <2>3 DEF Fork, TypeOK, objectVars
    <2>5. ThreadShape'
      BY <1>19, <2>1, WaitableTypes DEF Fork, TypeOK, ThreadShape, Shape
    <2> QED BY <2>4, <2>5
  <1>20. ASSUME NEW t \in Thread, NEW s \in Scope, Shutdown(t, s) PROVE TypeOK' /\ ThreadShape'
    <2>1. fib[t] \in Fiber /\ Children(s) \in SUBSET Fiber /\ s \in Waitable
      BY <1>20, WaitableTypes DEF Shutdown, Executes, Children, ThreadShape, Shape
    <2>2. cur' \in [Fiber -> Cur] /\ resumed' \subseteq Fiber /\ ops' \in 0..MaxOps
      <3>1. ops' \in 0..MaxOps
        BY <1>20, FibersAssumption DEF Shutdown, Executes, TypeOK
      <3>2. Pure(Nil) \in Cur /\ [op |-> "shutdown", obj |-> s] \in Cur
        BY <2>1, CurTypes DEF ParkOps
      <3>3. CASE Children(s) = {}
        <4>1. Continues(fib[t])
          BY <1>20, <3>3 DEF Shutdown
        <4> QED BY <2>1, <3>1, <3>2, <4>1 DEF Continues, TypeOK
      <3>4. CASE Children(s) # {}
        <4>1. Enters(fib[t], "shutdown", s)
          BY <1>20, <3>4 DEF Shutdown
        <4> QED BY <2>1, <3>1, <3>2, <4>1 DEF Enters, TypeOK
      <3> QED BY <3>3, <3>4
    <2>3. CASE Children(s) = {}
      <3>1. TypeOK'
        BY <1>20, <2>1, <2>2, <2>3 DEF Shutdown, TypeOK
      <3>2. ThreadShape'
        BY <1>20, <2>1, <2>3 DEF Shutdown, TypeOK, ThreadShape, Shape
      <3> QED BY <3>1, <3>2
    <2>4. CASE Children(s) # {}
      <3>1. ParkOn(t, fib[t], s)
        BY <1>20, <2>4 DEF Shutdown
      <3>2. TypeOK'
        BY <1>20, <2>1, <2>2, <2>4, <3>1, ParkType DEF Shutdown, TypeOK, Label
      <3>3. ThreadShape'
        BY <1>20, <2>1, <2>4 DEF Shutdown, Executes, TypeOK, ThreadShape, Shape
      <3> QED BY <3>2, <3>3
    <2> QED BY <2>3, <2>4
  <1>21. CASE UNCHANGED vars
    BY <1>21 DEF vars, fiberVars, objectVars, threadVars, TypeOK, ThreadShape, Shape
  <1> QED
    BY <1>1, <1>2, <1>3, <1>4, <1>5, <1>6, <1>7, <1>8, <1>9, <1>10, <1>11, <1>12, <1>13,
       <1>14, <1>15, <1>16, <1>17, <1>18, <1>19, <1>20, <1>21
    DEF Next, Runtime, Program

(* Every behaviour of the scheduler is well typed, and each worker's       *)
(* locals fit the place it is at.                                          *)
THEOREM TypeCorrect == Spec => [](TypeOK /\ ThreadShape)
  <1>1. Init => TypeOK /\ ThreadShape
    BY TypeInit
  <1>2. TypeOK /\ ThreadShape /\ [Next]_vars => TypeOK' /\ ThreadShape'
    BY TypeNext
  <1> QED BY <1>1, <1>2, PTL DEF Spec

----------------------------------------------------------------------------
(* Ownership.  The three parts of SingleOwner and NoOrphan are inductive   *)
(* together, given the types and the shape of the workers' locals.         *)
Owned == SingleOwner /\ NoOrphan

(* At the start the run queue holds the root fibers, once each.            *)
LEMMA OwnedInit == Init => Owned
  <1> SUFFICES ASSUME Init PROVE Owned
    OBVIOUS
  <1>1. Cardinality(Roots) \in Nat /\ Roots \subseteq Fiber
    BY FS_CardinalityType, FibersAssumption
  <1> DEFINE n == Cardinality(Roots)
  <1>2. /\ rq \in [1..n -> Roots] /\ Len(rq) = n
        /\ \A i, j \in 1..n : rq[i] = rq[j] => i = j
    BY <1>1 DEF Init
  <1>3. QueueOwns
    BY <1>1, <1>2 DEF QueueOwns, Init
  <1>4. WakerOwns /\ WorkerOwns
    BY DEF WakerOwns, WorkerOwns, Stepping, Init
  <1>5. \A f \in Roots : \E i \in 1..n : rq[i] = f
    <2>1. IsFiniteSet(Roots)
      BY FibersAssumption
    <2>2. IsFiniteSet(1..n) /\ Cardinality(1..n) = n
      BY <1>1, FS_Interval
    <2>3. rq \in Injection(1..n, Roots)
      BY <1>2 DEF Injection, IsInjective
    <2>4. rq \in Surjection(1..n, Roots)
      BY <2>1, <2>2, <2>3, FS_Injection
    <2> QED BY <2>4 DEF Surjection
  <1>6. NoOrphan
    BY <1>2, <1>5 DEF NoOrphan, Init
  <1> QED BY <1>3, <1>4, <1>6 DEF Owned, SingleOwner

(* Who steps whom does not change for the other threads, and a thread that *)
(* starts a wake loop still steps its fiber iff it will go on with it.     *)
SameSteps(u) == (Stepping(u)' <=> Stepping(u)) /\ (Stepping(u) => fib'[u] = fib[u])

(* Taking a list of waiters does not change who is executing a fiber.      *)
LEMMA WakeAllStepping ==
  ASSUME TypeOK, NEW t \in Thread, NEW list, NEW o,
         NEW next \in {"run", "check", "claim", "kids", "detach", "idle"},
         WakeAll(t, list, o, next), \A u \in Thread \ {t} : fib'[u] = fib[u]
  PROVE  /\ Stepping(t)' <=> next \in {"run", "check"}
         /\ \A u \in Thread \ {t} : SameSteps(u)
  <1>1. /\ pc'[t] = (IF list = {} THEN next ELSE "wake") /\ ret'[t] = next
        /\ \A u \in Thread \ {t} : pc'[u] = pc[u] /\ ret'[u] = ret[u]
    BY DEF WakeAll, TypeOK
  <1>2. Stepping(t)' <=> next \in {"run", "check"}
    BY <1>1 DEF Stepping
  <1>3. \A u \in Thread \ {t} : SameSteps(u)
    BY <1>1 DEF Stepping, SameSteps
  <1> QED BY <1>2, <1>3

(* A step that moves no fiber keeps Owned.                                 *)
LEMMA OwnedFrame ==
  ASSUME Owned, status' = status, rq' = rq, won' = won, \A u \in Thread : SameSteps(u)
  PROVE  Owned'
  <1>1. QueueOwns' /\ WakerOwns'
    BY DEF Owned, SingleOwner, QueueOwns, WakerOwns
  <1>2. WorkerOwns'
    BY DEF Owned, SingleOwner, WorkerOwns, SameSteps
  <1>3. NoOrphan'
    BY DEF Owned, NoOrphan, SameSteps
  <1> QED BY <1>1, <1>2, <1>3 DEF Owned, SingleOwner

(* A worker that parks or finishes its fiber and lets go of it keeps       *)
(* Owned.                                                                  *)
LEMMA OwnedRelease ==
  ASSUME TypeOK, Owned, NEW t \in Thread, NEW x \in {"Parked", "Done"}, fib[t] \in Fiber,
         status' = [status EXCEPT ![fib[t]] = x], rq' = rq, won' = won,
         Stepping(t), ~Stepping(t)', \A u \in Thread \ {t} : SameSteps(u)
  PROVE  Owned'
  <1> DEFINE f == fib[t]
  <1>1. status[f] = "Running" /\ \A u \in Thread \ {t} : Stepping(u) => fib[u] # f
    BY DEF Owned, SingleOwner, WorkerOwns
  <1>2. status'[f] = x /\ \A g \in Fiber \ {f} : status'[g] = status[g]
    BY DEF TypeOK
  <1>3. \A i \in 1..Len(rq) : rq[i] \in Fiber
    BY DEF TypeOK
  <1>4. QueueOwns'
    BY <1>1, <1>2, <1>3 DEF Owned, SingleOwner, QueueOwns
  <1>5. \A u \in Thread : won[u] \in Fiber \cup {Nil}
    BY DEF TypeOK
  <1>6. WakerOwns'
    BY <1>1, <1>2, <1>5 DEF Owned, SingleOwner, WakerOwns
  <1>7. WorkerOwns'
    <2> SUFFICES ASSUME NEW u \in Thread, Stepping(u)'
                 PROVE  /\ status'[fib'[u]] = "Running"
                        /\ \A v \in Thread : Stepping(v)' /\ fib'[v] = fib'[u] => v = u
      BY DEF WorkerOwns
    <2>1. u # t /\ Stepping(u) /\ fib'[u] = fib[u]
      BY DEF SameSteps
    <2>2. fib[u] # f /\ status[fib[u]] = "Running"
      BY <1>1, <2>1 DEF Owned, SingleOwner, WorkerOwns
    <2>3. status'[fib[u]] = status[fib[u]]
      BY <2>2, <1>2 DEF TypeOK
    <2>4. ASSUME NEW v \in Thread, Stepping(v)', fib'[v] = fib'[u] PROVE v = u
      BY <2>1, <2>4 DEF SameSteps, Owned, SingleOwner, WorkerOwns
    <2> QED BY <2>1, <2>2, <2>3, <2>4
  <1>8. NoOrphan'
    <2> SUFFICES ASSUME NEW g \in Fiber
                 PROVE  /\ status'[g] = "Runnable" =>
                             (\E i \in 1..Len(rq') : rq'[i] = g) \/ (\E u \in Thread : won'[u] = g)
                        /\ status'[g] = "Running" => \E u \in Thread : Stepping(u)' /\ fib'[u] = g
      BY DEF NoOrphan
    <2>1. CASE g = f
      BY <1>2, <2>1
    <2>2. CASE g # f
      BY <1>2, <2>2 DEF Owned, NoOrphan, SameSteps
    <2> QED BY <2>1, <2>2
  <1> QED BY <1>4, <1>6, <1>7, <1>8 DEF Owned, SingleOwner

(* The executed fiber is a fiber.                                          *)
LEMMA SteppedIsFiber ==
  ASSUME TypeOK, ThreadShape, NEW t \in Thread, Stepping(t)
  PROVE  fib[t] \in Fiber
  BY DEF ThreadShape, Shape, Stepping, TypeOK

(* The fiber a worker pops becomes its own.                                *)
LEMMA OwnedPop ==
  ASSUME TypeOK, ThreadShape, Owned, NEW t \in Thread, Pop(t)
  PROVE  Owned'
  <1> DEFINE f == Head(rq)
  <1>1. /\ rq \in Seq(Fiber) /\ rq # <<>> /\ f = rq[1] /\ f \in Fiber
        /\ Len(rq') = Len(rq) - 1 /\ Len(rq) \in Nat /\ Len(rq) > 0
        /\ \A i \in 1..Len(rq') : rq'[i] = rq[i + 1]
    BY DEF Pop, TypeOK
  <1>2. status'[f] = "Running" /\ \A g \in Fiber \ {f} : status'[g] = status[g]
    BY <1>1 DEF Pop, TypeOK
  <1>3. status[f] = "Runnable" /\ won' = won /\ \A u \in Thread : won[u] # f \/ won[u] = Nil
    BY <1>1 DEF Owned, SingleOwner, QueueOwns, WakerOwns, Pop
  <1>4. /\ ~Stepping(t) /\ Stepping(t)' /\ fib'[t] = f
        /\ \A u \in Thread \ {t} : SameSteps(u)
    BY DEF Pop, TypeOK, Stepping, SameSteps
  <1>5. QueueOwns'
    <2>1. \A i \in 1..Len(rq') : rq'[i] \in Fiber /\ rq'[i] # f
      BY <1>1 DEF Owned, SingleOwner, QueueOwns
    <2>2. \A i \in 1..Len(rq') : status'[rq'[i]] = "Runnable"
      BY <1>1, <1>2, <2>1 DEF Owned, SingleOwner, QueueOwns
    <2>3. \A i, j \in 1..Len(rq') : rq'[i] = rq'[j] => i = j
      BY <1>1 DEF Owned, SingleOwner, QueueOwns
    <2> QED BY <2>2, <2>3 DEF QueueOwns
  <1>6. WakerOwns'
    <2> SUFFICES ASSUME NEW u \in Thread, won[u] # Nil
                 PROVE  /\ status'[won[u]] = "Runnable"
                        /\ \A i \in 1..Len(rq') : rq'[i] # won[u]
                        /\ \A v \in Thread : won[v] = won[u] => v = u
      BY <1>3 DEF WakerOwns
    <2>1. won[u] \in Fiber \ {f}
      BY <1>3 DEF TypeOK
    <2>2. status'[won[u]] = "Runnable"
      BY <1>2, <2>1 DEF Owned, SingleOwner, WakerOwns
    <2>3. \A i \in 1..Len(rq') : rq'[i] # won[u]
      BY <1>1 DEF Owned, SingleOwner, WakerOwns
    <2> QED BY <2>2, <2>3 DEF Owned, SingleOwner, WakerOwns
  <1>7. \A u \in Thread : Stepping(u) => fib[u] \in Fiber \ {f}
    <2>1. \A u \in Thread : Stepping(u) => status[fib[u]] = "Running"
      BY DEF Owned, SingleOwner, WorkerOwns
    <2>2. \A u \in Thread : Stepping(u) => fib[u] \in Fiber
      BY SteppedIsFiber
    <2> QED BY <1>3, <2>1, <2>2
  <1>8. WorkerOwns'
    BY <1>2, <1>4, <1>7 DEF Owned, SingleOwner, WorkerOwns, SameSteps
  <1>9. NoOrphan'
    <2> SUFFICES ASSUME NEW g \in Fiber \ {f}
                 PROVE  /\ status[g] = "Runnable" =>
                             (\E i \in 1..Len(rq') : rq'[i] = g) \/ (\E u \in Thread : won[u] = g)
                        /\ status[g] = "Running" => \E u \in Thread : Stepping(u)' /\ fib'[u] = g
      BY <1>1, <1>2, <1>3, <1>4 DEF NoOrphan
    <2>1. ASSUME NEW i \in 1..Len(rq), rq[i] = g PROVE \E j \in 1..Len(rq') : rq'[j] = g
      <3>1. i # 1 /\ i - 1 \in 1..Len(rq')
        BY <1>1, <2>1
      <3>2. rq'[i - 1] = g
        BY <1>1, <2>1, <3>1
      <3> QED BY <3>1, <3>2
    <2>2. status[g] = "Runnable" =>
            (\E i \in 1..Len(rq') : rq'[i] = g) \/ (\E u \in Thread : won[u] = g)
      BY <2>1 DEF Owned, NoOrphan
    <2>3. status[g] = "Running" => \E u \in Thread : Stepping(u)' /\ fib'[u] = g
      BY <1>4 DEF Owned, NoOrphan, SameSteps
    <2> QED BY <2>2, <2>3
  <1> QED BY <1>5, <1>6, <1>8, <1>9 DEF Owned, SingleOwner

(* A fiber nobody owns that one thread takes to run it (a claim).          *)
LEMMA OwnedClaim ==
  ASSUME TypeOK, ThreadShape, Owned, NEW t \in Thread, NEW f \in Fiber, status[f] = "Parked",
         status' = [status EXCEPT ![f] = "Running"], rq' = rq, won' = won,
         ~Stepping(t), Stepping(t)', fib'[t] = f, \A u \in Thread \ {t} : SameSteps(u)
  PROVE  Owned'
  <1>2. status'[f] = "Running" /\ \A g \in Fiber \ {f} : status'[g] = status[g]
    BY DEF TypeOK
  <1>3. \A i \in 1..Len(rq) : rq[i] \in Fiber
    BY DEF TypeOK
  <1>4. \A u \in Thread : won[u] \in Fiber \cup {Nil}
    BY DEF TypeOK
  <1>5. QueueOwns'
    BY <1>2, <1>3 DEF Owned, SingleOwner, QueueOwns
  <1>6. WakerOwns'
    BY <1>2, <1>4 DEF Owned, SingleOwner, WakerOwns
  <1>7. \A u \in Thread : Stepping(u) => fib[u] \in Fiber \ {f}
    BY SteppedIsFiber DEF Owned, SingleOwner, WorkerOwns
  <1>8. WorkerOwns'
    BY <1>2, <1>7 DEF Owned, SingleOwner, WorkerOwns, SameSteps
  <1>9. NoOrphan'
    BY <1>2 DEF Owned, NoOrphan, SameSteps
  <1> QED BY <1>5, <1>6, <1>8, <1>9 DEF Owned, SingleOwner

(* A fiber nobody owns that a waker or a spawner is about to queue.        *)
LEMMA OwnedWin ==
  ASSUME TypeOK, ThreadShape, Owned, NEW t \in Thread, NEW f \in Fiber,
         status[f] \in {"Parked", "Unborn"}, won[t] = Nil,
         status' = [status EXCEPT ![f] = "Runnable"], rq' = rq,
         won' = [won EXCEPT ![t] = f], \A u \in Thread : SameSteps(u)
  PROVE  Owned'
  <1>1. Nil \notin Fiber
    BY FibersAssumption
  <1>2. status'[f] = "Runnable" /\ \A g \in Fiber \ {f} : status'[g] = status[g]
    BY DEF TypeOK
  <1>3. \A i \in 1..Len(rq) : rq[i] \in Fiber \ {f}
    BY DEF TypeOK, Owned, SingleOwner, QueueOwns
  <1>4. /\ won'[t] = f
        /\ \A u \in Thread \ {t} : won'[u] = won[u] /\ won[u] \in (Fiber \cup {Nil}) \ {f}
    BY <1>1 DEF TypeOK, Owned, SingleOwner, WakerOwns
  <1>5. QueueOwns'
    BY <1>2, <1>3 DEF Owned, SingleOwner, QueueOwns
  <1>6. WakerOwns'
    BY <1>1, <1>2, <1>3, <1>4 DEF Owned, SingleOwner, WakerOwns
  <1>7. \A u \in Thread : Stepping(u) => fib[u] \in Fiber \ {f}
    BY SteppedIsFiber DEF Owned, SingleOwner, WorkerOwns
  <1>8. WorkerOwns'
    BY <1>2, <1>7 DEF Owned, SingleOwner, WorkerOwns, SameSteps
  <1>9. NoOrphan'
    <2> SUFFICES ASSUME NEW g \in Fiber \ {f}
                 PROVE  /\ status[g] = "Runnable" =>
                             (\E i \in 1..Len(rq) : rq[i] = g) \/ (\E u \in Thread : won'[u] = g)
                        /\ status[g] = "Running" => \E u \in Thread : Stepping(u)' /\ fib'[u] = g
      BY <1>2, <1>4 DEF NoOrphan
    <2>1. \A u \in Thread : won[u] = g => won'[u] = g
      BY <1>1, <1>4
    <2> QED BY <2>1 DEF Owned, NoOrphan, SameSteps
  <1> QED BY <1>5, <1>6, <1>8, <1>9 DEF Owned, SingleOwner

(* The waker queues the fiber it won.                                      *)
LEMMA OwnedPush ==
  ASSUME TypeOK, ThreadShape, Owned, NEW t \in Thread, won[t] \in Fiber, status' = status,
         RqPush(won[t]), won' = [won EXCEPT ![t] = Nil], \A u \in Thread : SameSteps(u)
  PROVE  Owned'
  <1> DEFINE f == won[t]
  <1>1. Nil \notin Fiber
    BY FibersAssumption
  <1>2. /\ rq \in Seq(Fiber) /\ Len(rq') = Len(rq) + 1 /\ rq'[Len(rq) + 1] = f
        /\ Len(rq) \in Nat /\ \A i \in 1..Len(rq) : rq'[i] = rq[i] /\ rq[i] \in Fiber
    BY DEF TypeOK, RqPush
  <1>3. /\ status[f] = "Runnable" /\ \A i \in 1..Len(rq) : rq[i] # f
        /\ \A u \in Thread \ {t} : won[u] # f
    BY <1>1 DEF Owned, SingleOwner, WakerOwns
  <1>4. won'[t] = Nil /\ \A u \in Thread \ {t} : won'[u] = won[u]
    BY DEF TypeOK
  <1>5. QueueOwns'
    BY <1>2, <1>3 DEF Owned, SingleOwner, QueueOwns
  <1>6. WakerOwns'
    BY <1>2, <1>3, <1>4 DEF Owned, SingleOwner, WakerOwns
  <1>7. WorkerOwns'
    BY DEF Owned, SingleOwner, WorkerOwns, SameSteps
  <1>8. NoOrphan'
    <2> SUFFICES ASSUME NEW g \in Fiber
                 PROVE  /\ status[g] = "Runnable" =>
                             (\E i \in 1..Len(rq') : rq'[i] = g) \/ (\E u \in Thread : won'[u] = g)
                        /\ status[g] = "Running" => \E u \in Thread : Stepping(u)' /\ fib'[u] = g
      BY DEF NoOrphan
    <2>1. CASE g = f
      BY <1>2, <1>3, <2>1
    <2>2. CASE g # f
      <3>1. (\E i \in 1..Len(rq) : rq[i] = g) => \E i \in 1..Len(rq') : rq'[i] = g
        BY <1>2
      <3>2. (\E u \in Thread : won[u] = g) => \E u \in Thread : won'[u] = g
        BY <1>4, <2>2
      <3> QED BY <3>1, <3>2 DEF Owned, NoOrphan, SameSteps
    <2> QED BY <2>1, <2>2
  <1> QED BY <1>5, <1>6, <1>7, <1>8 DEF Owned, SingleOwner

(* A worker queues the fiber it executes and lets go of it.                *)
LEMMA OwnedCede ==
  ASSUME TypeOK, ThreadShape, Owned, NEW t \in Thread, Cede(t)
  PROVE  Owned'
  <1> DEFINE f == fib[t]
  <1>1. /\ Stepping(t) /\ ~Stepping(t)' /\ f \in Fiber /\ won' = won
        /\ \A u \in Thread \ {t} : SameSteps(u)
    BY DEF Cede, Executes, Stepping, SameSteps, TypeOK, ThreadShape, Shape
  <1>2. /\ rq \in Seq(Fiber) /\ Len(rq') = Len(rq) + 1 /\ rq'[Len(rq) + 1] = f
        /\ Len(rq) \in Nat /\ \A i \in 1..Len(rq) : rq'[i] = rq[i] /\ rq[i] \in Fiber
    BY <1>1 DEF Cede, RqPush, TypeOK
  <1>3. status'[f] = "Runnable" /\ \A g \in Fiber \ {f} : status'[g] = status[g]
    BY <1>1 DEF Cede, TypeOK
  <1>4. /\ status[f] = "Running" /\ \A i \in 1..Len(rq) : rq[i] # f
        /\ \A u \in Thread \ {t} : Stepping(u) => fib[u] \in Fiber \ {f}
    BY <1>1, SteppedIsFiber DEF Owned, SingleOwner, QueueOwns, WorkerOwns
  <1>5. \A u \in Thread : won[u] # Nil => won[u] \in Fiber \ {f}
    BY <1>4 DEF TypeOK, Owned, SingleOwner, WakerOwns
  <1>6. QueueOwns'
    BY <1>2, <1>3, <1>4 DEF Owned, SingleOwner, QueueOwns
  <1>7. WakerOwns'
    BY <1>1, <1>2, <1>3, <1>5 DEF Owned, SingleOwner, WakerOwns
  <1>8. WorkerOwns'
    BY <1>1, <1>3, <1>4 DEF Owned, SingleOwner, WorkerOwns, SameSteps
  <1>9. NoOrphan'
    <2> SUFFICES ASSUME NEW g \in Fiber
                 PROVE  /\ status'[g] = "Runnable" =>
                             (\E i \in 1..Len(rq') : rq'[i] = g) \/ (\E u \in Thread : won[u] = g)
                        /\ status'[g] = "Running" => \E u \in Thread : Stepping(u)' /\ fib'[u] = g
      BY <1>1 DEF NoOrphan
    <2>1. CASE g = f
      BY <1>2, <1>3, <2>1
    <2>2. CASE g # f
      <3>1. (\E i \in 1..Len(rq) : rq[i] = g) => \E i \in 1..Len(rq') : rq'[i] = g
        BY <1>2
      <3> QED BY <1>1, <1>3, <2>2, <3>1 DEF Owned, NoOrphan, SameSteps
    <2> QED BY <2>1, <2>2
  <1> QED BY <1>6, <1>7, <1>8, <1>9 DEF Owned, SingleOwner

(* Owned is preserved by every step.                                       *)
LEMMA OwnedNext ==
  ASSUME TypeOK, ThreadShape, Owned, [Next]_vars
  PROVE  Owned'
  <1>1. ASSUME NEW t \in Thread, Pop(t) PROVE Owned'
    BY <1>1, OwnedPop
  <1>2. ASSUME NEW t \in Thread, Deliver(t) PROVE Owned'
    BY <1>2, OwnedFrame DEF Deliver, SameSteps, Stepping, TypeOK
  <1>3. ASSUME NEW t \in Thread, Park(t) PROVE Owned'
    <2>1. Stepping(t) /\ fib[t] \in Fiber
      BY <1>3 DEF Park, Stepping, ThreadShape, Shape
    <2>2. CASE FoundResolved(t)
      BY <1>3, <2>2, OwnedFrame DEF Park, SameSteps, Stepping, TypeOK
    <2>3. CASE ~FoundResolved(t)
      <3>1. ~Stepping(t)' /\ \A u \in Thread \ {t} : SameSteps(u)
        BY <1>3, <2>3 DEF Park, SameSteps, Stepping, TypeOK
      <3>2. status' = [status EXCEPT ![fib[t]] = "Parked"] /\ rq' = rq /\ won' = won
        BY <1>3, <2>3 DEF Park, ParkOn
      <3> QED BY <2>1, <3>1, <3>2, OwnedRelease
    <2> QED BY <2>2, <2>3
  <1>4. ASSUME NEW t \in Thread, Claim(t) PROVE Owned'
    <2>1. fib[t] \in Fiber /\ ~Stepping(t)
      BY <1>4 DEF Claim, Stepping, ThreadShape, Shape
    <2>2. CASE ClaimsPending(t)
      <3>1. Stepping(t)' /\ fib' = fib /\ \A u \in Thread \ {t} : SameSteps(u)
        BY <1>4, <2>2 DEF Claim, SameSteps, Stepping, TypeOK
      <3>2. status' = [status EXCEPT ![fib[t]] = "Running"] /\ rq' = rq /\ won' = won
        BY <1>4, <2>2 DEF Claim
      <3>3. status[fib[t]] = "Parked"
        BY <2>2 DEF ClaimsPending, CasFromParked
      <3> QED BY <2>1, <3>1, <3>2, <3>3, OwnedClaim
    <2>3. CASE ~ClaimsPending(t)
      BY <1>4, <2>3, OwnedFrame DEF Claim, SameSteps, Stepping, TypeOK
    <2> QED BY <2>2, <2>3
  <1>5. ASSUME NEW t \in Thread, WakeCas(t) PROVE Owned'
    <2>1. PICK w \in todo[t] : WakeCas(t)!2!(w)
      BY <1>5 DEF WakeCas
    <2>2. w[1] \in Fiber
      BY <2>1, NodeTypes DEF TypeOK
    <2>3. Shape(t) /\ ret' = ret /\ fib' = fib /\ rq' = rq /\ pc[t] = "wake"
      BY <1>5 DEF ThreadShape, WakeCas, objectVars
    <2>4. CASE CasFromParked(w[1])
      <3>1. \A u \in Thread : SameSteps(u)
        BY <2>1, <2>3, <2>4 DEF SameSteps, Stepping, TypeOK
      <3>2. won[t] = Nil
        BY <2>3 DEF Shape
      <3>3. /\ status' = [status EXCEPT ![w[1]] = "Runnable"]
            /\ won' = [won EXCEPT ![t] = w[1]] /\ status[w[1]] = "Parked"
        BY <2>1, <2>4 DEF CasFromParked
      <3> QED BY <2>2, <2>3, <3>1, <3>2, <3>3, OwnedWin
    <2>5. CASE ~CasFromParked(w[1])
      <3>1. \A u \in Thread : SameSteps(u)
        BY <2>1, <2>3, <2>5 DEF SameSteps, Stepping, TypeOK, Shape
      <3> QED BY <2>1, <2>3, <2>5, <3>1, OwnedFrame
    <2> QED BY <2>4, <2>5
  <1>6. ASSUME NEW t \in Thread, Push(t) PROVE Owned'
    <2>1. Shape(t) /\ won[t] \in Fiber
      BY <1>6 DEF Push, TypeOK, ThreadShape, Shape
    <2>2. \A u \in Thread : SameSteps(u)
      BY <1>6, <2>1 DEF Push, SameSteps, Stepping, TypeOK, Shape
    <2> QED BY <1>6, <2>1, <2>2, OwnedPush DEF Push
  <1>7. ASSUME NEW t \in Thread, Check(t) PROVE Owned'
    BY <1>7, OwnedFrame DEF Check, SameSteps, Stepping, TypeOK, fiberVars, objectVars
  <1>8. ASSUME NEW t \in Thread, BornInterrupted(t) PROVE Owned'
    BY <1>8, OwnedFrame
    DEF BornInterrupted, SameSteps, Stepping, TypeOK, ThreadShape, Shape, objectVars
  <1>9. ASSUME NEW t \in Thread, InterruptKid(t) PROVE Owned'
    <2>1. PICK k \in kids[t], next \in {"claim", "kids"} : WakeAll(t, {<<k, 0>>}, Nil, next)
      BY <1>9 DEF InterruptKid, RequestInterrupt
    <2>2. ~Stepping(t) /\ fib' = fib /\ status' = status /\ rq' = rq /\ won' = won
      BY <1>9 DEF InterruptKid, Stepping, objectVars
    <2>3. \A u \in Thread : SameSteps(u)
      BY <2>1, <2>2, WakeAllStepping DEF SameSteps
    <2> QED BY <2>2, <2>3, OwnedFrame
  <1>10. ASSUME NEW t \in Thread, Detach(t) PROVE Owned'
    <2>1. /\ ~Stepping(t) /\ status' = status /\ rq' = rq /\ won' = won
          /\ \A u \in Thread \ {t} : fib'[u] = fib[u]
      BY <1>10 DEF Detach, Stepping, TypeOK
    <2>2. CASE LastChild(fib[t])
      <3>1. WakeAll(t, waiters[att[fib[t]]], att[fib[t]], "idle")
        BY <1>10, <2>2 DEF Detach
      <3>2. \A u \in Thread : SameSteps(u)
        BY <2>1, <3>1, WakeAllStepping DEF SameSteps
      <3> QED BY <2>1, <3>2, OwnedFrame
    <2>3. CASE ~LastChild(fib[t])
      BY <1>10, <2>1, <2>3, OwnedFrame DEF Detach, SameSteps, Stepping, TypeOK
    <2> QED BY <2>2, <2>3
  <1>11. ASSUME NEW t \in Thread, Cede(t) PROVE Owned'
    BY <1>11, OwnedCede
  <1>12. ASSUME NEW t \in Thread, EnterMask(t) PROVE Owned'
    BY <1>12, OwnedFrame DEF EnterMask, SameSteps, Stepping, threadVars, objectVars
  <1>13. ASSUME NEW t \in Thread, LeaveMask(t) PROVE Owned'
    BY <1>13, OwnedFrame DEF LeaveMask, SameSteps, Stepping, threadVars, objectVars
  <1>14. ASSUME NEW t \in Thread, Finish(t) PROVE Owned'
    <2>1. Stepping(t) /\ fib[t] \in Fiber
      BY <1>14 DEF Finish, Stepping, ThreadShape, Shape
    <2>2. WakeAll(t, waiters[fib[t]], fib[t], "detach") /\ fib' = fib
      BY <1>14 DEF Finish
    <2>3. ~Stepping(t)' /\ \A u \in Thread \ {t} : SameSteps(u)
      BY <2>2, WakeAllStepping
    <2>4. status' = [status EXCEPT ![fib[t]] = "Done"] /\ rq' = rq /\ won' = won
      BY <1>14 DEF Finish
    <2> QED BY <2>1, <2>3, <2>4, OwnedRelease
  <1>15. ASSUME NEW t \in Thread, NEW o \in Promise \cup Fiber, Await(t, o) PROVE Owned'
    BY <1>15, OwnedFrame DEF Await, Executes, SameSteps, Stepping, TypeOK, objectVars
  <1>16. ASSUME NEW t \in Thread, NEW p \in Promise, Complete(t, p) PROVE Owned'
    <2>1. Stepping(t) /\ fib' = fib /\ status' = status /\ rq' = rq /\ won' = won
      BY <1>16 DEF Complete, Executes, Stepping
    <2>2. CASE p \in completed
      BY <1>16, <2>1, <2>2, OwnedFrame DEF Complete, SameSteps, Stepping
    <2>3. CASE p \notin completed
      <3>1. WakeAll(t, waiters[p], p, "run")
        BY <1>16, <2>3 DEF Complete
      <3> QED BY <2>1, <3>1, WakeAllStepping, OwnedFrame DEF SameSteps
    <2> QED BY <2>2, <2>3
  <1>17. ASSUME NEW t \in Thread, NEW g \in Fiber, InterruptFork(t, g) PROVE Owned'
    <2>1. Stepping(t) /\ fib' = fib /\ status' = status /\ rq' = rq /\ won' = won
      BY <1>17 DEF InterruptFork, Executes, Stepping, objectVars
    <2>2. WakeAll(t, {<<g, 0>>}, Nil, "run")
      BY <1>17 DEF InterruptFork, RequestInterrupt
    <2> QED BY <2>1, <2>2, WakeAllStepping, OwnedFrame DEF SameSteps
  <1>18. ASSUME NEW t \in Thread, NEW g \in Fiber, Interrupt(t, g) PROVE Owned'
    <2>1. Stepping(t) /\ fib' = fib /\ status' = status /\ rq' = rq /\ won' = won
      BY <1>18 DEF Interrupt, Executes, Stepping, objectVars
    <2>2. WakeAll(t, {<<g, 0>>}, Nil, "check")
      BY <1>18 DEF Interrupt, RequestInterrupt
    <2> QED BY <2>1, <2>2, WakeAllStepping, OwnedFrame DEF SameSteps
  <1>19. ASSUME NEW t \in Thread, NEW c \in Fiber, NEW s \in Scope, Fork(t, c, s) PROVE Owned'
    <2>1. \A u \in Thread : SameSteps(u)
      BY <1>19 DEF Fork, Executes, SameSteps, Stepping, TypeOK
    <2>2. won[t] = Nil
      BY <1>19 DEF Fork, Executes, ThreadShape, Shape
    <2>3. /\ status' = [status EXCEPT ![c] = "Runnable"] /\ rq' = rq
          /\ won' = [won EXCEPT ![t] = c] /\ status[c] = "Unborn"
      BY <1>19 DEF Fork, objectVars
    <2> QED BY <2>1, <2>2, <2>3, OwnedWin
  <1>20. ASSUME NEW t \in Thread, NEW s \in Scope, Shutdown(t, s) PROVE Owned'
    <2>1. Stepping(t) /\ fib[t] \in Fiber /\ fib' = fib /\ rq' = rq /\ won' = won /\ ret' = ret
      BY <1>20 DEF Shutdown, Executes, Stepping, ThreadShape, Shape
    <2>2. CASE Children(s) = {}
      <3>1. status' = status /\ pc' = pc
        BY <1>20, <2>2 DEF Shutdown
      <3> QED BY <2>1, <3>1, OwnedFrame DEF SameSteps, Stepping
    <2>3. CASE Children(s) # {}
      <3>1. status' = [status EXCEPT ![fib[t]] = "Parked"] /\ pc' = [pc EXCEPT ![t] = "kids"]
        BY <1>20, <2>3 DEF Shutdown, ParkOn
      <3>2. ~Stepping(t)' /\ \A u \in Thread \ {t} : SameSteps(u)
        BY <2>1, <3>1 DEF SameSteps, Stepping, TypeOK
      <3> QED BY <2>1, <3>1, <3>2, OwnedRelease
    <2> QED BY <2>2, <2>3
  <1>21. CASE UNCHANGED vars
    BY <1>21, OwnedFrame DEF vars, fiberVars, objectVars, threadVars, SameSteps, Stepping
  <1> QED
    BY <1>1, <1>2, <1>3, <1>4, <1>5, <1>6, <1>7, <1>8, <1>9, <1>10, <1>11, <1>12, <1>13,
       <1>14, <1>15, <1>16, <1>17, <1>18, <1>19, <1>20, <1>21
    DEF Next, Runtime, Program

(* Every fiber has at most one owner and no fiber is dropped, however      *)
(* workers, wakers, interrupt claims and spawns interleave.                *)
THEOREM Ownership == Spec => [](SingleOwner /\ NoOrphan)
  <1>1. Init => TypeOK /\ ThreadShape /\ Owned
    BY TypeInit, OwnedInit
  <1>2. TypeOK /\ ThreadShape /\ Owned /\ [Next]_vars => TypeOK' /\ ThreadShape' /\ Owned'
    BY TypeNext, OwnedNext
  <1>3. Owned => SingleOwner /\ NoOrphan
    BY DEF Owned
  <1> QED BY <1>1, <1>2, <1>3, PTL DEF Spec

----------------------------------------------------------------------------
(* A finished fiber has no owner, so no step moves it: every step that     *)
(* writes a status writes that of a fiber the queue, a waker or a worker   *)
(* owns, or of one that is parked or not yet born.                         *)
LEMMA DoneStep ==
  ASSUME TypeOK, ThreadShape, Owned, [Next]_vars, NEW f \in Fiber, status[f] = "Done"
  PROVE  status'[f] = "Done" /\ (att[f] = Nil => att'[f] = Nil)
  <1> DEFINE Final == status'[f] = "Done" /\ (att[f] = Nil => att'[f] = Nil)
  <1>0. \A t \in Thread : Stepping(t) => fib[t] # f
    BY DEF Owned, SingleOwner, WorkerOwns
  <1>1. ASSUME NEW t \in Thread, Pop(t) PROVE Final
    <2>1. Head(rq) = rq[1] /\ 1 \in 1..Len(rq)
      BY <1>1 DEF Pop, TypeOK
    <2>2. Head(rq) # f
      BY <2>1 DEF Owned, SingleOwner, QueueOwns
    <2> QED BY <1>1, <2>2 DEF Pop, TypeOK
  <1>2. ASSUME NEW t \in Thread, Park(t) \/ Cede(t) \/ Finish(t) PROVE Final
    <2>1. fib[t] # f
      BY <1>0, <1>2 DEF Park, Cede, Finish, Executes, Stepping
    <2>2. CASE Park(t)
      <3>1. \/ status' = status
            \/ status' = [status EXCEPT ![fib[t]] = "Parked"]
        BY <2>2 DEF Park, ParkOn
      <3>2. att' = att
        BY <2>2 DEF Park
      <3> QED BY <2>1, <3>1, <3>2 DEF TypeOK
    <2>3. CASE Cede(t)
      BY <2>1, <2>3 DEF Cede, TypeOK
    <2>4. CASE Finish(t)
      BY <2>1, <2>4 DEF Finish, TypeOK
    <2> QED BY <1>2, <2>2, <2>3, <2>4
  <1>3. ASSUME NEW t \in Thread, Claim(t) PROVE Final
    <2>1. \/ status' = status
          \/ status[fib[t]] = "Parked" /\ status' = [status EXCEPT ![fib[t]] = "Running"]
      BY <1>3 DEF Claim, ClaimsPending, CasFromParked
    <2>2. att' = att
      BY <1>3 DEF Claim
    <2> QED BY <2>1, <2>2 DEF TypeOK
  <1>4. ASSUME NEW t \in Thread, WakeCas(t) PROVE Final
    <2>1. \/ status' = status
          \/ \E w \in todo[t] : /\ status[w[1]] = "Parked"
                                /\ status' = [status EXCEPT ![w[1]] = "Runnable"]
      BY <1>4 DEF WakeCas, CasFromParked
    <2>2. att' = att
      BY <1>4 DEF WakeCas
    <2> QED BY <2>1, <2>2 DEF TypeOK
  <1>5. ASSUME NEW t \in Thread, NEW c \in Fiber, NEW s \in Scope, Fork(t, c, s) PROVE Final
    BY <1>5 DEF Fork, TypeOK
  <1>6. ASSUME NEW t \in Thread, NEW s \in Scope, Shutdown(t, s) PROVE Final
    <2>1. fib[t] # f /\ att' = att
      BY <1>0, <1>6 DEF Shutdown, Executes, Stepping
    <2>2. status' = status \/ status' = [status EXCEPT ![fib[t]] = "Parked"]
      BY <1>6 DEF Shutdown, ParkOn
    <2> QED BY <2>1, <2>2 DEF TypeOK
  <1>7. ASSUME NEW t \in Thread, Detach(t) PROVE Final
    BY <1>7 DEF Detach, TypeOK
  <1>8. ASSUME NEW t \in Thread,
               \/ Deliver(t) \/ Push(t) \/ Check(t) \/ BornInterrupted(t) \/ InterruptKid(t)
               \/ EnterMask(t) \/ LeaveMask(t)
               \/ \E o \in Promise \cup Fiber : Await(t, o)
               \/ \E p \in Promise : Complete(t, p)
               \/ \E g \in Fiber : InterruptFork(t, g) \/ Interrupt(t, g)
        PROVE  Final
    <2>1. status' = status /\ att' = att
      BY <1>8 DEF Deliver, Push, Check, BornInterrupted, InterruptKid, EnterMask, LeaveMask,
                  Await, Complete, InterruptFork, Interrupt, fiberVars
    <2> QED BY <2>1
  <1>9. CASE UNCHANGED vars
    BY <1>9 DEF vars, fiberVars
  <1> QED
    BY <1>1, <1>2, <1>3, <1>4, <1>5, <1>6, <1>7, <1>8, <1>9 DEF Next, Runtime, Program

(* F_DONE is final, and a finished fiber that has left its scope never     *)
(* comes back to one, whatever late wakers and claimers do.                *)
THEOREM FinishedForGood == Spec => DoneIsFinal
  <1>1. Init => TypeOK /\ ThreadShape /\ Owned
    BY TypeInit, OwnedInit
  <1>2. TypeOK /\ ThreadShape /\ Owned /\ [Next]_vars => TypeOK' /\ ThreadShape' /\ Owned'
    BY TypeNext, OwnedNext
  <1>3. TypeOK /\ ThreadShape /\ Owned /\ [Next]_vars =>
          [\A f \in Fiber : status[f] = "Done" =>
             status'[f] = "Done" /\ (att[f] = Nil => att'[f] = Nil)]_vars
    BY DoneStep
  <1> QED BY <1>1, <1>2, <1>3, PTL DEF Spec, DoneIsFinal

----------------------------------------------------------------------------
(* Nothing is lost: the wake-up of an awaited object, a requested          *)
(* interrupt and the children of a draining scope.  The arguments rest on  *)
(* the ownership above and on what a worker's locals hold at each place.   *)

(* A worker at "wake" or "push" is inside a wake loop.                     *)
InLoop(t) == pc[t] \in {"wake", "push"}

(* A worker walks a list only inside a wake loop; it holds a registration  *)
(* only from the park to the claim, and children only inside the loop of   *)
(* shutdownScope.                                                          *)
LocalsFit(t) ==
  /\ ~InLoop(t) => todo[t] = {}
  /\ reg[t] # Nil => pc[t] \in {"claim", "kids"} \/ (InLoop(t) /\ ret[t] \in {"claim", "kids"})
  /\ kids[t] # {} => pc[t] = "kids" \/ (InLoop(t) /\ ret[t] = "kids")

Locals == \A t \in Thread : LocalsFit(t)

(* The frame of the other threads: their locals stay.                      *)
Others(t) ==
  \A u \in Thread \ {t} : /\ pc'[u] = pc[u] /\ ret'[u] = ret[u] /\ todo'[u] = todo[u]
                          /\ src'[u] = src[u] /\ reg'[u] = reg[u] /\ kids'[u] = kids[u]
                          /\ fib'[u] = fib[u] /\ won'[u] = won[u]

(* No step of a thread touches the locals of another one.                  *)
LEMMA OthersStep ==
  ASSUME TypeOK, NEW t \in Thread, Runtime(t) \/ Program(t)
  PROVE  Others(t)
  <1>1. CASE Pop(t)
    BY <1>1 DEF Pop, Others, TypeOK
  <1>2. CASE Deliver(t)
    BY <1>2 DEF Deliver, Others, TypeOK
  <1>3. CASE Park(t)
    BY <1>3 DEF Park, ParkOn, Others, TypeOK
  <1>4. CASE Claim(t)
    BY <1>4 DEF Claim, Others, TypeOK
  <1>5. CASE WakeCas(t)
    BY <1>5 DEF WakeCas, Others, TypeOK
  <1>6. CASE Push(t)
    BY <1>6 DEF Push, Others, TypeOK
  <1>7. CASE Check(t)
    BY <1>7 DEF Check, Others, TypeOK
  <1>8. CASE BornInterrupted(t)
    BY <1>8 DEF BornInterrupted, Others, TypeOK
  <1>9. CASE InterruptKid(t)
    BY <1>9 DEF InterruptKid, RequestInterrupt, WakeAll, Others, TypeOK
  <1>10. CASE Detach(t)
    BY <1>10 DEF Detach, WakeAll, Others, TypeOK
  <1>11. CASE Cede(t)
    BY <1>11 DEF Cede, Others, TypeOK
  <1>12. CASE EnterMask(t)
    BY <1>12 DEF EnterMask, Others, threadVars
  <1>13. CASE LeaveMask(t)
    BY <1>13 DEF LeaveMask, Others, threadVars
  <1>14. CASE Finish(t)
    BY <1>14 DEF Finish, WakeAll, Others, TypeOK
  <1>15. CASE \E o \in Promise \cup Fiber : Await(t, o)
    BY <1>15 DEF Await, Others, TypeOK
  <1>16. CASE \E p \in Promise : Complete(t, p)
    BY <1>16 DEF Complete, WakeAll, Others, TypeOK
  <1>17. CASE \E g \in Fiber : InterruptFork(t, g)
    BY <1>17 DEF InterruptFork, RequestInterrupt, WakeAll, Others, TypeOK
  <1>18. CASE \E g \in Fiber : Interrupt(t, g)
    BY <1>18 DEF Interrupt, RequestInterrupt, WakeAll, Others, TypeOK
  <1>19. CASE \E c \in Fiber, s \in Scope : Fork(t, c, s)
    BY <1>19 DEF Fork, Others, TypeOK
  <1>20. CASE \E s \in Scope : Shutdown(t, s)
    BY <1>20 DEF Shutdown, ParkOn, Others, TypeOK
  <1> QED
    BY <1>1, <1>2, <1>3, <1>4, <1>5, <1>6, <1>7, <1>8, <1>9, <1>10, <1>11, <1>12, <1>13,
       <1>14, <1>15, <1>16, <1>17, <1>18, <1>19, <1>20
    DEF Runtime, Program

(* A step leaves the locals of the thread that takes it fit for where it   *)
(* stands.                                                                 *)
LEMMA LocalsStep ==
  ASSUME TypeOK, ThreadShape, Locals, NEW t \in Thread, Runtime(t) \/ Program(t)
  PROVE  LocalsFit(t)'
  <1>0. Shape(t) /\ LocalsFit(t)
    BY DEF ThreadShape, Locals
  <1>1. CASE Pop(t)
    BY <1>0, <1>1 DEF Pop, Shape, LocalsFit, InLoop, TypeOK
  <1>2. CASE Deliver(t)
    BY <1>0, <1>2 DEF Deliver, Shape, LocalsFit, InLoop, TypeOK
  <1>3. CASE Park(t)
    BY <1>0, <1>3 DEF Park, ParkOn, Shape, LocalsFit, InLoop, TypeOK
  <1>4. CASE Claim(t)
    BY <1>0, <1>4 DEF Claim, Shape, LocalsFit, InLoop, TypeOK
  <1>5. CASE WakeCas(t)
    BY <1>0, <1>5 DEF WakeCas, Shape, LocalsFit, InLoop, TypeOK
  <1>6. CASE Push(t)
    BY <1>0, <1>6 DEF Push, Shape, LocalsFit, InLoop, TypeOK
  <1>7. CASE Check(t)
    BY <1>0, <1>7 DEF Check, Shape, LocalsFit, InLoop, TypeOK
  <1>8. CASE BornInterrupted(t)
    BY <1>0, <1>8 DEF BornInterrupted, Shape, LocalsFit, InLoop, TypeOK
  <1>9. CASE InterruptKid(t)
    BY <1>0, <1>9 DEF InterruptKid, RequestInterrupt, WakeAll, Shape, LocalsFit, InLoop, TypeOK
  <1>10. CASE Detach(t)
    BY <1>0, <1>10 DEF Detach, WakeAll, Shape, LocalsFit, InLoop, TypeOK
  <1>11. CASE Cede(t)
    BY <1>0, <1>11 DEF Cede, Executes, Shape, LocalsFit, InLoop, TypeOK
  <1>12. CASE EnterMask(t)
    BY <1>0, <1>12 DEF EnterMask, threadVars, Shape, LocalsFit, InLoop, TypeOK
  <1>13. CASE LeaveMask(t)
    BY <1>0, <1>13 DEF LeaveMask, threadVars, Shape, LocalsFit, InLoop, TypeOK
  <1>14. CASE Finish(t)
    BY <1>0, <1>14 DEF Finish, WakeAll, Shape, LocalsFit, InLoop, TypeOK
  <1>15. CASE \E o \in Promise \cup Fiber : Await(t, o)
    BY <1>0, <1>15 DEF Await, Executes, Shape, LocalsFit, InLoop, TypeOK
  <1>16. CASE \E p \in Promise : Complete(t, p)
    BY <1>0, <1>16 DEF Complete, Executes, WakeAll, Shape, LocalsFit, InLoop, TypeOK
  <1>17. CASE \E g \in Fiber : InterruptFork(t, g)
    BY <1>0, <1>17 DEF InterruptFork, Executes, RequestInterrupt, WakeAll, Shape, LocalsFit, InLoop, TypeOK
  <1>18. CASE \E g \in Fiber : Interrupt(t, g)
    BY <1>0, <1>18 DEF Interrupt, Executes, RequestInterrupt, WakeAll, Shape, LocalsFit, InLoop, TypeOK
  <1>19. CASE \E c \in Fiber, s \in Scope : Fork(t, c, s)
    BY <1>0, <1>19 DEF Fork, Executes, Shape, LocalsFit, InLoop, TypeOK
  <1>20. CASE \E s \in Scope : Shutdown(t, s)
    BY <1>0, <1>20 DEF Shutdown, Executes, ParkOn, Shape, LocalsFit, InLoop, TypeOK
  <1> QED
    BY <1>1, <1>2, <1>3, <1>4, <1>5, <1>6, <1>7, <1>8, <1>9, <1>10, <1>11, <1>12, <1>13,
       <1>14, <1>15, <1>16, <1>17, <1>18, <1>19, <1>20
    DEF Runtime, Program

(* Locals is preserved: the thread that moves is fitted by LocalsStep, the *)
(* others by OthersStep.                                                   *)
LEMMA LocalsNext ==
  ASSUME TypeOK, ThreadShape, Locals, [Next]_vars
  PROVE  Locals'
  <1>1. ASSUME NEW t \in Thread, Runtime(t) \/ Program(t) PROVE Locals'
    <2>1. LocalsFit(t)'
      BY <1>1, LocalsStep
    <2>2. \A u \in Thread \ {t} : LocalsFit(u)'
      BY <1>1, OthersStep DEF Others, Locals, LocalsFit, InLoop
    <2> QED BY <2>1, <2>2 DEF Locals
  <1>2. CASE UNCHANGED vars
    BY <1>2 DEF vars, threadVars, Locals, LocalsFit, InLoop
  <1> QED BY <1>1, <1>2 DEF Next

(* Every worker starts empty-handed.                                       *)
LEMMA LocalsInit == Init => Locals
  BY DEF Init, Locals, LocalsFit

----------------------------------------------------------------------------
(* Interrupts.  Somebody has yet to look after f's request: a requester    *)
(* that has not tried the wake, or the thread that parked f.               *)
Covered(f) ==
  \/ \E t \in Thread : <<f, 0>> \in todo[t]
  \/ \E t \in Thread : /\ fib[t] = f /\ reg[t] # Nil /\ reg[t].unmasked
                       /\ reg[t].n = parks[f]

(* Cover survives a step of t in which t gives up no witness of it.        *)
LEMMA KeepsCover ==
  ASSUME NEW t \in Thread, NEW f \in Fiber, Covered(f), parks'[f] = parks[f], Others(t),
         <<f, 0>> \in todo[t] => <<f, 0>> \in todo'[t],
         reg[t] # Nil /\ fib[t] = f => reg'[t] = reg[t] /\ fib'[t] = fib[t]
  PROVE  Covered(f)'
  BY DEF Covered, Others

(* After any step, a parked fiber with a request it would take is covered: *)
(* its requester has yet to wake it, or its worker to read the request.    *)
LEMMA InterruptStep ==
  ASSUME TypeOK, ThreadShape, Owned, Locals, NoLostInterrupt,
         NEW t \in Thread, Runtime(t) \/ Program(t),
         NEW f \in Fiber, status'[f] = "Parked", f \in pending', f \notin masked'
  PROVE  Covered(f)'
  <1>0. /\ status[f] = "Parked" /\ f \in pending /\ f \notin masked => Covered(f)
        /\ Others(t) /\ LocalsFit(t) /\ Shape(t)
        /\ Stepping(t) => status[fib[t]] = "Running" /\ fib[t] \in Fiber
    BY OthersStep, SteppedIsFiber
    DEF NoLostInterrupt, Deliverable, Covered, Locals, ThreadShape, Owned, SingleOwner,
        WorkerOwns
  <1>1. CASE Pop(t)
    <2>1. status[f] = "Parked" /\ pending' = pending /\ masked' = masked /\ parks' = parks
      BY <1>1 DEF Pop, TypeOK
    <2>2. todo[t] = {} /\ reg[t] = Nil
      BY <1>0, <1>1 DEF Pop, LocalsFit, InLoop
    <2> QED BY <1>0, <2>1, <2>2, KeepsCover
  <1>2. CASE Deliver(t) \/ EnterMask(t) \/ LeaveMask(t)
    <2>1. /\ pc[t] \in {"run", "check"} /\ status' = status /\ parks' = parks
          /\ pending' \subseteq pending /\ masked \ masked' \subseteq {fib[t]}
      BY <1>2 DEF Deliver, DeliverInterrupt, EnterMask, LeaveMask
    <2>2. todo[t] = {} /\ reg[t] = Nil /\ f # fib[t]
      BY <1>0, <2>1 DEF LocalsFit, InLoop, Stepping
    <2> QED BY <1>0, <2>1, <2>2, KeepsCover
  <1>3. CASE Park(t) \/ \E s \in Scope : Shutdown(t, s)
    <2>1. pc[t] \in {"run", "park"} /\ pending' = pending /\ masked' = masked /\ fib' = fib
      BY <1>3 DEF Park, Shutdown, Executes
    <2>2. fib[t] \in Fiber /\ todo[t] = {} /\ reg[t] = Nil
      BY <1>0, <2>1 DEF Stepping, LocalsFit, InLoop
    <2>3. \/ status' = status /\ parks' = parks
          \/ \E o \in Waitable \cup {Nil} : ParkOn(t, fib[t], o)
      <3>1. cur[fib[t]].obj \in Waitable \cup {Nil} /\ Scope \subseteq Waitable
        BY <2>2, CurTypes, WaitableTypes DEF TypeOK
      <3> QED BY <1>3, <3>1 DEF Park, Shutdown
    <2>4. CASE f = fib[t] /\ status' # status
      <3>1. PICK o \in Waitable \cup {Nil} : ParkOn(t, f, o)
        BY <2>3, <2>4
      <3>2. /\ reg'[t] = [obj |-> o, n |-> parks[f] + 1, unmasked |-> f \notin masked]
            /\ parks'[f] = parks[f] + 1 /\ f \notin masked
        BY <2>1, <3>1 DEF ParkOn, TypeOK
      <3>3. reg'[t].n = parks'[f] /\ reg'[t].unmasked = (f \notin masked) /\ fib'[t] = f
        BY <2>1, <2>4, <3>2
      <3>4. reg'[t] # Nil
        <4>1. parks[f] + 1 \in Nat /\ (f \notin masked) \in BOOLEAN
          BY DEF TypeOK
        <4>2. [obj |-> o, n |-> parks[f] + 1, unmasked |-> f \notin masked] \in Registration
          BY <4>1 DEF Registration
        <4> QED BY <3>2, <4>2, NilAssumption
      <3> QED BY <3>2, <3>3, <3>4 DEF Covered
    <2>5. CASE f # fib[t] \/ status' = status
      <3>1. status[f] = "Parked" /\ parks'[f] = parks[f]
        BY <1>0, <2>1, <2>2, <2>3, <2>5 DEF ParkOn, TypeOK, Stepping
      <3> QED BY <1>0, <2>1, <2>2, <3>1, KeepsCover
    <2> QED BY <2>4, <2>5
  <1>4. CASE Claim(t)
    <2>1. CASE ClaimsPending(t)
      <3>1. /\ status' = [status EXCEPT ![fib[t]] = "Running"] /\ fib[t] \in Fiber
            /\ DeliverInterrupt(fib[t], reg[t]) /\ parks' = parks /\ pc[t] = "claim"
        BY <1>0, <1>4, <2>1 DEF Claim, Shape
      <3>2. f # fib[t] /\ status[f] = "Parked"
        BY <3>1 DEF TypeOK
      <3>3. f \in pending /\ f \notin masked /\ todo[t] = {}
        BY <1>0, <3>1, <3>2 DEF DeliverInterrupt, LocalsFit, InLoop
      <3> QED BY <1>0, <3>1, <3>2, <3>3, KeepsCover
    <2>2. CASE ~ClaimsPending(t)
      <3>1. /\ status' = status /\ pending' = pending /\ masked' = masked /\ parks' = parks
            /\ todo[t] = {}
        BY <1>0, <1>4, <2>2 DEF Claim, LocalsFit, InLoop
      <3>2. fib[t] = f => ~reg[t].unmasked
        BY <2>2, <3>1 DEF ClaimsPending, CasFromParked
      <3>3. Covered(f)
        BY <1>0, <3>1
      <3> QED BY <1>0, <3>1, <3>2, <3>3 DEF Covered, Others
    <2> QED BY <2>1, <2>2
  <1>5. CASE WakeCas(t)
    <2>1. /\ pending' = pending /\ masked' = masked /\ parks' = parks /\ fib' = fib /\ reg' = reg
      BY <1>5 DEF WakeCas
    <2>2. PICK w \in todo[t] :
            /\ todo' = [todo EXCEPT ![t] = @ \ {w}]
            /\ \/ status[w[1]] = "Parked" /\ status' = [status EXCEPT ![w[1]] = "Runnable"]
               \/ status[w[1]] # "Parked" /\ status' = status
      BY <1>5 DEF WakeCas, CasFromParked
    <2>3. w[1] \in Fiber
      BY <2>2, NodeTypes DEF TypeOK
    <2>4. status[f] = "Parked" /\ w[1] # f
      BY <2>2, <2>3 DEF TypeOK
    <2>5. <<f, 0>> \in todo[t] => <<f, 0>> \in todo'[t]
      BY <2>2, <2>4 DEF TypeOK
    <2> QED BY <1>0, <2>1, <2>4, <2>5, KeepsCover
  <1>6. CASE Push(t) \/ Check(t)
    <2>1. /\ status' = status /\ pending' = pending /\ masked' = masked /\ parks' = parks
          /\ fib' = fib /\ reg' = reg /\ todo' = todo
      BY <1>6 DEF Push, Check, fiberVars
    <2> QED BY <1>0, <2>1, KeepsCover
  <1>7. CASE BornInterrupted(t)
    <2>1. /\ status' = status /\ pending' = pending \cup {won[t]} /\ masked' = masked
          /\ parks' = parks /\ fib' = fib /\ reg' = reg /\ todo' = todo /\ won[t] # Nil
      BY <1>0, <1>7 DEF BornInterrupted, Shape
    <2>2. f # won[t]
      BY <2>1 DEF Owned, SingleOwner, WakerOwns
    <2> QED BY <1>0, <2>1, <2>2, KeepsCover
  <1>8. CASE InterruptKid(t)
    <2>1. PICK k \in kids[t] : /\ pending' = pending \cup {k}
                               /\ todo' = [todo EXCEPT ![t] = {<<k, 0>>}]
      BY <1>8 DEF InterruptKid, RequestInterrupt, WakeAll
    <2>2. /\ status' = status /\ masked' = masked /\ parks' = parks /\ fib' = fib /\ reg' = reg
          /\ todo[t] = {}
      BY <1>0, <1>8 DEF InterruptKid, LocalsFit, InLoop
    <2>3. CASE f = k
      BY <2>1, <2>3 DEF Covered, TypeOK
    <2>4. CASE f # k
      BY <1>0, <2>1, <2>2, <2>4, KeepsCover
    <2> QED BY <2>3, <2>4
  <1>9. CASE \E g \in Fiber : InterruptFork(t, g) \/ Interrupt(t, g)
    <2>1. PICK g \in Fiber : /\ pending' = pending \cup {g}
                             /\ todo' = [todo EXCEPT ![t] = {<<g, 0>>}]
      BY <1>9 DEF InterruptFork, Interrupt, RequestInterrupt, WakeAll
    <2>2. /\ status' = status /\ masked' = masked /\ parks' = parks /\ fib' = fib /\ reg' = reg
          /\ pc[t] = "run"
      BY <1>9 DEF InterruptFork, Interrupt, Executes
    <2>3. todo[t] = {}
      BY <1>0, <2>2 DEF LocalsFit, InLoop
    <2>4. CASE f = g
      BY <2>1, <2>4 DEF Covered, TypeOK
    <2>5. CASE f # g
      BY <1>0, <2>1, <2>2, <2>3, <2>5, KeepsCover
    <2> QED BY <2>4, <2>5
  <1>10. CASE \/ Detach(t)
              \/ \E o \in Promise \cup Fiber : Await(t, o)
              \/ \E p \in Promise : Complete(t, p)
    <2>1. /\ status' = status /\ pending' = pending /\ masked' = masked /\ parks' = parks
          /\ pc[t] \in {"detach", "run"}
      BY <1>10 DEF Detach, Await, Complete, Executes
    <2>2. todo[t] = {} /\ reg[t] = Nil
      BY <1>0, <2>1 DEF LocalsFit, InLoop
    <2> QED BY <1>0, <2>1, <2>2, KeepsCover
  <1>11. CASE \/ Cede(t) \/ Finish(t)
              \/ \E c \in Fiber, s \in Scope : Fork(t, c, s)
    <2>1. /\ pc[t] = "run" /\ pending' = pending /\ masked \subseteq masked' /\ parks' = parks
          /\ \A g \in Fiber : status'[g] = "Parked" => status[g] = "Parked"
      <3>1. CASE Cede(t)
        BY <3>1 DEF Cede, Executes, TypeOK
      <3>2. CASE Finish(t)
        BY <3>2 DEF Finish, TypeOK
      <3>3. CASE \E c \in Fiber, s \in Scope : Fork(t, c, s)
        BY <3>3 DEF Fork, Executes, TypeOK
      <3> QED BY <1>11, <3>1, <3>2, <3>3
    <2>2. todo[t] = {} /\ reg[t] = Nil /\ status[f] = "Parked"
      BY <1>0, <2>1 DEF LocalsFit, InLoop, TypeOK
    <2> QED BY <1>0, <2>1, <2>2, KeepsCover
  <1> QED
    BY <1>1, <1>2, <1>3, <1>4, <1>5, <1>6, <1>7, <1>8, <1>9, <1>10, <1>11
    DEF Runtime, Program

(* NoLostInterrupt is preserved by every step.                             *)
LEMMA InterruptNext ==
  ASSUME TypeOK, ThreadShape, Owned, Locals, NoLostInterrupt, [Next]_vars
  PROVE  NoLostInterrupt'
  <1>1. ASSUME NEW t \in Thread, Runtime(t) \/ Program(t) PROVE NoLostInterrupt'
    <2> SUFFICES ASSUME NEW f \in Fiber, status'[f] = "Parked", f \in pending', f \notin masked'
                 PROVE  Covered(f)'
      BY DEF NoLostInterrupt, Deliverable, Covered
    <2> QED BY <1>1, InterruptStep
  <1>2. CASE UNCHANGED vars
    BY <1>2 DEF vars, fiberVars, threadVars, NoLostInterrupt, Deliverable
  <1> QED BY <1>1, <1>2 DEF Next

(* A requester and a parking fiber cannot both miss each other: a request  *)
(* pending on a fiber parked without a mask always has a thread that will  *)
(* still act on it.                                                        *)
THEOREM InterruptsAreNotLost == Spec => []NoLostInterrupt
  <1>1. Init => TypeOK /\ ThreadShape /\ Owned /\ Locals /\ NoLostInterrupt
    <2>1. Init => NoLostInterrupt
      BY DEF Init, NoLostInterrupt
    <2> QED BY <2>1, TypeInit, OwnedInit, LocalsInit
  <1>2. TypeOK /\ ThreadShape /\ Owned /\ Locals /\ NoLostInterrupt /\ [Next]_vars
          => TypeOK' /\ ThreadShape' /\ Owned' /\ Locals' /\ NoLostInterrupt'
    BY TypeNext, OwnedNext, LocalsNext, InterruptNext
  <1> QED BY <1>1, <1>2, PTL DEF Spec

----------------------------------------------------------------------------
(* Wake-ups.  A worker on its way to a park waits for a promise or a       *)
(* fiber: the operation it is about to park in says so.                    *)
OnWayToPark(t) == pc[t] \in {"check", "park"} \/ (InLoop(t) /\ ret[t] = "check")

AwaitFits ==
  /\ \A f \in Fiber : cur[f].op \in {"await", "interrupt"} => cur[f].obj \in Promise \cup Fiber
  /\ \A t \in Thread : OnWayToPark(t) => cur[fib[t]].op \in {"await", "interrupt"}

(* Nobody awaits anything at the start.                                    *)
LEMMA AwaitFitsInit == Init => AwaitFits
  BY DEF Init, AwaitFits, OnWayToPark, InLoop

(* Only the worker of a running fiber rewrites its f->cur.                 *)
LEMMA CurOfRunning ==
  ASSUME TypeOK, ThreadShape, Owned, NEW t \in Thread, Runtime(t) \/ Program(t),
         NEW g \in Fiber, status[g] = "Running", Stepping(t) => fib[t] # g
  PROVE  cur'[g] = cur[g]
  <1>0. Shape(t) /\ (won[t] # Nil => status[won[t]] = "Runnable")
    BY DEF ThreadShape, Owned, SingleOwner, WakerOwns
  <1>1. CASE Push(t)
    <2>1. won[t] # g
      BY <1>0, <1>1 DEF Push, Shape
    <2> QED BY <1>1, <2>1 DEF Push, TypeOK
  <1>2. CASE Claim(t)
    <2>1. CASE ClaimsPending(t)
      BY <1>2, <2>1 DEF Claim, ClaimsPending, CasFromParked, DeliverInterrupt, TypeOK
    <2>2. CASE ~ClaimsPending(t)
      BY <1>2, <2>2 DEF Claim
    <2> QED BY <2>1, <2>2
  <1>3. CASE Deliver(t) \/ Park(t) \/ Cede(t) \/ EnterMask(t) \/ LeaveMask(t) \/ Finish(t)
    <2>1. fib[t] # g
      BY <1>3 DEF Deliver, Park, Cede, Executes, EnterMask, LeaveMask, Finish, Stepping
    <2>2. cur' = cur \/ \E c : cur' = [cur EXCEPT ![fib[t]] = c]
      BY <1>3 DEF Deliver, DeliverInterrupt, Park, Cede, EnterMask, LeaveMask, Finish, Continues
    <2> QED BY <2>1, <2>2 DEF TypeOK
  <1>4. CASE \/ \E o \in Promise \cup Fiber : Await(t, o)
             \/ \E p \in Promise : Complete(t, p)
             \/ \E h \in Fiber : InterruptFork(t, h) \/ Interrupt(t, h)
             \/ \E c \in Fiber, s \in Scope : Fork(t, c, s)
             \/ \E s \in Scope : Shutdown(t, s)
    <2>1. pc[t] = "run"
      BY <1>4 DEF Await, Complete, InterruptFork, Interrupt, Fork, Shutdown, Executes
    <2>2. \E c : cur' = [cur EXCEPT ![fib[t]] = c]
      BY <1>4 DEF Await, Complete, InterruptFork, Interrupt, Fork, Shutdown, Continues, Enters
    <2> QED BY <2>1, <2>2 DEF Stepping, TypeOK
  <1>5. CASE Pop(t) \/ WakeCas(t) \/ Check(t) \/ BornInterrupted(t) \/ InterruptKid(t) \/ Detach(t)
    BY <1>5 DEF Pop, WakeCas, Check, BornInterrupted, InterruptKid, Detach, fiberVars
  <1> QED BY <1>1, <1>2, <1>3, <1>4, <1>5 DEF Runtime, Program

(* What a step of t leaves in f->cur, for the fibers it rewrites.          *)
LEMMA CurValue ==
  ASSUME TypeOK, ThreadShape, AwaitFits, NEW t \in Thread, Runtime(t) \/ Program(t),
         NEW g \in Fiber
  PROVE  cur'[g].op \in {"await", "interrupt"} => cur'[g].obj \in Promise \cup Fiber
  <1>0. cur[g].op \in {"await", "interrupt"} => cur[g].obj \in Promise \cup Fiber
    BY DEF AwaitFits
  <1>1. \/ cur' = cur
        \/ \E h, o : cur' = [cur EXCEPT ![h] = Pure(o)]
        \/ \E h : \E o \in Promise \cup Fiber :
               \/ cur' = [cur EXCEPT ![h] = [op |-> "await", obj |-> o]]
               \/ cur' = [cur EXCEPT ![h] = [op |-> "interrupt", obj |-> o]]
        \/ \E h, o : cur' = [cur EXCEPT ![h] = [op |-> "shutdown", obj |-> o]]
    <2>1. CASE \/ Pop(t) \/ WakeCas(t) \/ Check(t) \/ BornInterrupted(t) \/ InterruptKid(t)
               \/ Detach(t)
      BY <2>1 DEF Pop, WakeCas, Check, BornInterrupted, InterruptKid, Detach, fiberVars
    <2>2. CASE \/ Deliver(t) \/ Claim(t) \/ Park(t) \/ Push(t) \/ Cede(t) \/ EnterMask(t)
               \/ LeaveMask(t) \/ Finish(t)
      BY <2>2 DEF Deliver, Claim, DeliverInterrupt, Park, Push, Cede, EnterMask, LeaveMask,
                  Finish, Continues
    <2>3. CASE \/ \E p \in Promise : Complete(t, p)
               \/ \E h \in Fiber : InterruptFork(t, h)
               \/ \E c \in Fiber, s \in Scope : Fork(t, c, s)
      BY <2>3 DEF Complete, InterruptFork, Fork, Continues
    <2>4. CASE \/ \E o \in Promise \cup Fiber : Await(t, o)
               \/ \E h \in Fiber : Interrupt(t, h)
      BY <2>4 DEF Await, Interrupt, Enters
    <2>5. CASE \E s \in Scope : Shutdown(t, s)
      BY <2>5 DEF Shutdown, Enters, Continues
    <2> QED BY <2>1, <2>2, <2>3, <2>4, <2>5 DEF Runtime, Program
  <1>2. CASE \E h, o : cur' = [cur EXCEPT ![h] = Pure(o)]
    BY <1>0, <1>2 DEF TypeOK, Pure
  <1>3. CASE \E h : \E o \in Promise \cup Fiber :
               \/ cur' = [cur EXCEPT ![h] = [op |-> "await", obj |-> o]]
               \/ cur' = [cur EXCEPT ![h] = [op |-> "interrupt", obj |-> o]]
    <2>1. PICK h : \E o \in Promise \cup Fiber :
               \/ cur' = [cur EXCEPT ![h] = [op |-> "await", obj |-> o]]
               \/ cur' = [cur EXCEPT ![h] = [op |-> "interrupt", obj |-> o]]
      BY <1>3
    <2>2. CASE g = h
      <3>1. PICK o \in Promise \cup Fiber :
                 \/ cur'[g] = [op |-> "await", obj |-> o]
                 \/ cur'[g] = [op |-> "interrupt", obj |-> o]
        BY <2>1, <2>2 DEF TypeOK
      <3> QED BY <3>1
    <2>3. CASE g # h
      BY <1>0, <2>1, <2>3 DEF TypeOK
    <2> QED BY <2>2, <2>3
  <1>4. CASE \E h, o : cur' = [cur EXCEPT ![h] = [op |-> "shutdown", obj |-> o]]
    BY <1>0, <1>4 DEF TypeOK
  <1> QED BY <1>0, <1>1, <1>2, <1>3, <1>4

(* What a fiber awaits stays a thing its operation can await.              *)
LEMMA AwaitFitsNext ==
  ASSUME TypeOK, ThreadShape, Owned, Locals, AwaitFits, [Next]_vars
  PROVE  AwaitFits'
  <1>1. ASSUME NEW t \in Thread, Runtime(t) \/ Program(t) PROVE AwaitFits'
    <2>1. \A g \in Fiber : cur'[g].op \in {"await", "interrupt"} => cur'[g].obj \in Promise \cup Fiber
      BY <1>1, CurValue
    <2>2. ASSUME NEW u \in Thread \ {t}, OnWayToPark(u)' PROVE cur'[fib'[u]].op \in {"await", "interrupt"}
      <3>1. OnWayToPark(u) /\ fib'[u] = fib[u]
        BY <1>1, <2>2, OthersStep DEF Others, OnWayToPark, InLoop
      <3>2. Stepping(u) /\ fib[u] \in Fiber
        BY <3>1, SteppedIsFiber DEF OnWayToPark, InLoop, Stepping
      <3>3. status[fib[u]] = "Running" /\ (Stepping(t) => fib[t] # fib[u])
        BY <3>2 DEF Owned, SingleOwner, WorkerOwns
      <3>4. cur'[fib[u]] = cur[fib[u]]
        BY <1>1, <3>2, <3>3, CurOfRunning
      <3> QED BY <3>1, <3>4 DEF AwaitFits
    <2>3. ASSUME OnWayToPark(t)' PROVE cur'[fib'[t]].op \in {"await", "interrupt"}
      <3>0. Shape(t) /\ LocalsFit(t) /\ (OnWayToPark(t) => cur[fib[t]].op \in {"await", "interrupt"})
        BY DEF ThreadShape, Locals, AwaitFits
      <3>1. CASE WakeCas(t)
        BY <2>3, <3>0, <3>1 DEF WakeCas, OnWayToPark, InLoop, Shape, TypeOK
      <3>2. CASE Push(t)
        <4>1. won[t] # fib[t] \/ ~OnWayToPark(t)
          BY <3>2 DEF Owned, SingleOwner, WakerOwns, WorkerOwns, OnWayToPark, InLoop, Stepping,
                      Push, ThreadShape, Shape
        <4>2. OnWayToPark(t) /\ fib' = fib
          BY <2>3, <3>0, <3>2 DEF Push, OnWayToPark, InLoop, Shape, TypeOK
        <4>3. cur'[fib[t]] = cur[fib[t]]
          <5>1. \/ cur' = cur
                \/ cur' = [cur EXCEPT ![won[t]] = Pure(src[t])]
            BY <3>2 DEF Push
          <5>2. fib[t] \in Fiber /\ won[t] # fib[t]
            BY <4>1, <4>2, SteppedIsFiber DEF OnWayToPark, InLoop, Stepping
          <5> QED BY <5>1, <5>2 DEF TypeOK
        <4> QED BY <3>0, <4>2, <4>3
      <3>3. CASE Check(t)
        BY <3>0, <3>3 DEF Check, OnWayToPark, fiberVars
      <3>4. CASE \E o \in Promise \cup Fiber : Await(t, o)
        <4>1. pc[t] = "run" /\ fib' = fib /\ \E o : cur' = [cur EXCEPT ![fib[t]] = [op |-> "await", obj |-> o]]
          BY <3>4 DEF Await, Executes, Enters
        <4> QED BY <3>0, <4>1 DEF Shape, TypeOK
      <3>5. CASE \E h \in Fiber : Interrupt(t, h)
        <4>1. pc[t] = "run" /\ fib' = fib /\ \E o : cur' = [cur EXCEPT ![fib[t]] = [op |-> "interrupt", obj |-> o]]
          BY <3>5 DEF Interrupt, Executes, Enters
        <4> QED BY <3>0, <4>1 DEF Shape, TypeOK
      <3>6. CASE \/ Pop(t) \/ Deliver(t) \/ Park(t) \/ Claim(t) \/ Cede(t)
        BY <2>3, <3>6 DEF Pop, Deliver, Park, Claim, Cede, OnWayToPark, InLoop, TypeOK
      <3>7. CASE \/ EnterMask(t) \/ LeaveMask(t)
        BY <2>3, <3>7 DEF EnterMask, LeaveMask, threadVars, OnWayToPark, InLoop
      <3>8. CASE \/ Finish(t) \/ Detach(t) \/ InterruptKid(t)
                 \/ \E p \in Promise : Complete(t, p)
                 \/ \E h \in Fiber : InterruptFork(t, h)
        BY <2>3, <3>8 DEF Finish, Detach, InterruptKid, Complete, Executes, InterruptFork,
                          RequestInterrupt, WakeAll, OnWayToPark, InLoop, TypeOK
      <3>9. CASE \/ BornInterrupted(t)
                 \/ \E c \in Fiber, s \in Scope : Fork(t, c, s)
        BY <2>3, <3>0, <3>9 DEF BornInterrupted, Fork, Shape, OnWayToPark, InLoop, TypeOK
      <3>10. CASE \E s \in Scope : Shutdown(t, s)
        BY <2>3, <3>10 DEF Shutdown, Executes, OnWayToPark, InLoop, TypeOK
      <3> QED BY <1>1, <3>1, <3>2, <3>3, <3>4, <3>5, <3>6, <3>7, <3>8, <3>9, <3>10
              DEF Runtime, Program
    <2> QED BY <2>1, <2>2, <2>3 DEF AwaitFits
  <1>2. CASE UNCHANGED vars
    BY <1>2 DEF vars, fiberVars, threadVars, AwaitFits, OnWayToPark, InLoop
  <1> QED BY <1>1, <1>2 DEF Next

(* A fiber belongs to a scope only once it exists.                         *)
UnbornFree == \A f \in Fiber : status[f] = "Unborn" => att[f] = Nil

(* A fiber that is not forked stays out of every scope.                    *)
LEMMA UnbornNext ==
  ASSUME TypeOK, UnbornFree, [Next]_vars
  PROVE  UnbornFree'
  <1>1. ASSUME NEW t \in Thread, NEW c \in Fiber, NEW s \in Scope, Fork(t, c, s)
        PROVE  UnbornFree'
    BY <1>1 DEF Fork, UnbornFree, TypeOK
  <1>2. ASSUME NEW t \in Thread, Detach(t) PROVE UnbornFree'
    BY <1>2 DEF Detach, UnbornFree, TypeOK
  <1>3. ASSUME NEW t \in Thread, Claim(t) \/ Park(t) \/ \E s \in Scope : Shutdown(t, s)
        PROVE  UnbornFree'
    <2>1. att' = att /\ \/ status' = status
                        \/ status' = [status EXCEPT ![fib[t]] = "Parked"]
                        \/ status' = [status EXCEPT ![fib[t]] = "Running"]
      BY <1>3 DEF Claim, Park, Shutdown, ParkOn
    <2> QED BY <2>1 DEF UnbornFree, TypeOK
  <1>4. ASSUME NEW t \in Thread, Pop(t) \/ WakeCas(t) \/ Cede(t) \/ Finish(t) PROVE UnbornFree'
    <2>1. att' = att /\ \/ status' = status
                        \/ \E g : \/ status' = [status EXCEPT ![g] = "Running"]
                                  \/ status' = [status EXCEPT ![g] = "Runnable"]
                                  \/ status' = [status EXCEPT ![g] = "Done"]
      BY <1>4 DEF Pop, WakeCas, Cede, Finish
    <2> QED BY <2>1 DEF UnbornFree, TypeOK
  <1>5. ASSUME NEW t \in Thread,
               \/ Deliver(t) \/ Push(t) \/ Check(t) \/ BornInterrupted(t) \/ InterruptKid(t)
               \/ EnterMask(t) \/ LeaveMask(t)
               \/ \E o \in Promise \cup Fiber : Await(t, o)
               \/ \E p \in Promise : Complete(t, p)
               \/ \E g \in Fiber : InterruptFork(t, g) \/ Interrupt(t, g)
        PROVE  UnbornFree'
    <2>1. status' = status /\ att' = att
      BY <1>5 DEF Deliver, Push, Check, BornInterrupted, InterruptKid, EnterMask, LeaveMask,
                  Await, Complete, InterruptFork, Interrupt, fiberVars
    <2> QED BY <2>1 DEF UnbornFree
  <1>6. CASE UNCHANGED vars
    BY <1>6 DEF vars, fiberVars, UnbornFree
  <1> QED BY <1>1, <1>2, <1>3, <1>4, <1>5, <1>6 DEF Next, Runtime, Program

(* f's current node is on the list of the unresolved object it waits for,  *)
(* or a thread that took the list has yet to come to it.                   *)
Open(o) == IF o \in Scope THEN o \in shutting /\ Children(o) # {} ELSE ~Resolved(o)
Listed(f) == <<f, parks[f]>> \in waiters[cur[f].obj] /\ Open(cur[f].obj)
Taken(f) == \E t \in Thread : <<f, parks[f]>> \in todo[t] /\ src[t] = cur[f].obj

(* A node in a worker's list stays there until that worker wakes it.       *)
LEMMA KeepsTaken ==
  ASSUME NEW t \in Thread, NEW f \in Fiber, Taken(f), Others(t),
         parks'[f] = parks[f], cur'[f] = cur[f],
         <<f, parks[f]>> \in todo[t] => <<f, parks[f]>> \in todo'[t] /\ src'[t] = src[t]
  PROVE  Taken(f)'
  BY DEF Taken, Others

(* What has not completed stays so under a step that completes nothing.    *)
LEMMA StaysOpen ==
  ASSUME NEW o, Open(o), completed' = completed, shutting \subseteq shutting',
         \A g \in Fiber : status'[g] = "Done" => status[g] = "Done",
         \A g \in Fiber : att[g] # Nil => att'[g] = att[g]
  PROVE  Open(o)'
  <1>1. Nil \notin Scope
    BY FibersAssumption
  <1> QED BY <1>1 DEF Open, Resolved, Children

(* A step that resolves nothing, touches no node of f and walks no list.   *)
LEMMA WakeupFrame ==
  ASSUME NEW t \in Thread, NEW f \in Fiber, Listed(f) \/ Taken(f), Others(t), LocalsFit(t),
         parks'[f] = parks[f], cur'[f] = cur[f],
         todo[t] # {} => todo'[t] = todo[t] /\ src'[t] = src[t],
         <<f, parks[f]>> \in waiters[cur[f].obj] => <<f, parks[f]>> \in waiters'[cur[f].obj],
         completed' = completed, shutting \subseteq shutting',
         \A g \in Fiber : status'[g] = "Done" => status[g] = "Done",
         \A g \in Fiber : att[g] # Nil => att'[g] = att[g]
  PROVE  Listed(f)' \/ Taken(f)'
  <1>1. CASE Taken(f)
    BY <1>1, KeepsTaken
  <1>2. CASE Listed(f)
    BY <1>2, StaysOpen DEF Listed
  <1> QED BY <1>1, <1>2

(* After any step, a parked fiber is on the list of what it awaits, or in  *)
(* the list somebody took from it.                                         *)
LEMMA WakeupStep ==
  ASSUME TypeOK, ThreadShape, Owned, Locals, AwaitFits, UnbornFree, NoLostWakeup,
         NEW t \in Thread, Runtime(t) \/ Program(t), NEW f \in Fiber, status'[f] = "Parked"
  PROVE  Listed(f)' \/ Taken(f)'
  <1>0. /\ status[f] = "Parked" => Listed(f) \/ Taken(f)
        /\ Others(t) /\ LocalsFit(t) /\ Shape(t)
        /\ Stepping(t) => status[fib[t]] = "Running" /\ fib[t] \in Fiber
        /\ won[t] # Nil => status[won[t]] = "Runnable"
    BY OthersStep, SteppedIsFiber
    DEF NoLostWakeup, Listed, Taken, Open, Locals, ThreadShape, Owned, SingleOwner,
        WorkerOwns, WakerOwns
  <1>1. CASE Pop(t)
    <2>1. status[f] = "Parked" /\ \A g \in Fiber : status'[g] = "Done" => status[g] = "Done"
      BY <1>1 DEF Pop, TypeOK
    <2>2. UNCHANGED <<cur, parks, waiters, completed, shutting, att, todo, src>>
      BY <1>1 DEF Pop
    <2> QED BY <1>0, <2>1, <2>2, WakeupFrame
  <1>2. CASE Deliver(t)
    <2>1. /\ status' = status /\ fib[t] \in Fiber /\ fib[t] # f
          /\ UNCHANGED <<parks, completed, shutting, att, todo, src>>
          /\ cur' = [cur EXCEPT ![fib[t]] = Pure(Nil)]
          /\ waiters' = Unlink(fib[t], park[fib[t]])
      BY <1>0, <1>2 DEF Deliver, DeliverInterrupt, Stepping
    <2>2. cur'[f] = cur[f]
      BY <2>1 DEF TypeOK
    <2>3. <<f, parks[f]>> \in waiters[cur[f].obj] => <<f, parks[f]>> \in waiters'[cur[f].obj]
      BY <2>1 DEF Unlink, TypeOK
    <2> QED BY <1>0, <2>1, <2>2, <2>3, WakeupFrame
  <1>3. CASE Claim(t)
    <2>1. CASE ClaimsPending(t)
      <3>1. /\ status' = [status EXCEPT ![fib[t]] = "Running"] /\ fib[t] \in Fiber
            /\ UNCHANGED <<parks, completed, shutting, att, todo, src>>
            /\ cur' = [cur EXCEPT ![fib[t]] = Pure(Nil)]
            /\ waiters' = Unlink(fib[t], reg[t])
        BY <1>0, <1>3, <2>1 DEF Claim, DeliverInterrupt, Shape
      <3>2. /\ f # fib[t] /\ status[f] = "Parked" /\ cur'[f] = cur[f]
            /\ \A g \in Fiber : status'[g] = "Done" => status[g] = "Done"
        BY <3>1 DEF TypeOK
      <3>3. <<f, parks[f]>> \in waiters[cur[f].obj] => <<f, parks[f]>> \in waiters'[cur[f].obj]
        BY <3>1, <3>2 DEF Unlink, TypeOK
      <3> QED BY <1>0, <3>1, <3>2, <3>3, WakeupFrame
    <2>2. CASE ~ClaimsPending(t)
      <3>1. UNCHANGED <<status, cur, parks, waiters, completed, shutting, att, todo, src>>
        BY <1>3, <2>2 DEF Claim
      <3> QED BY <1>0, <3>1, WakeupFrame
    <2> QED BY <2>1, <2>2
  <1>4. CASE WakeCas(t)
    <2>1. UNCHANGED <<cur, parks, waiters, completed, shutting, att, src>>
      BY <1>4 DEF WakeCas, objectVars
    <2>2. PICK w \in todo[t] :
            /\ todo' = [todo EXCEPT ![t] = @ \ {w}]
            /\ \/ status[w[1]] = "Parked" /\ status' = [status EXCEPT ![w[1]] = "Runnable"]
               \/ status[w[1]] # "Parked" /\ status' = status
      BY <1>4 DEF WakeCas, CasFromParked
    <2>3. w[1] \in Fiber
      BY <2>2, NodeTypes DEF TypeOK
    <2>4. /\ status[f] = "Parked" /\ w[1] # f
          /\ \A g \in Fiber : status'[g] = "Done" => status[g] = "Done"
      BY <2>2, <2>3 DEF TypeOK
    <2>5. <<f, parks[f]>> \in todo[t] => <<f, parks[f]>> \in todo'[t]
      BY <2>2, <2>4 DEF TypeOK
    <2>6. CASE Taken(f)
      BY <1>0, <2>1, <2>5, <2>6, KeepsTaken
    <2>7. CASE Listed(f)
      BY <2>1, <2>4, <2>7, StaysOpen DEF Listed
    <2> QED BY <1>0, <2>4, <2>6, <2>7
  <1>5. CASE Push(t)
    <2>1. /\ UNCHANGED <<status, parks, waiters, completed, shutting, att, todo, src>>
          /\ cur' = cur \/ cur' = [cur EXCEPT ![won[t]] = Pure(src[t])]
          /\ won[t] # Nil
      BY <1>0, <1>5 DEF Push, Shape
    <2>2. cur'[f] = cur[f]
      BY <1>0, <2>1 DEF TypeOK
    <2> QED BY <1>0, <2>1, <2>2, WakeupFrame
  <1>6. CASE Check(t) \/ BornInterrupted(t)
    <2>1. UNCHANGED <<status, cur, parks, waiters, completed, shutting, att, todo, src>>
      BY <1>6 DEF Check, BornInterrupted, fiberVars, objectVars
    <2> QED BY <1>0, <2>1, WakeupFrame
  <1>7. CASE InterruptKid(t)
    <2>1. UNCHANGED <<status, cur, parks, waiters, completed, shutting, att>> /\ todo[t] = {}
      BY <1>0, <1>7 DEF InterruptKid, objectVars, LocalsFit, InLoop
    <2> QED BY <1>0, <2>1, WakeupFrame
  <1>8. CASE Park(t)
    <2>1. /\ fib[t] \in Fiber /\ todo[t] = {} /\ status[fib[t]] = "Running"
          /\ UNCHANGED <<completed, shutting, att, todo, src>>
      BY <1>0, <1>8 DEF Park, Stepping, LocalsFit, InLoop
    <2>2. CASE FoundResolved(t)
      <3>1. UNCHANGED <<status, parks, waiters>> /\ \E c : cur' = [cur EXCEPT ![fib[t]] = c]
        BY <1>8, <2>2 DEF Park
      <3>2. f # fib[t] /\ cur'[f] = cur[f]
        BY <2>1, <3>1 DEF TypeOK
      <3> QED BY <1>0, <2>1, <3>1, <3>2, WakeupFrame
    <2>3. CASE ~FoundResolved(t)
      <3>1. PICK o \in Promise \cup Fiber :
              o = cur[fib[t]].obj /\ ParkOn(t, fib[t], o) /\ cur' = cur
        BY <1>8, <2>1, <2>3 DEF Park, AwaitFits, OnWayToPark
      <3>2. o \in Waitable /\ o \notin Scope /\ ~Resolved(o)
        BY <2>3, <3>1, FibersAssumption DEF Waitable, FoundResolved
      <3>3. /\ status' = [status EXCEPT ![fib[t]] = "Parked"]
            /\ parks' = [parks EXCEPT ![fib[t]] = @ + 1]
            /\ waiters' = [waiters EXCEPT ![o] = @ \cup {<<fib[t], parks[fib[t]] + 1>>}]
        BY <3>1 DEF ParkOn
      <3>4. \A g \in Fiber : status'[g] = "Done" => status[g] = "Done"
        BY <2>1, <3>3 DEF TypeOK
      <3>5. CASE f = fib[t]
        <4>1. <<f, parks'[f]>> \in waiters'[o]
          BY <3>2, <3>3, <3>5 DEF TypeOK
        <4>2. Open(o)'
          BY <2>1, <3>2, <3>4 DEF Open, Resolved
        <4> QED BY <3>1, <3>5, <4>1, <4>2 DEF Listed
      <3>6. CASE f # fib[t]
        <4>1. status[f] = "Parked" /\ parks'[f] = parks[f]
          BY <2>1, <3>3, <3>6 DEF TypeOK
        <4>2. <<f, parks[f]>> \in waiters[cur[f].obj] => <<f, parks[f]>> \in waiters'[cur[f].obj]
          BY <3>2, <3>3 DEF TypeOK
        <4> QED BY <1>0, <2>1, <3>1, <3>4, <4>1, <4>2, WakeupFrame
      <3> QED BY <3>5, <3>6
    <2> QED BY <2>2, <2>3
  <1>9. CASE \E s \in Scope : Shutdown(t, s)
    <2>1. PICK s \in Scope : Shutdown(t, s)
      BY <1>9
    <2>2. /\ fib[t] \in Fiber /\ todo[t] = {} /\ status[fib[t]] = "Running"
          /\ UNCHANGED <<completed, att, todo, src>> /\ shutting' = shutting \cup {s}
      BY <1>0, <2>1 DEF Shutdown, Executes, Stepping, LocalsFit, InLoop
    <2>3. CASE Children(s) = {}
      <3>1. UNCHANGED <<status, parks, waiters>> /\ \E c : cur' = [cur EXCEPT ![fib[t]] = c]
        BY <2>1, <2>3 DEF Shutdown, Continues
      <3>2. f # fib[t] /\ cur'[f] = cur[f]
        BY <2>2, <3>1 DEF TypeOK
      <3> QED BY <1>0, <2>2, <3>1, <3>2, WakeupFrame
    <2>4. CASE Children(s) # {}
      <3>1. ParkOn(t, fib[t], s) /\ cur' = [cur EXCEPT ![fib[t]] = [op |-> "shutdown", obj |-> s]]
        BY <2>1, <2>4 DEF Shutdown, Enters
      <3>2. s \in Waitable
        BY WaitableTypes
      <3>3. /\ status' = [status EXCEPT ![fib[t]] = "Parked"]
            /\ parks' = [parks EXCEPT ![fib[t]] = @ + 1]
            /\ waiters' = [waiters EXCEPT ![s] = @ \cup {<<fib[t], parks[fib[t]] + 1>>}]
        BY <3>1 DEF ParkOn
      <3>4. \A g \in Fiber : status'[g] = "Done" => status[g] = "Done"
        BY <2>2, <3>3 DEF TypeOK
      <3>5. CASE f = fib[t]
        <4>1. <<f, parks'[f]>> \in waiters'[s] /\ cur'[f].obj = s
          BY <3>1, <3>2, <3>3, <3>5 DEF TypeOK
        <4>2. Open(s)'
          BY <2>2, <2>4 DEF Open, Children
        <4> QED BY <4>1, <4>2 DEF Listed
      <3>6. CASE f # fib[t]
        <4>1. status[f] = "Parked" /\ parks'[f] = parks[f] /\ cur'[f] = cur[f]
          BY <2>2, <3>1, <3>3, <3>6 DEF TypeOK
        <4>2. <<f, parks[f]>> \in waiters[cur[f].obj] => <<f, parks[f]>> \in waiters'[cur[f].obj]
          BY <3>2, <3>3 DEF TypeOK
        <4> QED BY <1>0, <2>2, <3>4, <4>1, <4>2, WakeupFrame
      <3> QED BY <3>5, <3>6
    <2> QED BY <2>3, <2>4
  <1>10. CASE Finish(t)
    <2> DEFINE g == fib[t]
    <2>1. /\ g \in Fiber /\ todo[t] = {} /\ status[g] = "Running"
          /\ UNCHANGED <<parks, completed, shutting, att>>
          /\ status' = [status EXCEPT ![g] = "Done"]
          /\ waiters' = [waiters EXCEPT ![g] = {}]
          /\ todo' = [todo EXCEPT ![t] = waiters[g]] /\ src' = [src EXCEPT ![t] = g]
          /\ cur' = [cur EXCEPT ![g] = Pure(Nil)]
      BY <1>0, <1>10 DEF Finish, Stepping, LocalsFit, InLoop, WakeAll, Continues
    <2>2. f # g /\ status[f] = "Parked" /\ cur'[f] = cur[f]
      BY <2>1 DEF TypeOK
    <2>3. CASE Taken(f)
      BY <1>0, <2>1, <2>2, <2>3, KeepsTaken
    <2>4. CASE Listed(f) /\ cur[f].obj = g
      BY <2>1, <2>2, <2>4 DEF Listed, Taken, TypeOK
    <2>5. CASE Listed(f) /\ cur[f].obj # g
      <3>1. <<f, parks'[f]>> \in waiters'[cur'[f].obj]
        BY <2>1, <2>2, <2>5 DEF Listed, TypeOK
      <3>2. Open(cur[f].obj)'
        BY <2>1, <2>5 DEF Listed, Open, Resolved, Children, TypeOK
      <3> QED BY <2>2, <3>1, <3>2 DEF Listed
    <2> QED BY <1>0, <2>2, <2>3, <2>4, <2>5
  <1>11. CASE \E p \in Promise : Complete(t, p)
    <2>1. PICK p \in Promise : Complete(t, p)
      BY <1>11
    <2>2. /\ fib[t] \in Fiber /\ todo[t] = {} /\ status[fib[t]] = "Running"
          /\ UNCHANGED <<status, parks, shutting, att>>
          /\ cur' = [cur EXCEPT ![fib[t]] = Pure(Nil)] /\ p \in Waitable
      BY <1>0, <2>1, WaitableTypes DEF Complete, Executes, Stepping, LocalsFit, InLoop, Continues
    <2>3. f # fib[t] /\ status[f] = "Parked" /\ cur'[f] = cur[f]
      BY <2>2 DEF TypeOK
    <2>4. CASE p \in completed
      <3>1. UNCHANGED <<completed, waiters, todo, src>>
        BY <2>1, <2>4 DEF Complete
      <3> QED BY <1>0, <2>2, <2>3, <3>1, WakeupFrame
    <2>5. CASE p \notin completed
      <3>1. /\ waiters' = [waiters EXCEPT ![p] = {}] /\ completed' = completed \cup {p}
            /\ todo' = [todo EXCEPT ![t] = waiters[p]] /\ src' = [src EXCEPT ![t] = p]
        BY <2>1, <2>5 DEF Complete, WakeAll
      <3>2. CASE Taken(f)
        BY <1>0, <2>2, <2>3, <3>2, KeepsTaken
      <3>3. CASE Listed(f) /\ cur[f].obj = p
        BY <2>2, <2>3, <3>1, <3>3 DEF Listed, Taken, TypeOK
      <3>4. CASE Listed(f) /\ cur[f].obj # p
        <4>1. <<f, parks'[f]>> \in waiters'[cur'[f].obj]
          BY <2>2, <2>3, <3>1, <3>4 DEF Listed, TypeOK
        <4>2. Open(cur[f].obj)'
          BY <2>2, <3>1, <3>4 DEF Listed, Open, Resolved, Children
        <4> QED BY <2>3, <4>1, <4>2 DEF Listed
      <3> QED BY <1>0, <2>3, <3>2, <3>3, <3>4
    <2> QED BY <2>4, <2>5
  <1>12. CASE Detach(t)
    <2>0. PICK g \in Fiber, s \in Scope \cup {Nil} : g = fib[t] /\ s = att[g]
      BY <1>0, <1>12 DEF Detach, Shape, TypeOK
    <2>1. /\ todo[t] = {} /\ att' = [att EXCEPT ![g] = Nil]
          /\ UNCHANGED <<status, cur, parks, completed, shutting>>
      BY <1>0, <1>12, <2>0 DEF Detach, LocalsFit, InLoop
    <2>2. Nil \notin Scope /\ Scope \subseteq Waitable
      BY WaitableTypes
    <2>3. CASE Taken(f)
      BY <1>0, <2>1, <2>3, KeepsTaken
    <2>4. CASE Listed(f) /\ LastChild(g) /\ cur[f].obj = s
      <3>1. todo' = [todo EXCEPT ![t] = waiters[s]] /\ src' = [src EXCEPT ![t] = s]
        BY <1>12, <2>0, <2>4 DEF Detach, WakeAll
      <3> QED BY <2>1, <2>4, <3>1 DEF Listed, Taken, TypeOK
    <2>5. CASE Listed(f) /\ LastChild(g) /\ cur[f].obj # s
      <3>1. waiters' = [waiters EXCEPT ![s] = {}]
        BY <1>12, <2>0, <2>5 DEF Detach
      <3>2. <<f, parks'[f]>> \in waiters'[cur'[f].obj]
        BY <2>1, <2>5, <3>1 DEF Listed, TypeOK
      <3>3. Open(cur[f].obj)'
        BY <2>0, <2>1, <2>2, <2>5 DEF Listed, Open, Resolved, Children, TypeOK
      <3> QED BY <2>1, <3>2, <3>3 DEF Listed
    <2>6. CASE Listed(f) /\ ~LastChild(g)
      <3>1. waiters' = waiters
        BY <1>12, <2>0, <2>6 DEF Detach
      <3>2. Open(cur[f].obj)'
        <4>1. CASE cur[f].obj = s /\ s \in Scope
          <5>1. PICK h \in Children(s) : h # g
            BY <2>0, <2>1, <2>2, <2>6, <4>1 DEF Listed, Open, LastChild, Children
          <5>2. h \in Children(s)'
            BY <2>1, <5>1 DEF Children, TypeOK
          <5> QED BY <2>1, <2>6, <4>1, <5>2 DEF Listed, Open
        <4>2. CASE ~(cur[f].obj = s /\ s \in Scope)
          BY <2>0, <2>1, <2>2, <2>6, <4>2 DEF Listed, Open, Resolved, Children, TypeOK
        <4> QED BY <4>1, <4>2
      <3> QED BY <2>1, <2>6, <3>1, <3>2 DEF Listed
    <2> QED BY <1>0, <2>1, <2>3, <2>4, <2>5, <2>6
  <1>13. CASE \/ Cede(t) \/ EnterMask(t) \/ LeaveMask(t)
              \/ \E o \in Promise \cup Fiber : Await(t, o)
              \/ \E g \in Fiber : InterruptFork(t, g) \/ Interrupt(t, g)
    <2>1. /\ pc[t] = "run" /\ UNCHANGED <<parks, waiters, completed, shutting, att>>
          /\ \E c : cur' = [cur EXCEPT ![fib[t]] = c]
          /\ status' = status \/ status' = [status EXCEPT ![fib[t]] = "Runnable"]
      BY <1>13 DEF Cede, EnterMask, LeaveMask, Await, InterruptFork, Interrupt, Executes,
                   Enters, Continues, objectVars
    <2>2. fib[t] \in Fiber /\ todo[t] = {} /\ status[fib[t]] = "Running"
      BY <1>0, <2>1 DEF Stepping, LocalsFit, InLoop
    <2>3. /\ status[f] = "Parked" /\ cur'[f] = cur[f]
          /\ \A g \in Fiber : status'[g] = "Done" => status[g] = "Done"
      BY <2>1, <2>2 DEF TypeOK
    <2> QED BY <1>0, <2>1, <2>2, <2>3, WakeupFrame
  <1>14. CASE \E c \in Fiber, s \in Scope : Fork(t, c, s)
    <2>1. PICK c \in Fiber, s \in Scope : Fork(t, c, s)
      BY <1>14
    <2>2. /\ pc[t] = "run" /\ UNCHANGED <<parks, waiters, completed, shutting>>
          /\ cur' = [cur EXCEPT ![fib[t]] = Pure(Nil)] /\ status[c] = "Unborn"
          /\ status' = [status EXCEPT ![c] = "Runnable"] /\ att' = [att EXCEPT ![c] = s]
      BY <2>1 DEF Fork, Executes, Continues, objectVars
    <2>3. fib[t] \in Fiber /\ todo[t] = {} /\ status[fib[t]] = "Running"
      BY <1>0, <2>2 DEF Stepping, LocalsFit, InLoop
    <2>4. /\ status[f] = "Parked" /\ cur'[f] = cur[f]
          /\ \A g \in Fiber : status'[g] = "Done" => status[g] = "Done"
      BY <2>2, <2>3 DEF TypeOK
    <2>5. att[c] = Nil
      BY <2>2 DEF UnbornFree
    <2> QED BY <1>0, <2>2, <2>3, <2>4, <2>5, WakeupFrame DEF TypeOK
  <1> QED
    BY <1>1, <1>2, <1>3, <1>4, <1>5, <1>6, <1>7, <1>8, <1>9, <1>10, <1>11, <1>12, <1>13, <1>14
    DEF Runtime, Program

(* NoLostWakeup is preserved by every step.                                *)
LEMMA WakeupNext ==
  ASSUME TypeOK, ThreadShape, Owned, Locals, AwaitFits, UnbornFree, NoLostWakeup, [Next]_vars
  PROVE  NoLostWakeup'
  <1>1. ASSUME NEW t \in Thread, Runtime(t) \/ Program(t) PROVE NoLostWakeup'
    <2> SUFFICES ASSUME NEW f \in Fiber, status'[f] = "Parked" PROVE Listed(f)' \/ Taken(f)'
      BY DEF NoLostWakeup, Listed, Taken, Open
    <2> QED BY <1>1, WakeupStep
  <1>2. CASE UNCHANGED vars
    BY <1>2 DEF vars, fiberVars, objectVars, threadVars, NoLostWakeup, Resolved, Children
  <1> QED BY <1>1, <1>2 DEF Next

(* No wake-up is lost: a parked fiber is on the list of an object that is  *)
(* still unresolved, or the thread that resolved it has yet to wake it.    *)
THEOREM WakeupsAreNotLost == Spec => []NoLostWakeup
  <1> DEFINE Inv == /\ TypeOK /\ ThreadShape /\ Owned /\ Locals /\ AwaitFits /\ UnbornFree
                    /\ NoLostWakeup
  <1>1. Init => Inv
    <2>1. Init => NoLostWakeup
      BY DEF Init, NoLostWakeup
    <2>2. Init => UnbornFree
      BY DEF Init, UnbornFree
    <2> QED BY <2>1, <2>2, TypeInit, OwnedInit, LocalsInit, AwaitFitsInit
  <1>2. Inv /\ [Next]_vars => Inv'
    BY TypeNext, OwnedNext, LocalsNext, AwaitFitsNext, UnbornNext, WakeupNext
  <1>3. Inv => NoLostWakeup
    OBVIOUS
  <1> QED BY <1>1, <1>2, <1>3, PTL DEF Spec

----------------------------------------------------------------------------
(* Children of a draining scope.  f has been asked to stop, or a thread is *)
(* about to ask it.                                                        *)
Seen(f) ==
  \/ f \in pending \cup interrupted
  \/ \E t \in Thread : f \in kids[t] \/ (pc[t] = "attach" /\ won[t] = f)

(* No step takes a request back before it is delivered, forgets a child of *)
(* the snapshot or leaves scope_attach without the request.                *)
LEMMA RequestsStay ==
  ASSUME TypeOK, ThreadShape, Locals, NEW t \in Thread, Runtime(t) \/ Program(t)
  PROVE  /\ pending \cup interrupted \subseteq pending' \cup interrupted'
         /\ kids[t] \subseteq kids'[t] \cup pending'
         /\ pc[t] = "attach" => won[t] \in pending'
  <1>0. LocalsFit(t)
    BY DEF Locals
  <1>1. CASE Pop(t) \/ Check(t) \/ Park(t) \/ WakeCas(t) \/ Push(t) \/ Detach(t) \/ Cede(t)
    BY <1>1 DEF Pop, Check, Park, WakeCas, Push, Detach, Cede, Executes, fiberVars
  <1>2. CASE Deliver(t) \/ Claim(t)
    BY <1>2 DEF Deliver, Claim, DeliverInterrupt
  <1>3. CASE BornInterrupted(t)
    BY <1>3 DEF BornInterrupted
  <1>4. CASE InterruptKid(t)
    BY <1>4 DEF InterruptKid, RequestInterrupt, TypeOK
  <1>5. CASE \/ EnterMask(t) \/ LeaveMask(t) \/ Finish(t)
             \/ \E o \in Promise \cup Fiber : Await(t, o)
             \/ \E p \in Promise : Complete(t, p)
    BY <1>5 DEF EnterMask, LeaveMask, Finish, Await, Complete, Executes, threadVars
  <1>6. CASE \/ \E g \in Fiber : InterruptFork(t, g) \/ Interrupt(t, g)
             \/ \E c \in Fiber, s \in Scope : Fork(t, c, s)
    BY <1>6 DEF InterruptFork, Interrupt, RequestInterrupt, Fork, Executes
  <1>7. CASE \E s \in Scope : Shutdown(t, s)
    <2>1. kids[t] = {} /\ pc[t] = "run"
      BY <1>0, <1>7 DEF Shutdown, Executes, LocalsFit, InLoop
    <2> QED BY <1>7, <2>1 DEF Shutdown
  <1> QED BY <1>1, <1>2, <1>3, <1>4, <1>5, <1>6, <1>7 DEF Runtime, Program

(* After any step, a live child of a scope being shut down has been asked  *)
(* to stop, or is about to be.                                             *)
LEMMA ChildStep ==
  ASSUME TypeOK, ThreadShape, Owned, Locals, NoChildEscapes,
         NEW t \in Thread, Runtime(t) \/ Program(t),
         NEW f \in Fiber, att'[f] \in shutting', status'[f] # "Done"
  PROVE  Seen(f)'
  <1>0. status[f] # "Done"
    BY DoneStep DEF Next
  <1>1. Seen(f) => Seen(f)'
    BY OthersStep, RequestsStay DEF Seen, Others
  <1>2. att[f] \in shutting => Seen(f)
    BY <1>0 DEF NoChildEscapes, Seen
  <1>3. CASE \E c \in Fiber, s \in Scope : Fork(t, c, s)
    <2>1. PICK c \in Fiber, s \in Scope : Fork(t, c, s)
      BY <1>3
    <2>2. /\ att' = [att EXCEPT ![c] = s] /\ won' = [won EXCEPT ![t] = c] /\ shutting' = shutting
          /\ pc' = [pc EXCEPT ![t] = IF s \in shutting THEN "attach" ELSE "push"]
      BY <2>1 DEF Fork, BornLate, objectVars
    <2>3. CASE f = c
      BY <2>2, <2>3 DEF Seen, TypeOK
    <2>4. CASE f # c
      BY <1>1, <1>2, <2>2, <2>4 DEF TypeOK
    <2> QED BY <2>3, <2>4
  <1>4. CASE \E s \in Scope : Shutdown(t, s)
    <2>1. PICK s \in Scope : Shutdown(t, s)
      BY <1>4
    <2>2. /\ shutting' = shutting \cup {s} /\ kids' = [kids EXCEPT ![t] = Children(s)]
          /\ att' = att
      BY <2>1 DEF Shutdown
    <2>3. CASE att[f] = s
      BY <2>2, <2>3 DEF Seen, Children, TypeOK
    <2>4. CASE att[f] # s
      BY <1>1, <1>2, <2>2, <2>4
    <2> QED BY <2>3, <2>4
  <1>5. CASE Detach(t)
    <2>1. att' = [att EXCEPT ![fib[t]] = Nil] /\ shutting' = shutting /\ Nil \notin shutting
      BY <1>5, FibersAssumption DEF Detach, TypeOK
    <2> QED BY <1>1, <1>2, <2>1 DEF TypeOK
  <1>6. CASE \/ Pop(t) \/ Deliver(t) \/ Park(t) \/ Claim(t) \/ WakeCas(t) \/ Push(t) \/ Check(t)
             \/ BornInterrupted(t) \/ InterruptKid(t) \/ Cede(t) \/ EnterMask(t)
             \/ LeaveMask(t) \/ Finish(t)
             \/ \E o \in Promise \cup Fiber : Await(t, o)
             \/ \E p \in Promise : Complete(t, p)
             \/ \E g \in Fiber : InterruptFork(t, g) \/ Interrupt(t, g)
    <2>1. att' = att /\ shutting' = shutting
      BY <1>6 DEF Pop, Deliver, Park, Claim, WakeCas, Push, Check, BornInterrupted,
                  InterruptKid, Cede, EnterMask, LeaveMask, Finish, Await, Complete,
                  InterruptFork, Interrupt, fiberVars, objectVars
    <2> QED BY <1>1, <1>2, <2>1
  <1> QED BY <1>3, <1>4, <1>5, <1>6 DEF Runtime, Program

(* NoChildEscapes is preserved by every step.                              *)
LEMMA ChildNext ==
  ASSUME TypeOK, ThreadShape, Owned, Locals, NoChildEscapes, [Next]_vars
  PROVE  NoChildEscapes'
  <1>1. ASSUME NEW t \in Thread, Runtime(t) \/ Program(t) PROVE NoChildEscapes'
    <2> SUFFICES ASSUME NEW f \in Fiber, att'[f] \in shutting', status'[f] # "Done"
                 PROVE  Seen(f)'
      BY DEF NoChildEscapes, Seen
    <2> QED BY <1>1, ChildStep
  <1>2. CASE UNCHANGED vars
    BY <1>2 DEF vars, fiberVars, objectVars, threadVars, NoChildEscapes
  <1> QED BY <1>1, <1>2 DEF Next

(* Every child of a scope that shutdownScope drains is asked to stop,      *)
(* whether it was there at the snapshot or is forked during the drain.     *)
THEOREM ChildrenAreInterrupted == Spec => []NoChildEscapes
  <1> DEFINE Inv == TypeOK /\ ThreadShape /\ Owned /\ Locals /\ NoChildEscapes
  <1>1. Init => Inv
    <2>1. Init => NoChildEscapes
      BY DEF Init, NoChildEscapes
    <2> QED BY <2>1, TypeInit, OwnedInit, LocalsInit
  <1>2. Inv /\ [Next]_vars => Inv'
    BY TypeNext, OwnedNext, LocalsNext, ChildNext
  <1>3. Inv => NoChildEscapes
    OBVIOUS
  <1> QED BY <1>1, <1>2, <1>3, PTL DEF Spec

=============================================================================
