----------------------------- MODULE RunProofs ------------------------------
(***************************************************************************)
(* Proofs about RunMain, for any fibers and any programs: types, and that  *)
(* main outlives what it forked, that no daemon escapes the drain, and     *)
(* that a drain within its budget leaves none.  Then about race and        *)
(* timeout on it, for any branches, any users' programs and any number of  *)
(* calls of krt2_run_main: the winner came first, and its loser is done    *)
(* when the result is returned.                                            *)
(***************************************************************************)
EXTENDS Race, SequenceTheorems, TLAPS

(* A main fiber ends with the shutdown of its root scope and has no other. *)
MainCode(s) ==
  /\ s \in Seq(Operation \cup {Shutdown})
  /\ \A i \in 1 .. Len(s) : s[i] = Shutdown <=> i = Len(s)

Shaped(f, s) == IF IsMain(f) THEN MainCode(s) ELSE s \in Seq(Operation)

WellFormed == \A f \in Fiber : Shaped(f, cur[f])

(* A fiber in the middle of a fork is at that operation, and nobody else   *)
(* knows the child.                                                        *)
Spawning(f) ==
  /\ status[f] = "Running"
  /\ cur[f] # <<>> /\ Head(cur[f]).op \in {"fork", "forkDaemon"}
  /\ spawning[f].child \in Fiber /\ ~IsMain(spawning[f].child)
  /\ status[spawning[f].child] = "New"
  /\ \A g \in Fiber : spawning[g].child = spawning[f].child => g = f

Spawns == \A f \in Fiber : spawning[f] # Idle => Spawning(f)

Typed == TypeOK /\ WellFormed /\ Spawns

-----------------------------------------------------------------------------
(* Programs as sequences.                                                  *)

(* Only main fibers shut a root scope down.                                *)
LEMMA NoShutdown == Shutdown \notin Operation
  BY RunMainAssumption DEF Shutdown, Op

(* A sequence of one element.                                              *)
LEMMA Single ==
  ASSUME NEW S, NEW s \in Seq(S), Len(s) = 1
  PROVE  s = <<s[1]>> /\ Tail(s) = <<>>
  <1>1. PICK x \in S : x = s[1]
    OBVIOUS
  <1>2. PICK t : t = <<x>>
    OBVIOUS
  <1>3. t \in Seq(S) /\ Len(t) = 1 /\ t[1] = x
    BY <1>2
  <1>4. s = t
    BY <1>1, <1>3, SeqEqual
  <1>5. Tail(s) = <<>>
    <2>1. Tail(s) \in Seq(S) /\ Len(Tail(s)) = 0
      OBVIOUS
    <2> QED BY <2>1, EmptySeq
  <1> QED BY <1>1, <1>2, <1>4, <1>5

(* Executing an operation leaves a program of the same shape.              *)
LEMMA TailShaped ==
  ASSUME NEW f, NEW s, Shaped(f, s), s # <<>>
  PROVE  Shaped(f, Tail(s))
  <1>1. CASE ~IsMain(f)
    <2>1. s \in Seq(Operation)
      BY <1>1 DEF Shaped
    <2>2. Tail(s) \in Seq(Operation)
      BY <2>1
    <2> QED BY <1>1, <2>2 DEF Shaped
  <1>2. CASE IsMain(f)
    <2>1. s \in Seq(Operation \cup {Shutdown}) /\ MainCode(s)
      BY <1>2 DEF Shaped, MainCode
    <2>2. Tail(s) \in Seq(Operation \cup {Shutdown}) /\ Len(Tail(s)) = Len(s) - 1
      BY <2>1
    <2>3. \A i \in 1 .. Len(Tail(s)) : Tail(s)[i] = s[i + 1]
      BY <2>1
    <2>4. ASSUME NEW i \in 1 .. Len(Tail(s))
          PROVE  Tail(s)[i] = Shutdown <=> i = Len(Tail(s))
      <3>1. i + 1 \in 1 .. Len(s) /\ (i + 1 = Len(s) <=> i = Len(Tail(s)))
        BY <2>1, <2>2
      <3>2. Tail(s)[i] = s[i + 1]
        BY <2>3
      <3>3. s[i + 1] = Shutdown <=> i + 1 = Len(s)
        BY <2>1, <3>1 DEF MainCode
      <3> QED BY <3>1, <3>2, <3>3
    <2>5. PICK t : t = Tail(s)
      BY Zenon
    <2>6. t \in Seq(Operation \cup {Shutdown}) /\ \A i \in 1 .. Len(t) : t[i] = Shutdown <=> i = Len(t)
      BY <2>2, <2>4, <2>5, Zenon
    <2> QED BY <1>2, <2>5, <2>6 DEF Shaped, MainCode
  <1> QED BY <1>1, <1>2

(* So does putting operations in the place of one that is not the last     *)
(* of a main fiber, and something is left of the program then.             *)
LEMMA InsertShaped ==
  ASSUME NEW f, NEW s, NEW b \in Seq(Operation), Shaped(f, s), s # <<>>, s[1] # Shutdown
  PROVE  Shaped(f, b \o Tail(s)) /\ (IsMain(f) => Tail(s) # <<>> /\ b \o Tail(s) # <<>>)
  <1>1. CASE ~IsMain(f)
    BY <1>1 DEF Shaped
  <1>2. CASE IsMain(f)
    <2>1. MainCode(Tail(s)) /\ s \in Seq(Operation \cup {Shutdown}) /\ MainCode(s)
      BY <1>2, TailShaped DEF Shaped, MainCode
    <2>2. Len(s) # 1 /\ Len(s) > 0
      BY <2>1 DEF MainCode
    <2> DEFINE t == Tail(s)
    <2>3. t \in Seq(Operation \cup {Shutdown}) /\ Len(t) = Len(s) - 1 /\ Len(t) > 0
      <3>1. t \in Seq(Operation \cup {Shutdown})
        BY <2>1 DEF MainCode
      <3>2. Len(t) = Len(s) - 1 /\ Len(s) \in Nat
        BY <2>1
      <3> QED BY <2>2, <3>1, <3>2
    <2> HIDE DEF t
    <2>4. b \in Seq(Operation \cup {Shutdown})
      OBVIOUS
    <2>5. b \o t \in Seq(Operation \cup {Shutdown}) /\ Len(b \o t) = Len(b) + Len(t)
      BY <2>3, <2>4
    <2>6. \A i \in 1 .. Len(b \o t) : (b \o t)[i] = IF i <= Len(b) THEN b[i] ELSE t[i - Len(b)]
      BY <2>3, <2>4
    <2>7. \A i \in 1 .. Len(b) : b[i] # Shutdown
      BY NoShutdown
    <2>8. \A i \in 1 .. Len(t) : t[i] = Shutdown <=> i = Len(t)
      BY <2>1 DEF MainCode, t
    <2>9. Len(b) \in Nat /\ Len(t) \in Nat
      BY <2>3
    <2>10. ASSUME NEW i \in 1 .. Len(b \o t)
           PROVE  (b \o t)[i] = Shutdown <=> i = Len(b \o t)
      <3>1. CASE i <= Len(b)
        BY <3>1, <2>3, <2>5, <2>6, <2>7, <2>9
      <3>2. CASE ~(i <= Len(b))
        <4>1. i - Len(b) \in 1 .. Len(t)
          BY <3>2, <2>5, <2>9
        <4> QED BY <3>2, <4>1, <2>5, <2>6, <2>8, <2>9
      <3> QED BY <3>1, <3>2
    <2>11. b \o t # <<>>
      BY <2>5, <2>3, <2>9
    <2>12. t # <<>>
      BY <2>3
    <2>13. MainCode(b \o t)
      BY <2>5, <2>10 DEF MainCode
    <2> QED BY <1>2, <2>11, <2>12, <2>13 DEF Shaped, t
  <1> QED BY <1>1, <1>2

(* A program that is followed by the shutdown is one of a main fiber.      *)
LEMMA AppendShaped ==
  ASSUME NEW b \in Seq(Operation)
  PROVE  MainCode(b \o <<Shutdown>>) /\ b \o <<Shutdown>> # <<>>
  <1> DEFINE t == b \o <<Shutdown>>
  <1>1. b \in Seq(Operation \cup {Shutdown}) /\ Len(b) \in Nat
    OBVIOUS
  <1>2. t \in Seq(Operation \cup {Shutdown}) /\ Len(t) = Len(b) + 1
    BY <1>1
  <1>3. \A i \in 1 .. Len(t) : t[i] = IF i <= Len(b) THEN b[i] ELSE Shutdown
    BY <1>1
  <1>4. \A i \in 1 .. Len(b) : b[i] # Shutdown
    BY NoShutdown
  <1> HIDE DEF t
  <1>5. \A i \in 1 .. Len(t) : t[i] = Shutdown <=> i = Len(t)
    BY <1>1, <1>2, <1>3, <1>4
  <1> QED BY <1>1, <1>2, <1>5 DEF MainCode, t

(* What krt2_run_main makes of an action.                                  *)
LEMMA EnsuringShaped ==
  ASSUME NEW a \in Seq(Operation)
  PROVE  MainCode(Ensuring(a)) /\ Ensuring(a) # <<>>
  <1>1. PICK b : b = a \o <<Mask>>
    OBVIOUS
  <1>2. b \in Seq(Operation)
    BY <1>1, RunMainAssumption
  <1>3. Ensuring(a) = b \o <<Shutdown>>
    <2>1. Ensuring(a) = (a \o <<Mask>>) \o <<Shutdown>>
      BY DEF Ensuring
    <2> QED BY <1>1, <2>1
  <1> QED BY <1>2, <1>3, AppendShaped

(* What an interrupt makes a fiber execute.                                *)
LEMMA CleanupShaped ==
  ASSUME NEW f \in Fiber, program \in Program
  PROVE  /\ Shaped(f, Cleanup(f))
         /\ IsMain(f) /\ status[f] # "Queued" => Cleanup(f) # <<>>
         /\ status[f] = "Queued" => Cleanup(f) = <<>>
  <1>1. OnInterrupt[program][f] \in Seq(Operation)
    BY RunMainAssumption
  <1>2. Shaped(f, <<>>)
    BY DEF Shaped, MainCode
  <1>3. OnInterrupt[program][f] \o <<>> = OnInterrupt[program][f]
    BY <1>1
  <1> QED BY <1>1, <1>2, <1>3, AppendShaped DEF Cleanup, Shaped

-----------------------------------------------------------------------------
(* What the steps have in common in which a fiber executes an operation    *)
(* other than a fork: they change its program and may set flags.           *)
Advance(f) ==
  /\ Active(f) /\ cur[f] # <<>>
  /\ status' \in {status, [status EXCEPT ![f] = "Running"]}
  /\ \E s : /\ cur' = [cur EXCEPT ![f] = s]
            /\ Shaped(f, s)
            /\ IsMain(f) /\ s = <<>> => status[f] = "Queued" \/ Root(curScope[f]) \in drained
            /\ cur[f] = <<Shutdown>> => s \in {<<Shutdown>>, <<>>}
  /\ \/ UNCHANGED scopeVars
     \/ /\ IsMain(f) /\ cur[f] = <<Shutdown>> /\ cur'[f] # <<>>
        /\ shutting' = shutting \cup {Root(curScope[f])}
        /\ drained' = IF Children(Root(curScope[f])) = {}
                      THEN drained \cup {Root(curScope[f])} ELSE drained
  /\ asked \subseteq asked' /\ asked' \subseteq Fiber /\ masked' \subseteq Fiber
  /\ signal' \in BOOLEAN /\ order' \in Seq(Fiber)
  /\ UNCHANGED <<program, treeVars, hostVars>>

(* What a fiber at an operation is like.                                   *)
LEMMA AtMeans ==
  ASSUME Typed, NEW f \in Fiber, NEW o, At(f, o)
  PROVE  /\ Active(f) /\ cur[f] # <<>> /\ Shaped(f, cur[f])
         /\ Head(cur[f]) = cur[f][1] /\ Head(cur[f]).op = o
         /\ o # "shutdown" => /\ Head(cur[f]) \in Operation /\ cur[f][1] # Shutdown
                              /\ cur[f] # <<Shutdown>>
         /\ o = "shutdown" => IsMain(f) /\ cur[f] = <<Shutdown>> /\ Tail(cur[f]) = <<>>
  <1>1. cur[f] \in Seq(Operation \cup {Shutdown}) /\ cur[f] # <<>> /\ Head(cur[f]).op = o
    BY DEF At, Typed, TypeOK
  <1>2. Head(cur[f]) = cur[f][1] /\ cur[f][1] \in Operation \cup {Shutdown}
    BY <1>1
  <1>3. Active(f) /\ Shaped(f, cur[f])
    BY DEF At, Typed, WellFormed
  <1>4. Shutdown.op = "shutdown"
    BY DEF Shutdown, Op
  <1>5. ASSUME o # "shutdown"
        PROVE  Head(cur[f]) \in Operation /\ cur[f][1] # Shutdown /\ cur[f] # <<Shutdown>>
    BY <1>1, <1>2, <1>4, <1>5
  <1>6. ASSUME o = "shutdown"
        PROVE  IsMain(f) /\ cur[f] = <<Shutdown>> /\ Tail(cur[f]) = <<>>
    <2>1. cur[f][1] = Shutdown
      BY <1>1, <1>2, <1>6, RunMainAssumption
    <2>2. IsMain(f)
      <3>1. CASE cur[f] \in Seq(Operation)
        BY <3>1, <2>1, <1>1, NoShutdown
      <3> QED BY <3>1, <1>3 DEF Shaped
    <2>3. Len(cur[f]) = 1
      <3>1. 1 \in 1 .. Len(cur[f]) /\ MainCode(cur[f])
        BY <2>2, <1>1, <1>3 DEF Shaped
      <3> QED BY <2>1, <3>1 DEF MainCode
    <2>4. PICK s \in Seq(Operation \cup {Shutdown}) : s = cur[f]
      BY <1>1
    <2> QED BY <2>1, <2>2, <2>3, <2>4, Single
  <1> QED BY <1>1, <1>2, <1>3, <1>5, <1>6

Executes(f) ==
  \/ Deliver(f) \/ Choose(f) \/ TryExitStep(f) \/ Continue(f) \/ Wake(f) \/ MaskOn(f)
  \/ InterruptFork(f) \/ Complete(f) \/ Win(f) \/ ShutdownScope(f)

(* A step to the next operation from one that is not the shutdown.         *)
LEMMA NextAdvances ==
  ASSUME Typed, NEW f \in Fiber, NEW o, o # "shutdown", At(f, o), Next1(f),
         asked \subseteq asked', asked' \subseteq Fiber, masked' \subseteq Fiber,
         signal' \in BOOLEAN, order' \in Seq(Fiber),
         UNCHANGED <<program, treeVars, scopeVars, hostVars>>
  PROVE  Advance(f)
  <1>1. Active(f) /\ cur[f] # <<>> /\ Shaped(f, cur[f]) /\ cur[f][1] # Shutdown /\ cur[f] # <<Shutdown>>
    BY AtMeans
  <1>2. Shaped(f, Tail(cur[f]))
    BY <1>1, TailShaped
  <1>3. ~(IsMain(f) /\ Tail(cur[f]) = <<>>)
    <2>1. <<>> \in Seq(Operation)
      OBVIOUS
    <2> QED BY <1>1, <2>1, InsertShaped
  <1>4. cur' = [cur EXCEPT ![f] = Tail(cur[f])] /\ status' = [status EXCEPT ![f] = "Running"]
    BY DEF Next1, Goto
  <1> QED BY <1>1, <1>2, <1>3, <1>4 DEF Advance

(* So does one that puts operations in the place of the first.             *)
LEMMA InsertAdvances ==
  ASSUME Typed, NEW f \in Fiber, NEW o, o # "shutdown", At(f, o), NEW b \in Seq(Operation),
         cur' = [cur EXCEPT ![f] = b \o Tail(cur[f])],
         status' \in {status, [status EXCEPT ![f] = "Running"]},
         UNCHANGED <<program, masked, asked, treeVars, scopeVars, raceVars, hostVars>>
  PROVE  Advance(f)
  <1>1. Active(f) /\ cur[f] # <<>> /\ Shaped(f, cur[f]) /\ cur[f][1] # Shutdown /\ cur[f] # <<Shutdown>>
    BY AtMeans
  <1>2. Shaped(f, b \o Tail(cur[f])) /\ (IsMain(f) => b \o Tail(cur[f]) # <<>>)
    BY <1>1, InsertShaped
  <1>3. asked' = asked /\ masked' = masked /\ signal' = signal /\ order' = order
    BY DEF raceVars
  <1> QED BY <1>1, <1>2, <1>3 DEF Advance, Typed, TypeOK

(* Every such step of the specification.                                   *)
LEMMA Advances ==
  ASSUME Typed, NEW f \in Fiber, Executes(f)
  PROVE  Advance(f)
  <1> USE DEF Typed
  <1>1. CASE Deliver(f)
    <2>1. cur' = [cur EXCEPT ![f] = Cleanup(f)] /\ status' = [status EXCEPT ![f] = "Running"]
      BY <1>1 DEF Deliver, Goto
    <2>2. /\ Shaped(f, Cleanup(f))
          /\ IsMain(f) /\ Cleanup(f) = <<>> => status[f] = "Queued"
          /\ status[f] = "Queued" => Cleanup(f) = <<>>
      BY CleanupShaped DEF TypeOK
    <2>3. ASSUME cur[f] = <<Shutdown>>
          PROVE  status[f] = "Queued"
      <3>1. Head(cur[f]) = Shutdown
        BY <2>3
      <3>2. Head(cur[f]).op \notin {"await", "sleep"}
        BY <3>1 DEF Shutdown, Op
      <3> QED BY <3>2, <1>1 DEF Deliver, MustDeliver
    <2>4. /\ Active(f) /\ cur[f] # <<>> /\ asked' = asked /\ masked' = masked \cup {f}
          /\ signal' = signal /\ order' = order
          /\ UNCHANGED <<program, treeVars, scopeVars, hostVars>>
      BY <1>1 DEF Deliver, MustDeliver, raceVars
    <2> QED BY <2>1, <2>2, <2>3, <2>4 DEF Advance, TypeOK
  <1>2. CASE Choose(f)
    <2>1. At(f, "either") /\ status' = status
      BY <1>2 DEF Choose
    <2>2. Head(cur[f]) \in Operation /\ Head(cur[f]).op = "either"
      BY <2>1, AtMeans
    <2>3. PICK b \in {Head(cur[f]).some, Head(cur[f]).none} :
            cur' = [cur EXCEPT ![f] = b \o Tail(cur[f])]
      BY <1>2 DEF Choose
    <2>4. b \in Seq(Operation)
      BY <2>2, <2>3, RunMainAssumption
    <2> QED BY <1>2, <2>1, <2>3, <2>4, InsertAdvances DEF Choose
  <1>3. CASE TryExitStep(f)
    <2>1. At(f, "tryExit") /\ status' = [status EXCEPT ![f] = "Running"]
      BY <1>3 DEF TryExitStep, Goto
    <2>2. Head(cur[f]) \in Operation /\ Head(cur[f]).op = "tryExit"
      BY <2>1, AtMeans
    <2>3. PICK b \in {Head(cur[f]).some, Head(cur[f]).none} :
            cur' = [cur EXCEPT ![f] = b \o Tail(cur[f])]
      BY <1>3 DEF TryExitStep, Goto
    <2>4. b \in Seq(Operation)
      BY <2>2, <2>3, RunMainAssumption
    <2> QED BY <1>3, <2>1, <2>3, <2>4, InsertAdvances DEF TryExitStep
  <1>4. CASE Continue(f) \/ Wake(f)
    <2>1. PICK o \in {"sleepZero", "cleanup", "await", "sleep"} : At(f, o)
      BY <1>4 DEF Continue, Wake
    <2>2. /\ Next1(f) /\ UNCHANGED <<program, masked, asked, treeVars, scopeVars, hostVars>>
          /\ signal' = signal /\ order' = order
      BY <1>4 DEF Continue, Wake, raceVars
    <2> QED BY <2>1, <2>2, NextAdvances DEF TypeOK
  <1>5. CASE MaskOn(f)
    <2>1. /\ At(f, "mask") /\ Next1(f) /\ masked' = masked \cup {f}
          /\ UNCHANGED <<program, asked, treeVars, scopeVars, hostVars>>
          /\ signal' = signal /\ order' = order
      BY <1>5 DEF MaskOn, raceVars
    <2> QED BY <2>1, NextAdvances DEF TypeOK
  <1>6. CASE InterruptFork(f)
    <2>1. /\ At(f, "interruptFork") /\ Next1(f) /\ asked' = asked \cup {Head(cur[f]).obj}
          /\ UNCHANGED <<program, masked, treeVars, scopeVars, hostVars>>
          /\ signal' = signal /\ order' = order
      BY <1>6 DEF InterruptFork, raceVars
    <2>2. Head(cur[f]).obj \in Fiber
      <3>1. Head(cur[f]) \in Operation /\ Head(cur[f]).op = "interruptFork"
        BY <2>1, AtMeans
      <3> QED BY <3>1, RunMainAssumption
    <2> QED BY <2>1, <2>2, NextAdvances DEF TypeOK
  <1>7. CASE Complete(f)
    <2>1. /\ At(f, "complete") /\ Next1(f) /\ signal' = TRUE
          /\ order' \in {order, Append(order, f)}
          /\ UNCHANGED <<program, masked, asked, treeVars, scopeVars, hostVars>>
      BY <1>7 DEF Complete
    <2>2. order' \in Seq(Fiber)
      <3>1. order \in Seq(Fiber)
        BY DEF TypeOK
      <3>2. Append(order, f) \in Seq(Fiber)
        BY <3>1
      <3> QED BY <2>1, <3>1, <3>2
    <2> QED BY <2>1, <2>2, NextAdvances DEF TypeOK
  <1>8. CASE Win(f)
    <2>1. /\ At(f, "won") /\ Next1(f) /\ signal' = signal /\ order' = order
          /\ UNCHANGED <<program, masked, asked, treeVars, scopeVars, hostVars>>
      BY <1>8 DEF Win
    <2> QED BY <2>1, NextAdvances DEF TypeOK
  <1>9. CASE ShutdownScope(f)
    <2> DEFINE s == Root(curScope[f])
    <2>1. /\ IsMain(f) /\ cur[f] = <<Shutdown>> /\ Tail(cur[f]) = <<>>
          /\ Active(f) /\ cur[f] # <<>> /\ Shaped(f, cur[f])
      BY <1>9, AtMeans DEF ShutdownScope
    <2>2. /\ masked' = masked /\ signal' = signal /\ order' = order
          /\ UNCHANGED <<program, treeVars, hostVars>>
      BY <1>9 DEF ShutdownScope, raceVars
    <2>3. CASE s \notin shutting
      <3>1. /\ shutting' = shutting \cup {s}
            /\ drained' = IF Children(s) = {} THEN drained \cup {s} ELSE drained
            /\ asked' = asked \cup Children(s)
            /\ UNCHANGED <<status, cur>>
        BY <1>9, <2>3 DEF ShutdownScope
      <3>2. cur' = [cur EXCEPT ![f] = cur[f]] /\ cur'[f] = <<Shutdown>> /\ cur'[f] # <<>>
        BY <3>1, <2>1 DEF TypeOK
      <3>3. asked' \subseteq Fiber
        BY <3>1 DEF Children, TypeOK
      <3> QED BY <2>1, <2>2, <3>1, <3>2, <3>3 DEF Advance, TypeOK
    <2>4. CASE s \in shutting
      <3>1. s \in drained /\ UNCHANGED <<scopeVars, asked>>
        BY <1>9, <2>4 DEF ShutdownScope, Drained
      <3>2. cur' = [cur EXCEPT ![f] = Tail(cur[f])] /\ status' = [status EXCEPT ![f] = "Running"]
        BY <1>9, <2>4 DEF ShutdownScope, Next1, Goto
      <3>3. Shaped(f, Tail(cur[f]))
        BY <2>1, TailShaped
      <3> QED BY <2>1, <2>2, <3>1, <3>2, <3>3 DEF Advance, TypeOK
    <2> QED BY <2>3, <2>4
  <1> QED BY <1>1, <1>2, <1>3, <1>4, <1>5, <1>6, <1>7, <1>8, <1>9 DEF Executes

-----------------------------------------------------------------------------
(* Types.                                                                  *)

(* A main fiber that is published.                                         *)
LEMMA PublishMeans ==
  ASSUME Typed, Publish
  PROVE  \E n \in DOMAIN Mains :
           /\ n = run + 1 /\ run' = n /\ dscope' = n /\ n \in 1 .. Calls[program]
           /\ Mains[n] \in Fiber /\ IsMain(Mains[n])
           /\ status' = [status EXCEPT ![Mains[n]] = "Queued"]
           /\ cur' = [cur EXCEPT ![Mains[n]] = Ensuring(Code[program][Mains[n]])]
           /\ MainCode(Ensuring(Code[program][Mains[n]])) /\ Ensuring(Code[program][Mains[n]]) # <<>>
           /\ curScope' = [curScope EXCEPT ![Mains[n]] = n]
           /\ kin' = kin \cup {Mains[n]}
  <1>1. program \in Program /\ run \in Nat /\ run < Calls[program] /\ Calls[program] \in 0 .. Len(Mains)
    <2>1. program \in Program /\ Calls[program] \in 0 .. Len(Mains) /\ Len(Mains) \in Nat
      BY RunMainAssumption DEF Typed, TypeOK
    <2>2. run \in 0 .. Calls[program] /\ run < Calls[program]
      BY DEF Typed, TypeOK, Publish
    <2> QED BY <2>1, <2>2
  <1>2. PICK n : n = run + 1
    OBVIOUS
  <1>3. Len(Mains) \in Nat /\ DOMAIN Mains = 1 .. Len(Mains)
    BY RunMainAssumption
  <1>4. n \in 1 .. Calls[program] /\ n \in DOMAIN Mains
    BY <1>1, <1>2, <1>3
  <1>5. Mains[n] \in Fiber /\ IsMain(Mains[n])
    BY <1>4, RunMainAssumption DEF IsMain
  <1>6. Code[program][Mains[n]] \in Seq(Operation)
    BY <1>1, <1>5, RunMainAssumption
  <1>7. MainCode(Ensuring(Code[program][Mains[n]])) /\ Ensuring(Code[program][Mains[n]]) # <<>>
    BY <1>6, EnsuringShaped
  <1> QED BY <1>2, <1>4, <1>5, <1>7 DEF Publish

(* What krt2i_spawn_from reads.                                            *)
Reads(f, c, s) ==
  LET daemon == Head(cur[f]).op = "forkDaemon"
  IN /\ Active(f) /\ cur[f] # <<>> /\ Head(cur[f]).op \in {"fork", "forkDaemon"}
     /\ c = Head(cur[f]).obj /\ c \in Fiber /\ ~IsMain(c) /\ c # f
     /\ status[c] = "Unborn"
     /\ s = IF ~daemon THEN Root(curScope[f])
            ELSE IF dscope # 0 THEN Daemons(dscope) ELSE NoScope
     /\ s \in {"root", "daemons", "none"} \X Nat
     /\ Code[program][c] \in Seq(Operation)
     /\ spawning' = [spawning EXCEPT ![f] = [child |-> c, scope |-> s]]
     /\ status' = [status EXCEPT ![f] = "Running", ![c] = "New"]
     /\ cur' = [cur EXCEPT ![c] = Code[program][c]]
     /\ curScope' = [curScope EXCEPT ![c] = curScope[f]]
     /\ masked' \subseteq masked \cup {c}
     /\ home' = [home EXCEPT ![c] = IF daemon /\ host # "idle" THEN run ELSE 0]
     /\ kin' = IF f \in kin /\ ~daemon THEN kin \cup {c} ELSE kin
     /\ UNCHANGED <<program, asked, att, scopeVars, raceVars, hostVars>>

(* The beginning of a fork is such a read.                                 *)
LEMMA SpawnReadMeans ==
  ASSUME Typed, NEW f \in Fiber, SpawnRead(f)
  PROVE  \E c, s : Reads(f, c, s)
  <1>1. PICK o \in {"fork", "forkDaemon"} : At(f, o)
    BY DEF SpawnRead
  <1>2. /\ Active(f) /\ cur[f] # <<>> /\ Head(cur[f]).op = o /\ Head(cur[f]) \in Operation
    BY <1>1, AtMeans
  <1>3. PICK c : c = Head(cur[f]).obj
    OBVIOUS
  <1>4. c \in Fiber /\ ~IsMain(c)
    BY <1>2, <1>3, RunMainAssumption DEF IsMain
  <1>5. status[c] = "Unborn"
    BY <1>3 DEF SpawnRead
  <1>6. c # f
    BY <1>2, <1>5 DEF Active
  <1>7. PICK s : s = IF Head(cur[f]).op # "forkDaemon" THEN Root(curScope[f])
                     ELSE IF dscope # 0 THEN Daemons(dscope) ELSE NoScope
    OBVIOUS
  <1>8. s \in {"root", "daemons", "none"} \X Nat
    <2>1. dscope \in Nat /\ curScope[f] \in Nat
      <3>1. program \in Program /\ Calls[program] \in Nat
        BY RunMainAssumption DEF Typed, TypeOK
      <3> QED BY <3>1 DEF Typed, TypeOK
    <2> QED BY <2>1, <1>7 DEF Root, Daemons, NoScope
  <1>9. Code[program][c] \in Seq(Operation)
    BY <1>4, RunMainAssumption DEF Typed, TypeOK
  <1>10. Reads(f, c, s)
    BY <1>1, <1>2, <1>3, <1>4, <1>5, <1>6, <1>7, <1>8, <1>9 DEF SpawnRead, Reads
  <1> QED BY <1>10

(* The shapes are shapes of sequences of operations.                       *)
LEMMA ShapedSeq ==
  ASSUME NEW f, NEW s, Shaped(f, s)
  PROVE  s \in Seq(Operation \cup {Shutdown})
  BY DEF Shaped, MainCode

(* An idle fiber's locals name no child.                                   *)
LEMMA IdleMeans ==
  ASSUME Typed, NEW f \in Fiber
  PROVE  /\ spawning[f] # Idle <=> spawning[f].child \in Fiber
         /\ spawning[f] = Idle => spawning[f].child \notin Fiber
  BY RunMainAssumption DEF Typed, Spawns, Spawning, Idle

(* An operation keeps the types.                                           *)
LEMMA TypedAdvance ==
  ASSUME Typed, NEW f \in Fiber, Advance(f)
  PROVE  Typed'
  <1>1. PICK s : cur' = [cur EXCEPT ![f] = s] /\ Shaped(f, s)
    BY DEF Advance
  <1>2. s \in Seq(Operation \cup {Shutdown})
    BY <1>1, ShapedSeq
  <1>3. cur' \in [Fiber -> Seq(Operation \cup {Shutdown})]
    BY <1>1, <1>2 DEF Typed, TypeOK
  <1>4. shutting' \subseteq {"root", "daemons"} \X Nat /\ drained' \subseteq shutting'
    <2>1. Root(curScope[f]) \in {"root", "daemons"} \X Nat
      BY DEF Typed, TypeOK, Root
    <2> QED BY <2>1 DEF Typed, TypeOK, Advance, scopeVars
  <1>5. status' \in [Fiber -> {"Unborn", "New", "Queued", "Running", "Done", "Detached"}]
    BY DEF Typed, TypeOK, Advance
  <1>6. TypeOK'
    BY <1>3, <1>4, <1>5 DEF Typed, TypeOK, Advance, treeVars, hostVars
  <1>7. WellFormed'
    <2>1. ASSUME NEW g \in Fiber
          PROVE  Shaped(g, cur'[g])
      BY <2>1, <1>1 DEF Typed, TypeOK, WellFormed
    <2> QED BY <2>1 DEF WellFormed, Shaped, MainCode, IsMain
  <1>8. Spawns'
    <2>1. ASSUME NEW g \in Fiber, spawning'[g] # Idle
          PROVE  Spawning(g)'
      <3>1. spawning' = spawning /\ g # f /\ Spawning(g)
        BY <2>1 DEF Advance, treeVars, Active, Typed, Spawns
      <3>2. spawning[g].child # f
        BY <3>1 DEF Spawning, Advance, Active
      <3>3. cur'[g] = cur[g]
        BY <3>1, <1>1 DEF Typed, TypeOK
      <3>4. \A h \in Fiber : h # f => status'[h] = status[h]
        BY DEF Advance, Typed, TypeOK
      <3>5. status'[g] = status[g] /\ status'[spawning[g].child] = "New"
        BY <3>1, <3>2, <3>4 DEF Spawning
      <3> QED BY <3>1, <3>3, <3>5 DEF Spawning, IsMain
    <2> QED BY <2>1 DEF Spawns, Idle, NoScope
  <1> QED BY <1>6, <1>7, <1>8 DEF Typed

(* So does the beginning of a fork.                                        *)
LEMMA TypedSpawnRead ==
  ASSUME Typed, NEW f \in Fiber, NEW c, NEW s, Reads(f, c, s)
  PROVE  Typed'
  <1> USE DEF Reads
  <1>1. c \in Fiber /\ ~IsMain(c) /\ c # f /\ status[c] = "Unborn"
    OBVIOUS
  <1>2. program \in Program /\ run \in Nat
    <2>1. program \in Program /\ Calls[program] \in Nat
      BY RunMainAssumption DEF Typed, TypeOK
    <2> QED BY <2>1 DEF Typed, TypeOK
  <1>3. cur' \in [Fiber -> Seq(Operation \cup {Shutdown})]
    <2>1. Code[program][c] \in Seq(Operation \cup {Shutdown})
      OBVIOUS
    <2> QED BY <1>1, <2>1 DEF Typed, TypeOK
  <1>4. status' \in [Fiber -> {"Unborn", "New", "Queued", "Running", "Done", "Detached"}]
    BY <1>1 DEF Typed, TypeOK
  <1>5. spawning' \in [Fiber -> [child : Fiber \cup {"none"}, scope : {"root", "daemons", "none"} \X Nat]]
    BY <1>1 DEF Typed, TypeOK
  <1>6. curScope' \in [Fiber -> Nat] /\ home' \in [Fiber -> Nat]
    BY <1>1, <1>2 DEF Typed, TypeOK
  <1>7. kin' \subseteq Fiber /\ masked' \subseteq Fiber
    BY <1>1 DEF Typed, TypeOK
  <1>8. TypeOK'
    BY <1>3, <1>4, <1>5, <1>6, <1>7 DEF Typed, TypeOK, scopeVars, raceVars, hostVars
  <1>9. WellFormed'
    <2>1. ASSUME NEW g \in Fiber
          PROVE  Shaped(g, cur'[g])
      BY <2>1, <1>1 DEF Typed, TypeOK, WellFormed, Shaped
    <2> QED BY <2>1 DEF WellFormed, Shaped, MainCode, IsMain
  <1>10. Spawns'
    <2>1. ASSUME NEW g \in Fiber, spawning'[g] # Idle
          PROVE  Spawning(g)'
      <3>1. CASE g = f
        <4>1. spawning'[f] = [child |-> c, scope |-> s] /\ status'[c] = "New" /\ status'[f] = "Running"
                /\ cur'[f] = cur[f]
          BY <1>1 DEF Typed, TypeOK
        <4>2. ASSUME NEW h \in Fiber, h # f
              PROVE  spawning'[h].child # c
          <5>1. spawning'[h] = spawning[h]
            BY <4>2 DEF Typed, TypeOK
          <5> QED BY <5>1, <1>1, IdleMeans DEF Typed, Spawns, Spawning
        <4> QED BY <3>1, <4>1, <4>2, <1>1 DEF Spawning, IsMain
      <3>2. CASE g # f
        <4>1. spawning'[g] = spawning[g] /\ Spawning(g)
          BY <2>1, <3>2 DEF Typed, TypeOK, Spawns
        <4>2. spawning[g].child # c /\ spawning[g].child # f /\ g # c
          BY <4>1, <1>1 DEF Spawning, Active
        <4>3. cur'[g] = cur[g] /\ status'[g] = status[g] /\ status'[spawning[g].child] = "New"
          BY <4>1, <4>2, <3>2, <1>1 DEF Spawning, Typed, TypeOK
        <4>4. ASSUME NEW h \in Fiber, spawning'[h].child = spawning[g].child
              PROVE  h = g
          BY <4>4, <4>1, <4>2 DEF Spawning, Typed, TypeOK
        <4> QED BY <4>1, <4>3, <4>4 DEF Spawning, IsMain
      <3> QED BY <3>1, <3>2
    <2> QED BY <2>1 DEF Spawns, Idle, NoScope
  <1> QED BY <1>8, <1>9, <1>10 DEF Typed

(* What a fiber that attaches its child is like.                           *)
LEMMA SpawnAttachMeans ==
  ASSUME Typed, NEW f \in Fiber, SpawnAttach(f)
  PROVE  /\ spawning[f] # Idle /\ Spawning(f)
         /\ spawning[f].child \in Fiber /\ status[spawning[f].child] = "New"
         /\ spawning[f].scope \in {"root", "daemons", "none"} \X Nat
  <1>1. spawning[f].scope # NoScope /\ Idle.scope = NoScope
    BY DEF SpawnAttach, Idle
  <1>2. spawning[f] # Idle
    BY <1>1
  <1>3. Spawning(f)
    BY <1>2 DEF Typed, Spawns
  <1> QED BY <1>2, <1>3 DEF Spawning, Typed, TypeOK

(* The child's entry in its scope and the interrupt it may be born with.   *)
LEMMA TypedSpawnAttach ==
  ASSUME Typed, NEW f \in Fiber, SpawnAttach(f)
  PROVE  Typed'
  <1>1. spawning[f].child \in Fiber /\ spawning[f].scope \in {"root", "daemons", "none"} \X Nat
    BY SpawnAttachMeans
  <1>2. att' \in [Fiber -> {"root", "daemons", "none"} \X Nat]
    BY <1>1 DEF SpawnAttach, Typed, TypeOK
  <1>3. asked' \subseteq Fiber
    BY <1>1 DEF SpawnAttach, BornInterrupted, Typed, TypeOK
  <1>4. TypeOK'
    BY <1>2, <1>3 DEF SpawnAttach, Typed, TypeOK, scopeVars, raceVars, hostVars
  <1>5. WellFormed' /\ Spawns'
    BY DEF SpawnAttach, Typed, WellFormed, Shaped, MainCode, IsMain, Spawns, Spawning, Idle, NoScope
  <1> QED BY <1>4, <1>5 DEF Typed

(* What a fiber that ends its fork is like: it goes on with the rest of    *)
(* its program, in which something is left if it is a main fiber.          *)
Pushes(f, c) ==
  /\ spawning[f] # Idle /\ Spawning(f) /\ c = spawning[f].child /\ c \in Fiber /\ c # f
  /\ status[f] = "Running" /\ status[c] = "New" /\ ~IsMain(c) /\ att[c] = spawning[f].scope
  /\ \A g \in Fiber : spawning[g].child = c => g = f
  /\ Shaped(f, Tail(cur[f])) /\ cur[f] # <<>> /\ cur[f] # <<Shutdown>>
  /\ IsMain(f) => Tail(cur[f]) # <<>>
  /\ status' = [status EXCEPT ![c] = "Queued"]
  /\ cur' = [cur EXCEPT ![f] = Tail(cur[f])]
  /\ spawning' = [spawning EXCEPT ![f] = Idle]
  /\ UNCHANGED <<program, masked, asked, curScope, att, home, kin, scopeVars, raceVars, hostVars>>

(* Every such step is one.                                                 *)
LEMMA SpawnPushMeans ==
  ASSUME Typed, NEW f \in Fiber, SpawnPush(f)
  PROVE  \E c : Pushes(f, c)
  <1>1. spawning[f] # Idle /\ Spawning(f)
    BY DEF SpawnPush, Typed, Spawns
  <1>2. PICK c : c = spawning[f].child
    OBVIOUS
  <1>3. cur[f] \in Seq(Operation \cup {Shutdown}) /\ cur[f] # <<>> /\ Shaped(f, cur[f])
    BY <1>1 DEF Spawning, Typed, TypeOK, WellFormed
  <1>4. Head(cur[f]) = cur[f][1] /\ Shutdown.op = "shutdown" /\ Head(cur[f]).op # "shutdown"
    BY <1>1, <1>3 DEF Spawning, Shutdown, Op
  <1>5. cur[f][1] # Shutdown /\ cur[f] # <<Shutdown>>
    BY <1>4
  <1>6. Shaped(f, Tail(cur[f]))
    BY <1>3, TailShaped
  <1>7. IsMain(f) => Tail(cur[f]) # <<>>
    <2>1. <<>> \in Seq(Operation)
      OBVIOUS
    <2> QED BY <1>3, <1>5, <2>1, InsertShaped
  <1>8. Pushes(f, c)
    BY <1>1, <1>2, <1>3, <1>5, <1>6, <1>7 DEF Pushes, Spawning, SpawnPush
  <1> QED BY <1>8

(* The end of a fork keeps the types.                                      *)
LEMMA TypedSpawnPush ==
  ASSUME Typed, NEW f \in Fiber, NEW c, Pushes(f, c)
  PROVE  Typed'
  <1> USE DEF Pushes
  <1>1. cur' \in [Fiber -> Seq(Operation \cup {Shutdown})]
    <2>1. Tail(cur[f]) \in Seq(Operation \cup {Shutdown})
      BY ShapedSeq
    <2> QED BY <2>1 DEF Typed, TypeOK
  <1>2. status' \in [Fiber -> {"Unborn", "New", "Queued", "Running", "Done", "Detached"}]
    BY DEF Typed, TypeOK
  <1>3. spawning' \in [Fiber -> [child : Fiber \cup {"none"}, scope : {"root", "daemons", "none"} \X Nat]]
    BY DEF Typed, TypeOK, Idle, NoScope
  <1>4. TypeOK'
    BY <1>1, <1>2, <1>3 DEF Typed, TypeOK, scopeVars, raceVars, hostVars
  <1>5. WellFormed'
    <2>1. ASSUME NEW g \in Fiber
          PROVE  Shaped(g, cur'[g])
      BY <2>1 DEF Typed, TypeOK, WellFormed
    <2> QED BY <2>1 DEF WellFormed, Shaped, MainCode, IsMain
  <1>6. Spawns'
    <2>1. ASSUME NEW g \in Fiber, spawning'[g] # Idle
          PROVE  Spawning(g)'
      <3>1. g # f /\ spawning'[g] = spawning[g] /\ Spawning(g)
        BY <2>1 DEF Typed, TypeOK, Spawns
      <3>2. spawning[g].child # c /\ g # c
        BY <3>1 DEF Spawning
      <3>3. cur'[g] = cur[g] /\ status'[g] = status[g] /\ status'[spawning[g].child] = "New"
        BY <3>1, <3>2 DEF Spawning, Typed, TypeOK
      <3>4. ASSUME NEW h \in Fiber, spawning'[h].child = spawning[g].child
            PROVE  h = g
        BY <3>4, <3>1, RunMainAssumption DEF Spawning, Typed, TypeOK, Idle
      <3> QED BY <3>1, <3>3, <3>4 DEF Spawning, IsMain
    <2> QED BY <2>1 DEF Spawns, Idle, NoScope
  <1> QED BY <1>4, <1>5, <1>6 DEF Typed

(* So does the end of a fiber, which is not in the middle of a fork.       *)
LEMMA TypedEnds ==
  ASSUME Typed, NEW f \in Fiber, Finish(f) \/ Detach(f)
  PROVE  Typed'
  <1>1. spawning[f] = Idle /\ status[f] # "New"
    BY DEF Finish, Detach, Active, Typed, Spawns, Spawning
  <1>2. PICK v \in {"Done", "Detached"} : status' = [status EXCEPT ![f] = v]
    BY DEF Finish, Detach
  <1>3. status' \in [Fiber -> {"Unborn", "New", "Queued", "Running", "Done", "Detached"}]
    BY <1>2 DEF Typed, TypeOK
  <1>4. cur' = cur /\ spawning' = spawning
    BY DEF Finish, Detach, treeVars
  <1>5. order' \in Seq(Fiber)
    <2>1. order \in Seq(Fiber)
      BY DEF Typed, TypeOK
    <2>2. Append(order, f) \in Seq(Fiber)
      BY <2>1
    <2> QED BY <2>1, <2>2 DEF Finish, Detach, raceVars
  <1>6. att' \in [Fiber -> {"root", "daemons", "none"} \X Nat]
    <2>1. att' \in {att, [att EXCEPT ![f] = NoScope]}
      BY DEF Finish, Detach, treeVars
    <2>2. NoScope \in {"root", "daemons", "none"} \X Nat
      BY DEF NoScope
    <2> QED BY <2>1, <2>2 DEF Typed, TypeOK
  <1>7. drained' \subseteq shutting' /\ shutting' = shutting
    BY DEF Finish, Detach, LeavesLast, scopeVars, Typed, TypeOK
  <1>8. host' \in {host, "recheck"}
    BY DEF Finish, Detach, hostVars
  <1>9. TypeOK'
    BY <1>3, <1>4, <1>5, <1>6, <1>7, <1>8
       DEF Finish, Detach, Typed, TypeOK, treeVars, raceVars, hostVars
  <1>10. WellFormed'
    BY <1>4 DEF Typed, WellFormed, Shaped, MainCode, IsMain
  <1>11. Spawns'
    <2>1. ASSUME NEW g \in Fiber, spawning'[g] # Idle
          PROVE  Spawning(g)'
      <3>1. Spawning(g) /\ g # f
        BY <2>1, <1>1, <1>4 DEF Typed, Spawns
      <3>2. spawning[g].child # f
        BY <3>1, <1>1 DEF Spawning
      <3> QED BY <3>1, <3>2, <1>2, <1>4 DEF Spawning, IsMain, Typed, TypeOK
    <2> QED BY <2>1 DEF Spawns, Idle, NoScope
  <1> QED BY <1>9, <1>10, <1>11 DEF Typed

(* The main fibers of calls to come are not born.                          *)
ToCome == \A n \in DOMAIN Mains : n > run => status[Mains[n]] = "Unborn"

(* A call of krt2_run_main keeps the types.                                *)
LEMMA TypedPublish ==
  ASSUME Typed, ToCome, Publish
  PROVE  Typed'
  <1>1. PICK n \in DOMAIN Mains :
          /\ n = run + 1 /\ run' = n /\ dscope' = n /\ n \in 1 .. Calls[program]
          /\ Mains[n] \in Fiber /\ IsMain(Mains[n])
          /\ status' = [status EXCEPT ![Mains[n]] = "Queued"]
          /\ cur' = [cur EXCEPT ![Mains[n]] = Ensuring(Code[program][Mains[n]])]
          /\ MainCode(Ensuring(Code[program][Mains[n]])) /\ Ensuring(Code[program][Mains[n]]) # <<>>
          /\ curScope' = [curScope EXCEPT ![Mains[n]] = n]
          /\ kin' = kin \cup {Mains[n]}
    BY PublishMeans
  <1>2. PICK m : m = Mains[n]
    OBVIOUS
  <1>3. PICK s : s = Ensuring(Code[program][m])
    OBVIOUS
  <1>4. /\ m \in Fiber /\ IsMain(m) /\ Shaped(m, s) /\ s \in Seq(Operation \cup {Shutdown})
        /\ status' = [status EXCEPT ![m] = "Queued"] /\ cur' = [cur EXCEPT ![m] = s]
        /\ curScope' = [curScope EXCEPT ![m] = n] /\ kin' = kin \cup {m}
    BY <1>1, <1>2, <1>3 DEF Shaped, MainCode
  <1>5. n \in Nat /\ n > run
    <2>1. run \in Nat
      <3>1. program \in Program /\ Calls[program] \in Nat
        BY RunMainAssumption DEF Typed, TypeOK
      <3> QED BY <3>1 DEF Typed, TypeOK
    <2> QED BY <2>1, <1>1
  <1>6. status[m] = "Unborn"
    BY <1>2, <1>5 DEF ToCome
  <1>7. /\ program' = program /\ run' \in 0 .. Calls[program] /\ dscope' \in 0 .. Calls[program]
        /\ host' = "waitMain" /\ mainDone' = FALSE
        /\ UNCHANGED <<masked, asked, att, spawning, scopeVars, raceVars, home, kids, snap, expired>>
    BY <1>1 DEF Publish
  <1>8. status' \in [Fiber -> {"Unborn", "New", "Queued", "Running", "Done", "Detached"}]
    BY <1>4 DEF Typed, TypeOK
  <1>9. cur' \in [Fiber -> Seq(Operation \cup {Shutdown})]
    BY <1>4 DEF Typed, TypeOK
  <1>10. curScope' \in [Fiber -> Nat] /\ kin' \subseteq Fiber
    BY <1>4, <1>5 DEF Typed, TypeOK
  <1>11. TypeOK'
    BY <1>7, <1>8, <1>9, <1>10 DEF Typed, TypeOK, scopeVars, raceVars
  <1>12. WellFormed'
    <2>1. ASSUME NEW g \in Fiber
          PROVE  Shaped(g, cur'[g])
      BY <2>1, <1>4 DEF Typed, TypeOK, WellFormed
    <2> QED BY <2>1 DEF WellFormed, Shaped, MainCode, IsMain
  <1>13. Spawns'
    <2>1. ASSUME NEW g \in Fiber, spawning'[g] # Idle
          PROVE  Spawning(g)'
      <3>1. Spawning(g) /\ spawning' = spawning
        BY <2>1, <1>7 DEF Typed, Spawns
      <3>2. spawning[g].child # m /\ g # m
        BY <3>1, <1>6 DEF Spawning
      <3> QED BY <3>1, <3>2, <1>4 DEF Spawning, IsMain, Typed, TypeOK
    <2> QED BY <2>1 DEF Spawns, Idle, NoScope
  <1> QED BY <1>11, <1>12, <1>13 DEF Typed

(* So do the other steps of the host, and the latch.                       *)
LEMMA TypedHost ==
  ASSUME Typed,
         UNCHANGED vars \/ (\E f \in Fiber : Latch(f)) \/ HostStep \/ DrainSpurious \/ DrainExpires
  PROVE  Typed'
  <1>1. UNCHANGED <<program, status, cur, masked, treeVars, raceVars, run>>
    BY DEF vars, fiberVars, hostVars, Latch, HostStep, MainReturned, DrainBegin,
           DrainInterrupt, DrainCheck, Return, DrainSpurious, DrainExpires
  <1>2. run \in Nat /\ 0 \in 0 .. Calls[program]
    <2>1. program \in Program /\ Calls[program] \in Nat
      BY RunMainAssumption DEF Typed, TypeOK
    <2> QED BY <2>1 DEF Typed, TypeOK
  <1>3. asked' \subseteq Fiber
    BY DEF Typed, TypeOK, vars, fiberVars, hostVars, Latch, HostStep, MainReturned, DrainBegin,
           DrainInterrupt, DrainCheck, Return, DrainSpurious, DrainExpires
  <1>4. /\ shutting' \subseteq {"root", "daemons"} \X Nat /\ drained' \subseteq shutting'
        /\ kids' \subseteq snap' /\ snap' \subseteq Fiber
    <2>1. CASE DrainBegin
      BY <2>1, <1>2 DEF Typed, TypeOK, DrainBegin, Daemons, Children
    <2>2. CASE ~DrainBegin
      BY <2>2 DEF Typed, TypeOK, vars, fiberVars, scopeVars, hostVars, Latch, HostStep, MainReturned,
           DrainInterrupt, DrainCheck, Return, DrainSpurious, DrainExpires
    <2> QED BY <2>1, <2>2
  <1>5. /\ host' \in {"idle", "waitMain", "drain", "interrupt", "recheck", "timedwait", "drained"}
        /\ dscope' \in 0 .. Calls[program] /\ mainDone' \in BOOLEAN /\ expired' \subseteq Nat
    BY <1>2 DEF Typed, TypeOK, vars, fiberVars, scopeVars, hostVars, Latch, HostStep, MainReturned, DrainBegin,
           DrainInterrupt, DrainCheck, Return, DrainSpurious, DrainExpires, StaysPublished
  <1>6. TypeOK'
    BY <1>1, <1>3, <1>4, <1>5 DEF Typed, TypeOK, treeVars, raceVars
  <1>7. WellFormed' /\ Spawns'
    BY <1>1 DEF Typed, WellFormed, Shaped, MainCode, IsMain, Spawns, Spawning, Idle, NoScope, treeVars
  <1> QED BY <1>6, <1>7 DEF Typed

-----------------------------------------------------------------------------
(* Where a fiber is attached: a child between its fork and its end in the  *)
(* scope its spawner read, a main fiber in none.                           *)
Place(f) ==
  /\ f \in kin => status[f] # "Unborn" /\ curScope[f] \in 1 .. run
  /\ status[f] = "Unborn" => att[f] = NoScope /\ home[f] = 0
  /\ status[f] = "New" => \E g \in Fiber : spawning[g].child = f
  /\ status[f] \in {"Queued", "Running", "Done"} =>
       /\ home[f] # 0 => att[f] = Daemons(home[f])
       /\ f \in kin /\ ~IsMain(f) => att[f] = Root(curScope[f])
  /\ home[f] \in 0 .. run

(* What the spawner knows of its child.                                    *)
Parent(g) ==
  LET c == spawning[g].child
      s == spawning[g].scope
  IN /\ att[c] \in {NoScope, s}
     /\ home[c] # 0 => s = Daemons(home[c])
     /\ c \in kin => g \in kin /\ curScope[c] = curScope[g] /\ s = Root(curScope[c])

Tree ==
  /\ \A f \in Fiber : Place(f)
  /\ \A g \in Fiber : spawning[g] # Idle => Parent(g)

(* The drain of a run's daemons: the scope stays marked, and whoever is in *)
(* it then has been asked to stop or is about to be.                       *)
Draining == {"interrupt", "recheck", "timedwait", "drained", "idle"}

Marked == \A n \in 1 .. run : n < run \/ host \in Draining => Daemons(n) \in shutting

Asked ==
  \A f \in Fiber, n \in Nat :
    att[f] = Daemons(n) /\ Daemons(n) \in shutting =>
      f \in asked \/ (host = "interrupt" /\ n = run /\ f \in kids)

Snapped ==
  /\ host \in {"interrupt", "recheck", "timedwait"} =>
       \A f \in snap : att[f] = Daemons(run) \/ status[f] = "Detached"
  /\ DrainedMeansGone

Published ==
  /\ host # "idle" => dscope = run /\ run > 0
  /\ host = "idle" => dscope = 0

Host == Published /\ Marked /\ Asked /\ Snapped

(* The run that a main fiber executes.                                     *)
AtRest(n) ==
  \A f \in kin : f # Mains[n] /\ curScope[f] = n => status[f] = "Detached"

MainRuns(n) ==
  LET m == Mains[n]
  IN /\ status[m] \in {"Queued", "Running", "Done", "Detached"}
     /\ m \in kin /\ curScope[m] = n
     /\ status[m] = "Queued" => \A f \in kin : curScope[f] = n => f = m
     /\ Root(n) \in shutting => cur[m] \in {<<Shutdown>>, <<>>}
     /\ Root(n) \in drained \/ cur[m] = <<>> => AtRest(n)
     /\ Ended(m) => cur[m] = <<>>

(* Scopes of runs to come are untouched.                                   *)
Untouched == \A n \in Nat : Root(n) \in shutting => n \in 1 .. run

IInv ==
  /\ Typed /\ ToCome /\ Tree /\ Host /\ Untouched
  /\ \A n \in 1 .. run : MainRuns(n)

-----------------------------------------------------------------------------
(* The invariant is kept.                                                  *)

(* What the types say of the runs.                                         *)
LEMMA Runs ==
  ASSUME IInv
  PROVE  /\ run \in Nat /\ dscope \in Nat
         /\ \A n \in 1 .. run : n \in DOMAIN Mains /\ n \in Nat /\ Mains[n] \in Fiber /\ IsMain(Mains[n])
         /\ \A n \in DOMAIN Mains : n \in Nat /\ Mains[n] \in Fiber
         /\ \A n \in DOMAIN Mains :
              status[Mains[n]] # "Unborn" => n \in 1 .. run /\ curScope[Mains[n]] = n
  <1>1. /\ program \in Program /\ Calls[program] \in 0 .. Len(Mains) /\ Len(Mains) \in Nat
        /\ DOMAIN Mains = 1 .. Len(Mains) /\ \A n \in DOMAIN Mains : Mains[n] \in Fiber
    BY RunMainAssumption DEF IInv, Typed, TypeOK
  <1>2. run \in 0 .. Calls[program] /\ dscope \in 0 .. Calls[program]
    BY DEF IInv, Typed, TypeOK
  <1>3. run \in Nat /\ dscope \in Nat /\ \A n \in 1 .. run : n \in DOMAIN Mains /\ n \in Nat
    BY <1>1, <1>2
  <1>4. ASSUME NEW n \in DOMAIN Mains, status[Mains[n]] # "Unborn"
        PROVE  n \in 1 .. run /\ curScope[Mains[n]] = n
    <2>1. ~(n > run) /\ n \in Nat /\ n > 0
      BY <1>1, <1>4 DEF IInv, ToCome
    <2>2. n \in 1 .. run
      BY <1>3, <2>1
    <2> QED BY <2>2 DEF IInv, MainRuns
  <1> QED BY <1>1, <1>3, <1>4 DEF IsMain

(* A scope's children are all of its run's fibers that are not at an end,  *)
(* unless main is forking one.                                             *)
LEMMA Alone ==
  ASSUME IInv, NEW n \in 1 .. run, spawning[Mains[n]] = Idle,
         NEW X, \A x \in X : status[x] = "Done", Children(Root(n)) \subseteq X
  PROVE  \A g \in kin : g # Mains[n] /\ curScope[g] = n => status[g] = "Detached" \/ g \in X
  <1>1. ASSUME NEW g \in kin, g # Mains[n], curScope[g] = n
        PROVE  g \in Fiber /\ ~IsMain(g) /\ status[g] # "Unborn"
               /\ (status[g] \in {"Queued", "Running", "Done"} => g \in X)
    <2>1. g \in Fiber
      BY DEF IInv, Typed, TypeOK
    <2>2. status[g] # "Unborn" /\ Place(g)
      BY <2>1 DEF IInv, Tree, Place
    <2>3. ~IsMain(g)
      BY <1>1, <2>2, Runs DEF IsMain
    <2>4. status[g] \in {"Queued", "Running", "Done"} => att[g] = Root(n)
      BY <1>1, <2>2, <2>3 DEF Place
    <2> QED BY <2>1, <2>2, <2>3, <2>4 DEF Children
  <1>2. SUFFICES ASSUME NEW g \in kin, g # Mains[n], curScope[g] = n, status[g] = "New"
                 PROVE  FALSE
    BY <1>1 DEF IInv, Typed, TypeOK
  <1>3. g \in Fiber /\ Place(g)
    BY <1>1, <1>2 DEF IInv, Tree
  <1>4. PICK h \in Fiber : spawning[h].child = g
    BY <1>2, <1>3 DEF Place
  <1>5. spawning[h] # Idle
    BY <1>3, <1>4, IdleMeans DEF IInv
  <1>6. Spawning(h) /\ Parent(h)
    BY <1>5 DEF IInv, Tree, Typed, Spawns
  <1>7. h \in kin /\ curScope[h] = n /\ h # Mains[n] /\ status[h] = "Running"
    BY <1>2, <1>4, <1>5, <1>6 DEF Parent, Spawning
  <1> QED BY <1>1, <1>7

(* An operation other than a fork.                                         *)
LEMMA InvAdvance ==
  ASSUME IInv, NEW f \in Fiber, Advance(f)
  PROVE  IInv'
  <1>1. Typed /\ ToCome /\ Tree /\ Host /\ Untouched /\ \A n \in 1 .. run : MainRuns(n)
    BY DEF IInv
  <1>2. PICK s : /\ cur' = [cur EXCEPT ![f] = s]
                 /\ IsMain(f) /\ s = <<>> => status[f] = "Queued" \/ Root(curScope[f]) \in drained
                 /\ cur[f] = <<Shutdown>> => s \in {<<Shutdown>>, <<>>}
    BY DEF Advance
  <1>3. /\ status \in [Fiber -> {"Unborn", "New", "Queued", "Running", "Done", "Detached"}]
        /\ cur \in [Fiber -> Seq(Operation \cup {Shutdown})]
    BY <1>1 DEF Typed, TypeOK
  <1>4. /\ status[f] \in {"Queued", "Running"} /\ status'[f] \in {status[f], "Running"}
        /\ \A g \in Fiber : g # f => status'[g] = status[g]
        /\ spawning[f] = Idle
    BY <1>3 DEF Advance, Active
  <1>5. /\ cur'[f] = s /\ \A g \in Fiber : g # f => cur'[g] = cur[g]
    BY <1>2, <1>3
  <1>6. UNCHANGED <<curScope, att, spawning, home, kin, host, run, mainDone, dscope, kids, snap, expired>>
    BY DEF Advance, treeVars, hostVars
  <1>7. IsMain(f) => \E k \in 1 .. run : f = Mains[k] /\ curScope[f] = k
    BY <1>4, Runs DEF IsMain
  <1>8. \/ UNCHANGED scopeVars
        \/ /\ IsMain(f) /\ cur[f] = <<Shutdown>> /\ s # <<>>
           /\ shutting' = shutting \cup {Root(curScope[f])}
           /\ drained' = IF Children(Root(curScope[f])) = {}
                         THEN drained \cup {Root(curScope[f])} ELSE drained
    BY <1>5 DEF Advance
  <1>9. shutting \subseteq shutting' /\ drained \subseteq drained' /\ asked \subseteq asked'
        /\ \A n : Daemons(n) \in shutting' => Daemons(n) \in shutting
    BY <1>8 DEF Advance, scopeVars, Root, Daemons
  <1>10. Typed'
    BY <1>1, TypedAdvance
  <1>11. ToCome'
    BY <1>1, <1>4, <1>6, Runs DEF ToCome
  <1>12. Tree'
    <2>1. ASSUME NEW g \in Fiber
          PROVE  Place(g)'
      <3>1. Place(g)
        BY <1>1 DEF Tree
      <3> QED BY <3>1, <1>4, <1>6 DEF Place, Daemons, Root, NoScope, IsMain
    <2>2. ASSUME NEW g \in Fiber, spawning'[g] # Idle
          PROVE  Parent(g)'
      BY <2>2, <1>1, <1>6 DEF Tree, Parent, Daemons, Root, NoScope
    <2> QED BY <2>1, <2>2 DEF Tree, Idle, NoScope
  <1>13. Host'
    <2>1. Published'
      BY <1>1, <1>6 DEF Host, Published
    <2>2. Marked'
      BY <1>1, <1>6, <1>9 DEF Host, Marked, Draining, Daemons
    <2>3. Asked'
      BY <1>1, <1>6, <1>9 DEF Host, Asked, Daemons
    <2>4. Snapped'
      <3>1. snap \subseteq Fiber
        BY <1>1 DEF Typed, TypeOK
      <3>2. \A g \in snap : status[g] = "Detached" => status'[g] = "Detached"
        BY <3>1, <1>4
      <3> QED BY <3>2, <1>1, <1>6 DEF Host, Snapped, DrainedMeansGone, Daemons
    <2> QED BY <2>1, <2>2, <2>3, <2>4 DEF Host
  <1>14. Untouched'
    <2>1. ASSUME NEW n \in Nat, Root(n) \in shutting'
          PROVE  n \in 1 .. run
      <3>1. Root(n) \in shutting \/ (IsMain(f) /\ Root(n) = Root(curScope[f]))
        BY <2>1, <1>8 DEF scopeVars
      <3>2. Root(n) = Root(curScope[f]) => n = curScope[f]
        BY DEF Root
      <3> QED BY <3>1, <3>2, <1>1, <1>7 DEF Untouched
    <2> QED BY <2>1, <1>6 DEF Untouched, Root
  <1>15. ASSUME NEW n \in 1 .. run
         PROVE  MainRuns(n)'
    <2>1. PICK m \in Fiber : m = Mains[n]
      BY Runs
    <2>2. MainRuns(n) /\ n \in Nat
      BY <1>1, Runs
    <2>3. Root(n) = Root(curScope[f]) /\ IsMain(f) => m = f
      <3>1. Root(n) = Root(curScope[f]) => n = curScope[f]
        BY DEF Root
      <3> QED BY <3>1, <2>1, <1>7
    <2>4. kin \subseteq Fiber
      BY <1>1 DEF Typed, TypeOK
    <2>5. AtRest(n) => AtRest(n)'
      BY <2>4, <1>4, <1>6 DEF AtRest
    <2>6. Root(n) \in shutting' => cur'[m] \in {<<Shutdown>>, <<>>}
      <3>1. ASSUME Root(n) \in shutting, m = f
            PROVE  cur[f] = <<Shutdown>>
        BY <3>1, <2>1, <2>2 DEF MainRuns, Advance
      <3>2. ASSUME Root(n) \notin shutting, Root(n) \in shutting'
            PROVE  m = f /\ cur[f] = <<Shutdown>>
        BY <3>2, <2>3, <1>8 DEF scopeVars
      <3> QED BY <3>1, <3>2, <2>1, <2>2, <1>2, <1>5 DEF MainRuns
    <2>7. ASSUME Root(n) \in drained'
          PROVE  AtRest(n)'
      <3>1. CASE Root(n) \in drained
        BY <3>1, <2>2, <2>5 DEF MainRuns
      <3>2. CASE Root(n) \notin drained
        <4>1. IsMain(f) /\ Root(n) = Root(curScope[f]) /\ Children(Root(n)) = {}
          BY <3>2, <2>7, <1>8 DEF scopeVars
        <4>2. spawning[Mains[n]] = Idle
          BY <4>1, <2>1, <2>3, <1>4
        <4>3. PICK X : X = {}
          OBVIOUS
        <4>4. (\A x \in X : status[x] = "Done") /\ Children(Root(n)) \subseteq X
          BY <4>1, <4>3
        <4>5. AtRest(n)
          BY <4>2, <4>3, <4>4, Alone DEF AtRest
        <4> QED BY <4>5, <2>5
      <3> QED BY <3>1, <3>2
    <2>8. ASSUME cur'[m] = <<>>
          PROVE  AtRest(n)'
      <3>1. CASE m # f
        BY <3>1, <2>1, <2>2, <2>5, <2>8, <1>5 DEF MainRuns
      <3>2. CASE m = f
        <4>1. IsMain(f) /\ s = <<>> /\ curScope[f] = n
          BY <3>2, <2>1, <2>2, <2>8, <1>5, Runs DEF MainRuns
        <4>2. status[f] = "Queued" \/ Root(n) \in drained
          BY <4>1, <1>2
        <4>3. AtRest(n)
          BY <4>2, <3>2, <2>1, <2>2 DEF MainRuns, AtRest
        <4> QED BY <4>3, <2>5
      <3> QED BY <3>1, <3>2
    <2>9. status'[m] \in {"Queued", "Running", "Done", "Detached"} /\ m \in kin' /\ curScope'[m] = n
      BY <2>1, <2>2, <1>4, <1>6 DEF MainRuns
    <2>10. status'[m] = "Queued" => \A g \in kin' : curScope'[g] = n => g = m
      BY <2>1, <2>2, <1>4, <1>6 DEF MainRuns
    <2>11. Ended(m)' => cur'[m] = <<>>
      BY <2>1, <2>2, <1>4, <1>5 DEF MainRuns, Ended
    <2> QED BY <2>1, <2>6, <2>7, <2>8, <2>9, <2>10, <2>11 DEF MainRuns, Root, Ended, AtRest
  <1> QED BY <1>6, <1>10, <1>11, <1>12, <1>13, <1>14, <1>15 DEF IInv

(* The beginning of a fork.                                                *)
LEMMA InvSpawnRead ==
  ASSUME IInv, NEW f \in Fiber, NEW c, NEW s, Reads(f, c, s)
  PROVE  IInv'
  <1>1. Typed /\ ToCome /\ Tree /\ Host /\ Untouched /\ \A n \in 1 .. run : MainRuns(n)
    BY DEF IInv
  <1>2. PICK daemon \in BOOLEAN : daemon <=> Head(cur[f]).op = "forkDaemon"
    OBVIOUS
  <1>3. /\ c \in Fiber /\ ~IsMain(c) /\ c # f /\ status[c] = "Unborn"
        /\ status[f] \in {"Queued", "Running"} /\ spawning[f] = Idle
        /\ cur[f] # <<>> /\ Head(cur[f]).op \in {"fork", "forkDaemon"}
        /\ s = IF ~daemon THEN Root(curScope[f])
               ELSE IF dscope # 0 THEN Daemons(dscope) ELSE NoScope
    BY <1>2 DEF Reads, Active
  <1>4. /\ status' = [status EXCEPT ![f] = "Running", ![c] = "New"]
        /\ spawning' = [spawning EXCEPT ![f] = [child |-> c, scope |-> s]]
        /\ cur' = [cur EXCEPT ![c] = Code[program][c]]
        /\ curScope' = [curScope EXCEPT ![c] = curScope[f]]
        /\ home' = [home EXCEPT ![c] = IF daemon /\ host # "idle" THEN run ELSE 0]
        /\ kin' = IF f \in kin /\ ~daemon THEN kin \cup {c} ELSE kin
        /\ UNCHANGED <<asked, att, shutting, drained, host, run, dscope, kids, snap, expired>>
    BY <1>2 DEF Reads, scopeVars, hostVars
  <1>5. /\ status'[f] = "Running" /\ status'[c] = "New"
        /\ \A g \in Fiber : g # f /\ g # c => status'[g] = status[g]
    BY <1>1, <1>3, <1>4 DEF Typed, TypeOK
  <1>6. /\ spawning'[f] = [child |-> c, scope |-> s] /\ spawning'[f].child = c /\ spawning'[f].scope = s
        /\ \A g \in Fiber : g # f => spawning'[g] = spawning[g]
    BY <1>1, <1>4 DEF Typed, TypeOK
  <1>7. /\ curScope'[c] = curScope[f] /\ home'[c] = IF daemon /\ host # "idle" THEN run ELSE 0
        /\ \A g \in Fiber : g # c => curScope'[g] = curScope[g] /\ home'[g] = home[g] /\ cur'[g] = cur[g]
    BY <1>1, <1>3, <1>4 DEF Typed, TypeOK
  <1>8. c \notin kin /\ kin \subseteq kin' /\ kin' \subseteq kin \cup {c} /\ (c \in kin' => f \in kin /\ ~daemon)
        /\ att[c] = NoScope
    BY <1>1, <1>3, <1>4 DEF Tree, Place
  <1>9. run \in Nat /\ (home'[c] # 0 => daemon /\ dscope = run /\ home'[c] = run)
    BY <1>1, <1>7, Runs DEF Host, Published
  <1>10. Typed'
    BY <1>1, TypedSpawnRead
  <1>11. ToCome'
    BY <1>1, <1>3, <1>4, <1>5, Runs DEF ToCome, IsMain
  <1>12. Tree'
    <2>1. ASSUME NEW g \in Fiber
          PROVE  Place(g)'
      <3>1. Place(g) /\ Place(f)
        BY <1>1 DEF Tree
      <3>2. CASE g = c
        <4>1. c \in kin' => curScope'[c] \in 1 .. run'
          BY <3>1, <1>4, <1>7, <1>8 DEF Place
        <4>2. home'[c] \in 0 .. run'
          BY <1>4, <1>7, <1>9
        <4>3. \E h \in Fiber : spawning'[h].child = c
          BY <1>6
        <4> QED BY <3>2, <4>1, <4>2, <4>3, <1>5 DEF Place
      <3>3. CASE g # c
        <4>1. status'[g] = "New" => \E h \in Fiber : spawning'[h].child = g
          <5>1. ASSUME status'[g] = "New"
                PROVE  \E h \in Fiber : spawning'[h].child = g
            <6>1. PICK h \in Fiber : spawning[h].child = g
              BY <5>1, <3>1, <3>3, <1>5 DEF Place
            <6>2. h # f
              BY <6>1, <1>1, <1>3, IdleMeans
            <6> QED BY <6>1, <6>2, <1>6
          <5> QED BY <5>1
        <4>2. status'[g] \in {"Queued", "Running", "Done"} => status[g] \in {"Queued", "Running", "Done"}
          BY <3>3, <1>3, <1>5
        <4>3. status'[g] = "Unborn" => status[g] = "Unborn"
          BY <3>3, <1>3, <1>5
        <4>4. status[g] # "Unborn" => status'[g] # "Unborn"
          BY <3>3, <1>3, <1>5
        <4>5. curScope'[g] = curScope[g] /\ home'[g] = home[g] /\ (g \in kin' <=> g \in kin)
              /\ att'[g] = att[g] /\ run' = run
          BY <3>3, <1>4, <1>7, <1>8
        <4> QED BY <3>1, <4>1, <4>2, <4>3, <4>4, <4>5 DEF Place, Daemons, Root, NoScope, IsMain
      <3> QED BY <3>2, <3>3
    <2>2. ASSUME NEW g \in Fiber, spawning'[g] # Idle
          PROVE  Parent(g)'
      <3>1. CASE g = f
        <4>1. att'[c] = NoScope /\ (home'[c] # 0 => s = Daemons(home'[c]))
          BY <1>3, <1>4, <1>8, <1>9
        <4>2. c \in kin' => f \in kin' /\ curScope'[c] = curScope'[f] /\ s = Root(curScope'[c])
          BY <1>3, <1>7, <1>8
        <4> QED BY <3>1, <4>1, <4>2, <1>6 DEF Parent, Daemons, Root, NoScope
      <3>2. CASE g # f
        <4>1. spawning'[g] = spawning[g] /\ Spawning(g) /\ Parent(g)
          BY <2>2, <3>2, <1>1, <1>6 DEF Tree, Typed, Spawns
        <4>2. spawning[g].child # c /\ g # c /\ spawning[g].child \in Fiber
          BY <4>1, <1>3 DEF Spawning
        <4> QED BY <4>1, <4>2, <1>4, <1>7, <1>8 DEF Parent, Daemons, Root, NoScope
      <3> QED BY <3>1, <3>2
    <2> QED BY <2>1, <2>2 DEF Tree, Idle, NoScope
  <1>13. Host'
    <2>1. Published' /\ Marked' /\ Asked'
      BY <1>1, <1>4 DEF Host, Published, Marked, Asked, Draining, Daemons
    <2>2. Snapped'
      <3>1. snap \subseteq Fiber
        BY <1>1 DEF Typed, TypeOK
      <3>2. \A g \in snap : status[g] = "Detached" => status'[g] = "Detached"
        BY <3>1, <1>3, <1>5
      <3> QED BY <3>2, <1>1, <1>4 DEF Host, Snapped, DrainedMeansGone, Daemons
    <2> QED BY <2>1, <2>2 DEF Host
  <1>14. Untouched'
    BY <1>1, <1>4 DEF Untouched, Root
  <1>15. ASSUME NEW n \in 1 .. run
         PROVE  MainRuns(n)'
    <2>1. PICK m \in Fiber : m = Mains[n] /\ IsMain(m)
      BY Runs
    <2>2. MainRuns(n) /\ n \in Nat /\ m # c
      BY <2>1, <1>1, <1>3, Runs
    <2>3. cur'[m] = cur[m] /\ curScope'[m] = curScope[m] /\ status'[m] \in {status[m], "Running"}
      BY <2>2, <1>5, <1>7
    <2>4. m = f => cur[m] # <<Shutdown>> /\ cur[m] # <<>>
      <3>1. Head(<<Shutdown>>).op = "shutdown"
        BY DEF Shutdown, Op
      <3> QED BY <3>1, <1>3
    <2>5. kin \subseteq Fiber
      BY <1>1 DEF Typed, TypeOK
    <2>6. ASSUME Root(n) \in drained \/ cur[m] = <<>>
          PROVE  AtRest(n)'
      <3>1. AtRest(n)
        BY <2>1, <2>2, <2>6 DEF MainRuns
      <3>2. m # f
        BY <2>1, <2>2, <2>4, <2>6, <1>1 DEF MainRuns, Typed, TypeOK
      <3>3. ~(f \in kin /\ curScope[f] = n)
        BY <3>1, <3>2, <2>1, <1>3 DEF AtRest
      <3>4. ASSUME NEW g \in kin', g # m, curScope'[g] = n
            PROVE  status'[g] = "Detached"
        <4>1. g # c /\ g \in kin /\ g \in Fiber
          BY <3>3, <3>4, <2>5, <1>7, <1>8
        <4>2. curScope[g] = n /\ status[g] = "Detached"
          BY <3>1, <3>4, <4>1, <2>1, <1>7 DEF AtRest
        <4> QED BY <4>1, <4>2, <1>3, <1>5
      <3> QED BY <3>4, <2>1 DEF AtRest
    <2>7. status'[m] \in {"Queued", "Running", "Done", "Detached"} /\ m \in kin' /\ curScope'[m] = n
      BY <2>1, <2>2, <2>3, <1>8 DEF MainRuns
    <2>8. ASSUME status'[m] = "Queued", NEW g \in kin', curScope'[g] = n
          PROVE  g = m
      <3>1. m # f /\ status[m] = "Queued"
        BY <2>8, <2>3, <1>5
      <3>2. ~(f \in kin /\ curScope[f] = n)
        BY <3>1, <2>1, <2>2 DEF MainRuns
      <3>3. g # c /\ g \in kin /\ g \in Fiber
        BY <3>2, <2>5, <2>8, <1>7, <1>8
      <3> QED BY <3>1, <3>3, <2>1, <2>2, <2>8, <1>7 DEF MainRuns
    <2>9. Root(n) \in shutting' => cur'[m] \in {<<Shutdown>>, <<>>}
      BY <2>1, <2>2, <2>3, <1>4 DEF MainRuns
    <2>10. Ended(m)' => cur'[m] = <<>>
      BY <2>1, <2>2, <2>3 DEF MainRuns, Ended
    <2>11. drained' = drained
      BY <1>4
    <2> QED BY <2>1, <2>3, <2>6, <2>7, <2>8, <2>9, <2>10, <2>11 DEF MainRuns, Root, Ended, AtRest
  <1> QED BY <1>4, <1>10, <1>11, <1>12, <1>13, <1>14, <1>15 DEF IInv

(* The child is attached.                                                  *)
LEMMA InvSpawnAttach ==
  ASSUME IInv, NEW f \in Fiber, SpawnAttach(f)
  PROVE  IInv'
  <1>1. Typed /\ ToCome /\ Tree /\ Host /\ Untouched /\ \A n \in 1 .. run : MainRuns(n)
    BY DEF IInv
  <1>2. PICK c, s : c = spawning[f].child /\ s = spawning[f].scope
    OBVIOUS
  <1>3. /\ spawning[f] # Idle /\ Spawning(f) /\ c \in Fiber /\ status[c] = "New" /\ att[c] = NoScope
        /\ att' = [att EXCEPT ![c] = s] /\ asked' = asked \cup BornInterrupted(s, c)
        /\ UNCHANGED <<status, cur, curScope, spawning, home, kin, shutting, drained,
                       host, run, dscope, kids, snap, expired>>
    BY <1>1, <1>2, SpawnAttachMeans DEF SpawnAttach, scopeVars, hostVars
  <1>4. att'[c] = s /\ \A g \in Fiber : g # c => att'[g] = att[g]
    BY <1>1, <1>3 DEF Typed, TypeOK
  <1>5. Typed'
    BY <1>1, TypedSpawnAttach
  <1>6. ToCome' /\ Untouched'
    BY <1>1, <1>3 DEF ToCome, Untouched, Root
  <1>7. Tree'
    <2>1. ASSUME NEW g \in Fiber
          PROVE  Place(g)'
      <3>1. Place(g)
        BY <1>1 DEF Tree
      <3> QED BY <3>1, <1>3, <1>4 DEF Place, Daemons, Root, NoScope, IsMain
    <2>2. ASSUME NEW g \in Fiber, spawning'[g] # Idle
          PROVE  Parent(g)'
      <3>1. Parent(g) /\ Spawning(g)
        BY <2>2, <1>1, <1>3 DEF Tree, Typed, Spawns
      <3>2. CASE g = f
        BY <3>1, <3>2, <1>2, <1>3, <1>4 DEF Parent, Daemons, Root, NoScope
      <3>3. CASE g # f
        <4>1. spawning[g].child # c /\ spawning[g].child \in Fiber
          BY <3>1, <3>3, <1>2 DEF Spawning
        <4> QED BY <3>1, <4>1, <1>3, <1>4 DEF Parent, Daemons, Root, NoScope
      <3> QED BY <3>2, <3>3
    <2> QED BY <2>1, <2>2 DEF Tree, Idle, NoScope
  <1>8. Host'
    <2>1. Published' /\ Marked'
      BY <1>1, <1>3 DEF Host, Published, Marked, Draining, Daemons
    <2>2. Asked'
      <3>1. ASSUME NEW g \in Fiber, NEW n \in Nat, att'[g] = Daemons(n), Daemons(n) \in shutting
            PROVE  g \in asked' \/ (host = "interrupt" /\ n = run /\ g \in kids)
        BY <3>1, <1>1, <1>3, <1>4 DEF Host, Asked, BornInterrupted
      <3> QED BY <3>1, <1>3 DEF Asked, Daemons
    <2>3. Snapped'
      <3>1. snap \subseteq Fiber
        BY <1>1 DEF Typed, TypeOK
      <3>2. NoScope # Daemons(run)
        BY DEF NoScope, Daemons
      <3>3. ASSUME NEW g \in snap, att[g] = Daemons(run)
            PROVE  att'[g] = Daemons(run)
        BY <3>1, <3>2, <3>3, <1>3, <1>4
      <3> QED BY <3>3, <1>1, <1>3 DEF Host, Snapped, DrainedMeansGone, Daemons
    <2> QED BY <2>1, <2>2, <2>3 DEF Host
  <1>9. ASSUME NEW n \in 1 .. run
        PROVE  MainRuns(n)'
    BY <1>1, <1>3 DEF MainRuns, Root, Ended, AtRest
  <1> QED BY <1>3, <1>5, <1>6, <1>7, <1>8, <1>9 DEF IInv

(* The child is queued and its parent goes on.                             *)
LEMMA InvSpawnPush ==
  ASSUME IInv, NEW f \in Fiber, NEW c, Pushes(f, c)
  PROVE  IInv'
  <1>1. Typed /\ ToCome /\ Tree /\ Host /\ Untouched /\ \A n \in 1 .. run : MainRuns(n)
    BY DEF IInv
  <1>2. /\ spawning[f] # Idle /\ c = spawning[f].child /\ c \in Fiber /\ c # f
        /\ status[f] = "Running" /\ status[c] = "New" /\ ~IsMain(c) /\ att[c] = spawning[f].scope
        /\ \A g \in Fiber : spawning[g].child = c => g = f
        /\ cur[f] # <<>> /\ cur[f] # <<Shutdown>> /\ (IsMain(f) => Tail(cur[f]) # <<>>)
        /\ UNCHANGED <<asked, curScope, att, home, kin, shutting, drained, host, run, dscope,
                       kids, snap, expired>>
    BY DEF Pushes, scopeVars, hostVars
  <1>3. status'[c] = "Queued" /\ \A g \in Fiber : g # c => status'[g] = status[g]
    BY <1>1, <1>2 DEF Typed, TypeOK, Pushes
  <1>4. cur'[f] = Tail(cur[f]) /\ \A g \in Fiber : g # f => cur'[g] = cur[g]
    BY <1>1 DEF Typed, TypeOK, Pushes
  <1>5. spawning'[f] = Idle /\ \A g \in Fiber : g # f => spawning'[g] = spawning[g]
    BY <1>1 DEF Typed, TypeOK, Pushes
  <1>6. Typed'
    BY <1>1, TypedSpawnPush
  <1>7. ToCome'
    BY <1>1, <1>2, <1>3, Runs DEF ToCome, IsMain
  <1>8. Untouched'
    BY <1>1, <1>2 DEF Untouched, Root
  <1>9. Tree'
    <2>1. ASSUME NEW g \in Fiber
          PROVE  Place(g)'
      <3>1. Place(g) /\ Parent(f)
        BY <1>1, <1>2 DEF Tree
      <3>2. CASE g = c
        BY <3>1, <3>2, <1>2, <1>3 DEF Place, Parent, Daemons, Root, NoScope, IsMain
      <3>3. CASE g # c
        <4>1. status'[g] = status[g]
          BY <3>3, <1>3
        <4>2. ASSUME status[g] = "New"
              PROVE  \E h \in Fiber : spawning'[h].child = g
          <5>1. PICK h \in Fiber : spawning[h].child = g
            BY <4>2, <3>1 DEF Place
          <5>2. h # f
            BY <5>1, <3>3, <1>2
          <5> QED BY <5>1, <5>2, <1>5
        <4> QED BY <3>1, <4>1, <4>2, <1>2 DEF Place, Daemons, Root, NoScope, IsMain
      <3> QED BY <3>2, <3>3
    <2>2. ASSUME NEW g \in Fiber, spawning'[g] # Idle
          PROVE  Parent(g)'
      BY <2>2, <1>1, <1>2, <1>5 DEF Tree, Parent, Daemons, Root, NoScope
    <2> QED BY <2>1, <2>2 DEF Tree, Idle, NoScope
  <1>10. Host'
    <2>1. Published' /\ Marked' /\ Asked'
      BY <1>1, <1>2 DEF Host, Published, Marked, Asked, Draining, Daemons
    <2>2. Snapped'
      <3>1. snap \subseteq Fiber
        BY <1>1 DEF Typed, TypeOK
      <3>2. \A g \in snap : status[g] = "Detached" => status'[g] = "Detached"
        BY <3>1, <1>2, <1>3
      <3> QED BY <3>2, <1>1, <1>2 DEF Host, Snapped, DrainedMeansGone, Daemons
    <2> QED BY <2>1, <2>2 DEF Host
  <1>11. ASSUME NEW n \in 1 .. run
         PROVE  MainRuns(n)'
    <2>1. PICK m \in Fiber : m = Mains[n] /\ IsMain(m)
      BY Runs
    <2>2. MainRuns(n) /\ m # c
      BY <2>1, <1>1, <1>2
    <2>3. status'[m] = status[m]
      BY <2>2, <1>3
    <2>4. kin \subseteq Fiber
      BY <1>1 DEF Typed, TypeOK
    <2>5. AtRest(n) => AtRest(n)'
      <3>1. \A g \in kin : status[g] = "Detached" => status'[g] = "Detached"
        BY <2>4, <1>2, <1>3
      <3> QED BY <3>1, <1>2 DEF AtRest
    <2>6. cur'[m] = <<>> => AtRest(n)'
      BY <2>1, <2>2, <2>5, <1>2, <1>4 DEF MainRuns
    <2>7. Root(n) \in shutting => cur'[m] \in {<<Shutdown>>, <<>>}
      BY <2>1, <2>2, <1>2, <1>4 DEF MainRuns
    <2>8. Ended(m)' => cur'[m] = <<>>
      BY <2>1, <2>2, <2>3, <1>2, <1>4 DEF MainRuns, Ended
    <2> QED BY <2>1, <2>2, <2>3, <2>5, <2>6, <2>7, <2>8, <1>2 DEF MainRuns, Root, Ended, AtRest
  <1> QED BY <1>2, <1>6, <1>7, <1>8, <1>9, <1>10, <1>11 DEF IInv

(* A fiber ends, and leaves its scope: the last one of a scope that main   *)
(* is shutting down leaves none behind, also none in the middle of a fork. *)
LEMMA InvEnds ==
  ASSUME IInv, NEW f \in Fiber, Finish(f) \/ Detach(f)
  PROVE  IInv'
  <1>1. Typed /\ ToCome /\ Tree /\ Host /\ Untouched /\ \A n \in 1 .. run : MainRuns(n)
    BY DEF IInv
  <1>2. PICK v \in {"Done", "Detached"} : status' = [status EXCEPT ![f] = v]
    BY DEF Finish, Detach
  <1>3. /\ status[f] \in {"Queued", "Running", "Done"}
        /\ v = "Done" => status[f] # "Done" /\ cur[f] = <<>> /\ UNCHANGED <<att, drained, host>>
        /\ v = "Detached" =>
             /\ status[f] = "Done" /\ att' = [att EXCEPT ![f] = NoScope]
             /\ drained' = IF Children(att[f]) = {f} /\ att[f] \in shutting
                           THEN drained \cup {att[f]} ELSE drained
        /\ host' = host \/ (host = "timedwait" /\ host' = "recheck")
        /\ UNCHANGED <<cur, asked, curScope, spawning, home, kin, shutting,
                       run, dscope, kids, snap, expired>>
    <2>1. status'[f] = v
      BY <1>1, <1>2 DEF Typed, TypeOK
    <2>2. CASE Finish(f)
      <3>1. v = "Done"
        BY <2>1, <2>2, <1>1 DEF Finish, Typed, TypeOK
      <3> QED BY <3>1, <2>2 DEF Finish, Active, treeVars, scopeVars, hostVars
    <2>3. CASE Detach(f)
      <3>1. v = "Detached"
        BY <2>1, <2>3, <1>1 DEF Detach, Typed, TypeOK
      <3> QED BY <3>1, <2>3 DEF Detach, LeavesLast
    <2> QED BY <2>2, <2>3
  <1>4. status'[f] = v /\ \A g \in Fiber : g # f => status'[g] = status[g]
    BY <1>1, <1>2 DEF Typed, TypeOK
  <1>5. /\ v = "Detached" => att'[f] = NoScope
        /\ v = "Done" => att'[f] = att[f]
        /\ \A g \in Fiber : g # f => att'[g] = att[g]
    BY <1>1, <1>3 DEF Typed, TypeOK
  <1>6. Typed'
    BY <1>1, TypedEnds
  <1>7. ToCome' /\ Untouched'
    BY <1>1, <1>3, <1>4, Runs DEF ToCome, Untouched, Root
  <1>8. Tree'
    <2>1. ASSUME NEW g \in Fiber
          PROVE  Place(g)'
      <3>1. Place(g)
        BY <1>1 DEF Tree
      <3>2. CASE g = f
        BY <3>1, <3>2, <1>3, <1>4, <1>5 DEF Place, Daemons, Root, NoScope, IsMain
      <3>3. CASE g # f
        <4>1. status'[g] = status[g] /\ att'[g] = att[g]
          BY <3>3, <1>4, <1>5
        <4> QED BY <3>1, <4>1, <1>3 DEF Place, Daemons, Root, NoScope, IsMain
      <3> QED BY <3>2, <3>3
    <2>2. ASSUME NEW g \in Fiber, spawning'[g] # Idle
          PROVE  Parent(g)'
      <3>1. Parent(g) /\ Spawning(g)
        BY <2>2, <1>1, <1>3 DEF Tree, Typed, Spawns
      <3>2. spawning[g].child # f /\ spawning[g].child \in Fiber
        BY <3>1, <1>3 DEF Spawning
      <3> QED BY <3>1, <3>2, <1>3, <1>5 DEF Parent, Daemons, Root, NoScope
    <2> QED BY <2>1, <2>2 DEF Tree, Idle, NoScope
  <1>9. Host'
    <2>1. Published' /\ Marked'
      BY <1>1, <1>3 DEF Host, Published, Marked, Draining, Daemons
    <2>2. Asked'
      <3>1. ASSUME NEW g \in Fiber, NEW n \in Nat, att'[g] = Daemons(n), Daemons(n) \in shutting
            PROVE  g \in asked \/ (host' = "interrupt" /\ n = run /\ g \in kids)
        <4>1. att[g] = Daemons(n)
          BY <3>1, <1>5 DEF NoScope, Daemons
        <4> QED BY <3>1, <4>1, <1>1, <1>3 DEF Host, Asked
      <3> QED BY <3>1, <1>3 DEF Asked, Daemons
    <2>3. Snapped'
      <3>1. snap \subseteq Fiber
        BY <1>1 DEF Typed, TypeOK
      <3>2. ASSUME NEW g \in snap
            PROVE  /\ status[g] = "Detached" => status'[g] = "Detached"
                   /\ att[g] = Daemons(run) => att'[g] = Daemons(run) \/ status'[g] = "Detached"
        BY <3>1, <1>2, <1>3, <1>4, <1>5
      <3> QED BY <3>2, <1>1, <1>3 DEF Host, Snapped, DrainedMeansGone, Daemons
    <2> QED BY <2>1, <2>2, <2>3 DEF Host
  <1>10. ASSUME NEW n \in 1 .. run
         PROVE  MainRuns(n)'
    <2>1. PICK m \in Fiber : m = Mains[n]
      BY Runs
    <2>2. MainRuns(n)
      BY <1>1
    <2>3. kin \subseteq Fiber
      BY <1>1 DEF Typed, TypeOK
    <2>4. AtRest(n) => AtRest(n)'
      <3>1. \A g \in kin : status[g] = "Detached" => status'[g] = "Detached"
        BY <2>3, <1>2, <1>3, <1>4
      <3> QED BY <3>1, <1>3 DEF AtRest
    <2>5. ASSUME Root(n) \in drained'
          PROVE  AtRest(n)'
      <3>1. CASE Root(n) \in drained
        BY <3>1, <2>2, <2>4 DEF MainRuns
      <3>2. CASE Root(n) \notin drained
        <4>1. v = "Detached" /\ status[f] = "Done" /\ Children(Root(n)) = {f} /\ Root(n) \in shutting
          BY <3>2, <2>5, <1>2, <1>3
        <4>2. spawning[m] = Idle
          <5>1. cur[m] \in {<<Shutdown>>, <<>>} /\ Head(<<Shutdown>>).op = "shutdown"
            BY <4>1, <2>1, <2>2 DEF MainRuns, Shutdown, Op
          <5> QED BY <5>1, <1>1 DEF Typed, Spawns, Spawning
        <4>3. PICK X : X = {f}
          OBVIOUS
        <4>4. (\A x \in X : status[x] = "Done") /\ Children(Root(n)) \subseteq X
          BY <4>1, <4>3
        <4>5. \A g \in kin : g # m /\ curScope[g] = n => status[g] = "Detached" \/ g \in X
          BY <4>2, <4>4, <2>1, Alone
        <4>6. ASSUME NEW g \in kin, g # m, curScope[g] = n
              PROVE  status'[g] = "Detached"
          BY <4>1, <4>3, <4>5, <4>6, <2>3, <1>4
        <4> QED BY <4>6, <2>1, <1>3 DEF AtRest
      <3> QED BY <3>1, <3>2
    <2>6. status'[m] = "Queued" => status[m] = "Queued"
      BY <2>1, <1>2, <1>4
    <2>7. Ended(m)' => cur'[m] = <<>>
      BY <2>1, <2>2, <1>3, <1>4 DEF MainRuns, Ended
    <2>8. status'[m] \in {"Queued", "Running", "Done", "Detached"}
      BY <2>1, <2>2, <1>4 DEF MainRuns
    <2> QED BY <2>1, <2>2, <2>4, <2>5, <2>6, <2>7, <2>8, <1>3 DEF MainRuns, Root, Ended, AtRest
  <1> QED BY <1>3, <1>6, <1>7, <1>8, <1>9, <1>10 DEF IInv

(* A call of krt2_run_main: fresh scopes, and a main fiber alone in its    *)
(* run.                                                                    *)
LEMMA InvPublish ==
  ASSUME IInv, Publish
  PROVE  IInv'
  <1>1. Typed /\ ToCome /\ Tree /\ Host /\ Untouched /\ \A n \in 1 .. run : MainRuns(n)
    BY DEF IInv
  <1>2. PICK k \in DOMAIN Mains :
          /\ k = run + 1 /\ run' = k /\ dscope' = k /\ k \in 1 .. Calls[program]
          /\ Mains[k] \in Fiber /\ IsMain(Mains[k])
          /\ status' = [status EXCEPT ![Mains[k]] = "Queued"]
          /\ cur' = [cur EXCEPT ![Mains[k]] = Ensuring(Code[program][Mains[k]])]
          /\ MainCode(Ensuring(Code[program][Mains[k]])) /\ Ensuring(Code[program][Mains[k]]) # <<>>
          /\ curScope' = [curScope EXCEPT ![Mains[k]] = k]
          /\ kin' = kin \cup {Mains[k]}
    BY <1>1, PublishMeans
  <1>3. PICK m \in Fiber : m = Mains[k]
    BY <1>2
  <1>4. k \in Nat /\ run \in Nat /\ k = run + 1 /\ run' = k /\ dscope' = k /\ IsMain(m)
    BY <1>2, <1>3, Runs
  <1>5. status[m] = "Unborn"
    BY <1>1, <1>3, <1>4 DEF ToCome
  <1>6. /\ host = "idle" /\ host' = "waitMain"
        /\ UNCHANGED <<asked, att, spawning, home, shutting, drained, kids, snap, expired>>
    BY DEF Publish, scopeVars
  <1>7. /\ status'[m] = "Queued" /\ cur'[m] # <<>> /\ curScope'[m] = k
        /\ \A g \in Fiber : g # m =>
             status'[g] = status[g] /\ cur'[g] = cur[g] /\ curScope'[g] = curScope[g]
    BY <1>1, <1>2, <1>3 DEF Typed, TypeOK
  <1>8. Typed'
    BY <1>1, TypedPublish
  <1>9. ToCome'
    <2>1. ASSUME NEW n \in DOMAIN Mains, n > k
          PROVE  status'[Mains[n]] = "Unborn"
      <3>1. n > run /\ Mains[n] \in Fiber /\ n # k
        BY <2>1, <1>4, Runs
      <3>2. Mains[n] # m
        BY <3>1, <1>3, RunMainAssumption
      <3> QED BY <3>1, <3>2, <1>1, <1>7 DEF ToCome
    <2> QED BY <2>1, <1>4 DEF ToCome
  <1>10. Untouched'
    BY <1>1, <1>4, <1>6 DEF Untouched, Root
  <1>11. Tree'
    <2>1. ASSUME NEW g \in Fiber
          PROVE  Place(g)'
      <3>1. Place(g)
        BY <1>1 DEF Tree
      <3>2. CASE g = m
        <4>1. home'[m] = 0 /\ 0 \in 0 .. run' /\ k \in 1 .. run'
          BY <3>1, <3>2, <1>4, <1>5, <1>6 DEF Place
        <4> QED BY <3>2, <4>1, <1>4, <1>7 DEF Place, IsMain
      <3>3. CASE g # m
        <4>1. \A i \in Nat : (i \in 1 .. run => i \in 1 .. run') /\ (i \in 0 .. run => i \in 0 .. run')
          BY <1>4
        <4>2. curScope[g] \in Nat /\ home[g] \in Nat
          BY <1>1 DEF Typed, TypeOK
        <4>3. g \in kin' <=> g \in kin
          BY <3>3, <1>2, <1>3
        <4>4. status'[g] = status[g] /\ curScope'[g] = curScope[g]
          BY <3>3, <1>7
        <4> QED BY <3>1, <4>1, <4>2, <4>3, <4>4, <1>6 DEF Place, Daemons, Root, NoScope, IsMain
      <3> QED BY <3>2, <3>3
    <2>2. ASSUME NEW g \in Fiber, spawning'[g] # Idle
          PROVE  Parent(g)'
      <3>1. Parent(g) /\ Spawning(g)
        BY <2>2, <1>1, <1>6 DEF Tree, Typed, Spawns
      <3>2. spawning[g].child # m /\ g # m /\ spawning[g].child \in Fiber
        BY <3>1, <1>4, <1>5 DEF Spawning
      <3>3. (spawning[g].child \in kin' <=> spawning[g].child \in kin) /\ (g \in kin' <=> g \in kin)
        BY <3>2, <1>2, <1>3
      <3> QED BY <3>1, <3>2, <3>3, <1>6, <1>7 DEF Parent, Daemons, Root, NoScope
    <2> QED BY <2>1, <2>2 DEF Tree, Idle, NoScope
  <1>12. Host'
    <2>1. Published' /\ Snapped'
      BY <1>4, <1>6 DEF Published, Snapped, DrainedMeansGone
    <2>2. Marked'
      BY <1>1, <1>4, <1>6 DEF Host, Marked, Draining, Daemons
    <2>3. Asked'
      BY <1>1, <1>6 DEF Host, Asked, Daemons
    <2> QED BY <2>1, <2>2, <2>3 DEF Host
  <1>13. ASSUME NEW n \in 1 .. k
         PROVE  MainRuns(n)'
    <2>1. CASE n = k
      <3>1. Root(n) \notin shutting /\ Root(n) \notin drained
        BY <2>1, <1>1, <1>4 DEF Untouched, Typed, TypeOK
      <3>2. ASSUME NEW g \in kin', curScope'[g] = n
            PROVE  g = m
        <4>1. SUFFICES ASSUME g # m
                       PROVE  FALSE
          OBVIOUS
        <4>2. g \in kin /\ g \in Fiber
          BY <4>1, <1>1, <1>2, <1>3 DEF Typed, TypeOK
        <4>3. curScope[g] = n /\ curScope[g] \in 1 .. run
          BY <4>1, <4>2, <3>2, <1>1, <1>7 DEF Tree, Place
        <4> QED BY <4>3, <2>1, <1>4
      <3> QED BY <2>1, <3>1, <3>2, <1>2, <1>3, <1>6, <1>7 DEF MainRuns, Root, Ended, AtRest
    <2>2. CASE n # k
      <3>1. n \in 1 .. run
        BY <2>2, <1>4
      <3>2. MainRuns(n)
        BY <3>1, <1>1
      <3>3. Mains[n] \in Fiber /\ Mains[n] # m
        BY <3>1, <3>2, <1>5, Runs DEF MainRuns
      <3>4. ASSUME NEW g \in kin', curScope'[g] = n
            PROVE  g \in kin /\ g \in Fiber /\ g # m /\ curScope[g] = n /\ status'[g] = status[g]
        <4>1. g # m
          BY <3>4, <2>2, <1>7
        <4> QED BY <4>1, <3>4, <1>1, <1>2, <1>3, <1>7 DEF Typed, TypeOK
      <3>5. AtRest(n) => AtRest(n)'
        BY <3>4 DEF AtRest
      <3>6. Mains[n] \in kin' /\ cur'[Mains[n]] = cur[Mains[n]] /\ status'[Mains[n]] = status[Mains[n]]
            /\ curScope'[Mains[n]] = n
        BY <3>2, <3>3, <1>2, <1>7 DEF MainRuns
      <3> QED BY <3>2, <3>4, <3>5, <3>6, <1>6 DEF MainRuns, Root, Ended, AtRest
    <2> QED BY <2>1, <2>2
  <1> QED BY <1>4, <1>8, <1>9, <1>10, <1>11, <1>12, <1>13 DEF IInv

(* The steps of the host that follow, and the latch, touch no fiber but to *)
(* ask it to stop, and mark no scope but that of the run's daemons.        *)
LEMMA InvHost ==
  ASSUME IInv,
         UNCHANGED vars \/ (\E f \in Fiber : Latch(f)) \/ HostStep \/ DrainSpurious \/ DrainExpires
  PROVE  IInv'
  <1>1. Typed /\ ToCome /\ Tree /\ Host /\ Untouched /\ \A n \in 1 .. run : MainRuns(n)
    BY DEF IInv
  <1>2. UNCHANGED <<status, cur, curScope, att, spawning, home, kin, run, drained>>
    BY DEF vars, fiberVars, scopeVars, hostVars, treeVars, Latch, HostStep, MainReturned, DrainBegin,
           DrainInterrupt, DrainCheck, Return, DrainSpurious, DrainExpires
  <1>3. shutting' = shutting \/ (DrainBegin /\ shutting' = shutting \cup {Daemons(run)})
    BY DEF vars, fiberVars, scopeVars, hostVars, Latch, HostStep, MainReturned, DrainBegin,
           DrainInterrupt, DrainCheck, Return, DrainSpurious, DrainExpires
  <1>4. \A n : Root(n) \in shutting' <=> Root(n) \in shutting
    BY <1>3 DEF Root, Daemons
  <1>5. Typed'
    BY <1>1, TypedHost
  <1>6. ToCome' /\ Untouched'
    BY <1>1, <1>2, <1>4 DEF ToCome, Untouched, Root
  <1>7. Tree'
    BY <1>1, <1>2 DEF Tree, Place, Parent, Daemons, Root, NoScope, Idle, IsMain
  <1>8. ASSUME NEW n \in 1 .. run
        PROVE  MainRuns(n)'
    BY <1>1, <1>2, <1>4 DEF MainRuns, Root, Ended, AtRest
  <1>9. Host'
    <2>1. run \in Nat /\ Published /\ Marked /\ Asked /\ Snapped /\ snap \subseteq Fiber /\ kids \subseteq Fiber
      BY <1>1, Runs DEF Host, Typed, TypeOK
    <2> USE DEF Published, Marked, Asked, Snapped, DrainedMeansGone, Draining, Daemons
    <2>2. CASE UNCHANGED vars \/ \E f \in Fiber : Latch(f)
      BY <2>1, <2>2 DEF Host, vars, fiberVars, treeVars, scopeVars, hostVars, Latch
    <2>3. CASE MainReturned
      BY <2>1, <2>3 DEF Host, MainReturned, StaysPublished, fiberVars, treeVars, scopeVars
    <2>4. CASE DrainBegin
      <3>1. /\ host = "drain" /\ host' = "interrupt" /\ shutting' = shutting \cup {Daemons(run)}
            /\ kids' = Children(Daemons(run)) /\ snap' = Children(Daemons(run))
            /\ UNCHANGED <<asked, att, status, run, dscope, expired>>
        BY <2>4 DEF DrainBegin, treeVars
      <3>2. Published' /\ Marked'
        BY <2>1, <3>1
      <3>3. Asked'
        <4>1. ASSUME NEW g \in Fiber, NEW n \in Nat, att[g] = Daemons(n), Daemons(n) \in shutting'
              PROVE  g \in asked \/ (n = run /\ g \in kids')
          <5>1. CASE Daemons(n) \in shutting
            BY <5>1, <4>1, <2>1, <3>1
          <5>2. CASE Daemons(n) \notin shutting
            BY <5>2, <4>1, <3>1 DEF Children
          <5> QED BY <5>1, <5>2
        <4> QED BY <4>1, <3>1
      <3>4. Snapped'
        BY <3>1 DEF Children
      <3> QED BY <3>2, <3>3, <3>4 DEF Host
    <2>5. CASE DrainInterrupt
      <3>1. /\ host = "interrupt"
            /\ UNCHANGED <<att, shutting, status, run, dscope, snap, expired>>
        BY <2>5 DEF DrainInterrupt, treeVars, scopeVars
      <3>2. CASE kids = {}
        <4>1. host' = (IF snap = {} THEN "drained" ELSE "recheck") /\ UNCHANGED <<kids, asked>>
          BY <2>5, <3>2 DEF DrainInterrupt
        <4> QED BY <4>1, <2>1, <3>1, <3>2 DEF Host
      <3>3. CASE kids # {}
        <4>1. PICK k \in kids : kids' = kids \ {k} /\ asked' = asked \cup {k} /\ host' = host
          BY <2>5, <3>3 DEF DrainInterrupt
        <4> QED BY <4>1, <2>1, <3>1 DEF Host
      <3> QED BY <3>2, <3>3
    <2>6. CASE DrainCheck
      <3>1. host = "recheck" /\ host' = (IF NoneLive THEN "drained" ELSE "timedwait")
            /\ UNCHANGED <<asked, att, shutting, status, run, dscope, kids, snap, expired>>
        BY <2>6 DEF DrainCheck, fiberVars, treeVars, scopeVars
      <3>2. NoneLive => \A g \in Fiber : att[g] # Daemons(run)
        BY DEF NoneLive, Children
      <3> QED BY <2>1, <3>1, <3>2 DEF Host
    <2>7. CASE DrainSpurious
      BY <2>1, <2>7 DEF Host, DrainSpurious, fiberVars, treeVars, scopeVars
    <2>8. CASE DrainExpires
      BY <2>1, <2>8 DEF Host, DrainExpires, fiberVars, treeVars, scopeVars
    <2>9. CASE Return
      BY <2>1, <2>9 DEF Host, Return, fiberVars, treeVars, scopeVars
    <2> QED BY <2>2, <2>3, <2>4, <2>5, <2>6, <2>7, <2>8, <2>9 DEF HostStep
  <1> QED BY <1>2, <1>5, <1>6, <1>7, <1>8, <1>9 DEF IInv

(* The system starts with no fiber and no run.                             *)
LEMMA InvInit == Init => IInv
  <1> SUFFICES ASSUME Init
               PROVE  IInv
    OBVIOUS
  <1> USE DEF Init
  <1>1. program \in Program /\ Calls[program] \in Nat /\ 0 \in 0 .. Calls[program]
    BY RunMainAssumption
  <1>2. TypeOK
    <2>1. <<>> \in Seq(Operation \cup {Shutdown}) /\ <<>> \in Seq(Fiber)
      OBVIOUS
    <2> QED BY <1>1, <2>1 DEF TypeOK, NoScope, Idle
  <1>3. Typed
    BY <1>2 DEF Typed, WellFormed, Shaped, MainCode, Spawns
  <1>4. 1 .. run = {}
    OBVIOUS
  <1>5. ToCome
    BY RunMainAssumption DEF ToCome
  <1>6. Tree
    BY <1>1 DEF Tree, Place
  <1>7. Host
    BY <1>4 DEF Host, Published, Marked, Asked, Snapped, DrainedMeansGone
  <1> QED BY <1>3, <1>4, <1>5, <1>6, <1>7 DEF IInv, Untouched

(* And every step keeps it.                                                *)
LEMMA InvNext == IInv /\ [Next]_vars => IInv'
  <1> SUFFICES ASSUME IInv, [Next]_vars
               PROVE  IInv'
    OBVIOUS
  <1>1. Typed
    BY DEF IInv
  <1>2. ASSUME NEW f \in Fiber, FiberStep(f) \/ Wake(f)
        PROVE  IInv'
    <2>1. CASE Executes(f)
      BY <2>1, <1>1, Advances, InvAdvance
    <2>2. CASE SpawnRead(f)
      <3>1. PICK c, s : Reads(f, c, s)
        BY <2>2, <1>1, SpawnReadMeans
      <3> QED BY <3>1, InvSpawnRead
    <2>3. CASE SpawnAttach(f)
      BY <2>3, InvSpawnAttach
    <2>4. CASE SpawnPush(f)
      <3>1. PICK c : Pushes(f, c)
        BY <2>4, <1>1, SpawnPushMeans
      <3> QED BY <3>1, InvSpawnPush
    <2>5. CASE Finish(f) \/ Detach(f)
      BY <2>5, InvEnds
    <2>6. CASE Latch(f)
      BY <2>6, InvHost
    <2> QED BY <1>2, <2>1, <2>2, <2>3, <2>4, <2>5, <2>6 DEF FiberStep, Executes
  <1>3. CASE Publish
    BY <1>3, InvPublish
  <1>4. CASE HostStep \/ DrainSpurious \/ DrainExpires \/ UNCHANGED vars
    BY <1>4, InvHost
  <1> QED BY <1>2, <1>3, <1>4 DEF Next

-----------------------------------------------------------------------------
(* The results.                                                            *)

(* The inductive invariant holds of every behaviour.                       *)
THEOREM RunMainInvariant == Spec => []IInv
  BY InvInit, InvNext, PTL DEF Spec

(* Every variable has its type, whatever the programs.                     *)
THEOREM RunMainTypeCorrect == Spec => []TypeOK
  <1>1. IInv => TypeOK
    BY DEF IInv, Typed
  <1> QED BY <1>1, RunMainInvariant, PTL

(* When a main fiber has ended, so has every fiber it or its descendants   *)
(* forked, other than as a daemon.                                         *)
THEOREM MainEndsLast == Spec => []StructuredFirst
  <1>1. ASSUME IInv
        PROVE  StructuredFirst
    <2>1. ASSUME NEW n \in 1 .. run, Ended(Mains[n]), NEW f \in kin, curScope[f] = n
          PROVE  Ended(f)
      <3>1. AtRest(n)
        BY <2>1, <1>1 DEF IInv, MainRuns
      <3> QED BY <2>1, <3>1 DEF AtRest, Ended
    <2> QED BY <2>1 DEF StructuredFirst
  <1> QED BY <1>1, RunMainInvariant, PTL

(* No daemon forked during a call is left running by it unasked.           *)
THEOREM DaemonsAreAsked == Spec => []NoDaemonEscapes
  <1>1. ASSUME IInv
        PROVE  NoDaemonEscapes
    <2>1. ASSUME NEW f \in Fiber, home[f] # 0, home[f] < run \/ host = "idle",
                 status[f] \in {"Queued", "Running"}
          PROVE  f \in asked
      <3>1. run \in Nat /\ home[f] \in 1 .. run /\ home[f] \in Nat /\ att[f] = Daemons(home[f])
        <4>1. Place(f) /\ run \in Nat
          BY <1>1, Runs DEF IInv, Tree
        <4> QED BY <4>1, <2>1 DEF Place
      <3>2. Daemons(home[f]) \in shutting
        BY <3>1, <2>1, <1>1 DEF IInv, Host, Marked, Draining
      <3> QED BY <3>1, <3>2, <2>1, <1>1 DEF IInv, Host, Asked
    <2> QED BY <2>1 DEF NoDaemonEscapes
  <1> QED BY <1>1, RunMainInvariant, PTL

(* A drain within its budget leaves none of the daemons it found.          *)
THEOREM DrainLeavesNone == Spec => []DrainedMeansGone
  <1>1. IInv => DrainedMeansGone
    BY DEF IInv, Host, Snapped
  <1> QED BY <1>1, RunMainInvariant, PTL

----------------------------------------------------------------------------
(* Race and timeout.                                                       *)

(* What the continuations rely on: how the left fiber stands, and what the *)
(* operation just before one has waited for.                               *)
LeftIsOver == program = "racePure" \/ Ended("left")
RightFirst == order # <<>> /\ order[1] = "right"
Before(s, i, o) == i > 1 /\ s[i - 1] = o

(* The racer: it decides when the signal is there or has been waited for,  *)
(* and returns a result when its loser has ended or has been waited for.   *)
RacerFits(s, i) ==
  LET o == s[i]
  IN /\ o.op \in {"fork", "forkDaemon", "interruptFork", "await", "tryExit", "won"}
     /\ o.op \in {"fork", "forkDaemon"} /\ program = "racePure" => o.obj # "left"
     /\ o.op = "tryExit" =>
          /\ i = Len(s)
          /\ signal \/ Before(s, i, Await("signal"))
          /\ \/ program = "race" /\ o = RaceDecideL
             \/ o = RaceDecideR /\ RightFirst /\ Ended("right")
             \/ program \in Timeouts /\ o = TimeoutDecide
     /\ o.op = "won" =>
          \/ /\ o = Won("left") /\ LeftIsOver
             /\ Ended("right") \/ Before(s, i, Await("right"))
          \/ /\ o = Won("right") /\ RightFirst /\ Ended("right")
             /\ Ended("left") \/ Before(s, i, Await("left"))
          \/ /\ o = Won("fired") /\ RightFirst
             /\ Ended("left") \/ Before(s, i, Await("left"))

(* A watcher completes the signal when its branch has ended.               *)
WatcherFits(b, s, i) ==
  LET o == s[i]
  IN /\ o.op \in {"await", "complete"}
     /\ o.op = "complete" =>
          o.obj = "end" /\ IsBranch(program, b) /\ (Ended(b) \/ Before(s, i, Await(b)))

TimerFits(s, i) ==
  s[i].op \in {"sleep", "sleepZero"} \/ (s[i].op = "complete" /\ s[i].obj = "expiry")

OpFits(f, s, i) ==
  /\ f = "racer" => RacerFits(s, i)
  /\ f = "watchL" => WatcherFits("left", s, i)
  /\ f = "watchR" => WatcherFits("right", s, i)
  /\ f = "right" /\ program \in Timeouts => TimerFits(s, i)
  /\ f \notin OwnFiber(program) => s[i] \in UserOperation \cup {Shutdown}

Fits(f, s) == \A i \in 1 .. Len(s) : OpFits(f, s, i)

(* The history begins with a branch or timer that has come to its end.     *)
First ==
  /\ signal \/ Ended("left") \/ (Ended("right") /\ IsBranch(program, "right")) => order # <<>>
  /\ order # <<>> =>
       /\ order[1] \in {"left", "right"}
       /\ order[1] = "left" => Ended("left")
       /\ order[1] = "right" /\ IsBranch(program, "right") => Ended("right")

Returned ==
  /\ verdict \in {"none", "left", "right", "fired"}
  /\ verdict = "left" => LeftIsOver /\ Ended("right")
  /\ verdict = "right" => RightFirst /\ Ended("left") /\ Ended("right")
  /\ verdict = "fired" => RightFirst /\ Ended("left")

NoLeft == program = "racePure" => status["left"] = "Unborn"

RaceInv ==
  /\ \A f \in Fiber : Fits(f, cur[f])
  /\ First /\ Returned /\ NoLeft

-----------------------------------------------------------------------------
(* What every step leaves as it was.                                       *)

(* A branch that has ended stays so, the signal too, and the history has   *)
(* one beginning.                                                          *)
Keeps ==
  /\ program' = program
  /\ signal => signal'
  /\ \A x \in {"left", "right"} : Ended(x) => Ended(x)'
  /\ order # <<>> => order' # <<>> /\ order'[1] = order[1]

(* A program that fits goes on to do so.                                   *)
LEMMA FitsStay ==
  ASSUME NEW f, NEW s, Fits(f, s), Keeps
  PROVE  Fits(f, s)'
  <1>1. /\ program' = program /\ (signal => signal')
        /\ (Ended("left") => Ended("left")') /\ (Ended("right") => Ended("right")')
        /\ RightFirst => RightFirst'
    BY DEF Keeps, RightFirst
  <1>2. \A b \in {"left", "right"} : Ended(b) => Ended(b)'
    BY DEF Keeps
  <1>3. ASSUME NEW i \in 1 .. Len(s)
        PROVE  OpFits(f, s, i)'
    <2>1. OpFits(f, s, i)
      BY DEF Fits
    <2>2. f = "racer" => RacerFits(s, i)'
      BY <1>1, <2>1 DEF OpFits, RacerFits, Before, LeftIsOver
    <2>3. /\ f = "watchL" => WatcherFits("left", s, i)'
          /\ f = "watchR" => WatcherFits("right", s, i)'
      BY <1>1, <2>1 DEF OpFits, WatcherFits, Before, IsBranch, Timeouts
    <2>4. f = "right" /\ program' \in Timeouts => TimerFits(s, i)'
      BY <1>1, <2>1 DEF OpFits, TimerFits
    <2>5. f \notin OwnFiber(program)' => s[i] \in UserOperation \cup {Shutdown}
      BY <1>1, <2>1 DEF OpFits, OwnFiber
    <2> QED BY <2>2, <2>3, <2>4, <2>5 DEF OpFits, Timeouts, Shutdown, Op
  <1> QED BY <1>3 DEF Fits

(* The same program under another name.                                    *)
LEMMA FitsName ==
  ASSUME NEW f, NEW s, Fits(f, s)', cur'[f] = s
  PROVE  Fits(f, cur[f])'
  BY DEF Fits, OpFits, RacerFits, WatcherFits, TimerFits, Before, LeftIsOver, RightFirst,
         IsBranch, Timeouts, OwnFiber, Shutdown, Op

(* What an operation that is over has waited for.                          *)
Awaited(o) ==
  /\ \A x \in {"left", "right"} : o = Await(x) => Ended(x)
  /\ o = Await("signal") => signal

(* What is left of a program that fits.                                    *)
LEMMA FitsTail ==
  ASSUME NEW f, NEW S, NEW s \in Seq(S), s # <<>>, Fits(f, s), Awaited(s[1])
  PROVE  Fits(f, Tail(s))
  <1>1. PICK t : t = Tail(s)
    BY Zenon
  <1>2. Len(s) \in Nat /\ Len(t) = Len(s) - 1 /\ \A i \in 1 .. Len(t) : t[i] = s[i + 1]
    BY <1>1
  <1>3. ASSUME NEW i \in 1 .. Len(t)
        PROVE  OpFits(f, t, i)
    <2>1. PICK j : j = i + 1
      OBVIOUS
    <2>2. j \in 1 .. Len(s) /\ t[i] = s[j] /\ (j = Len(s) => i = Len(t))
      BY <1>2, <2>1
    <2>3. ASSUME NEW o, Before(s, j, o)
          PROVE  Before(t, i, o) \/ s[1] = o
      <3>1. CASE i = 1
        BY <3>1, <2>1, <2>3 DEF Before
      <3>2. CASE i # 1
        <4>1. i - 1 \in 1 .. Len(t) /\ j - 1 = (i - 1) + 1 /\ i > 1
          BY <3>2, <2>1, <1>2
        <4>2. t[i - 1] = s[j - 1]
          BY <4>1, <1>2
        <4> QED BY <4>1, <4>2, <2>3 DEF Before
      <3> QED BY <3>1, <3>2
    <2>4. OpFits(f, s, j)
      BY <2>2 DEF Fits
    <2>5. f = "racer" => RacerFits(t, i)
      <3>1. Before(s, j, Await("left")) => Before(t, i, Await("left")) \/ Ended("left")
        BY <2>3 DEF Awaited
      <3>2. Before(s, j, Await("right")) => Before(t, i, Await("right")) \/ Ended("right")
        BY <2>3 DEF Awaited
      <3>3. Before(s, j, Await("signal")) => Before(t, i, Await("signal")) \/ signal
        BY <2>3 DEF Awaited
      <3> QED BY <2>2, <2>4, <3>1, <3>2, <3>3 DEF OpFits, RacerFits
    <2>6. ASSUME NEW b \in {"left", "right"}, WatcherFits(b, s, j)
          PROVE  WatcherFits(b, t, i)
      <3>1. Before(s, j, Await(b)) => Before(t, i, Await(b)) \/ Ended(b)
        BY <2>3 DEF Awaited
      <3> QED BY <2>2, <2>6, <3>1 DEF WatcherFits
    <2> QED BY <2>2, <2>4, <2>5, <2>6 DEF OpFits, TimerFits
  <1> QED BY <1>1, <1>3 DEF Fits

(* A step that keeps what has ended and changes one program to one that    *)
(* fits.                                                                   *)
LEMMA RaceKept ==
  ASSUME Typed, RaceInv, Keeps, First', Returned', NoLeft',
         NEW f \in Fiber, NEW s, Fits(f, s), cur' \in {cur, [cur EXCEPT ![f] = s]}
  PROVE  RaceInv'
  <1>1. ASSUME NEW g \in Fiber
        PROVE  Fits(g, cur[g])'
    <2>1. PICK u : u = cur'[g]
      OBVIOUS
    <2>2. u = cur[g] \/ (g = f /\ u = s)
      BY <2>1 DEF Typed, TypeOK
    <2>3. Fits(g, u)
      BY <2>2 DEF RaceInv
    <2> QED BY <2>1, <2>3, FitsStay, FitsName
  <1> QED BY <1>1 DEF RaceInv

(* A step that changes nothing else.                                       *)
LEMMA RaceQuiet ==
  ASSUME Typed, RaceInv, UNCHANGED <<program, raceVars>>,
         \A x \in {"left", "right"} : Ended(x)' <=> Ended(x), NoLeft',
         NEW f \in Fiber, NEW s, Fits(f, s), cur' \in {cur, [cur EXCEPT ![f] = s]}
  PROVE  RaceInv'
  <1>1. /\ program' = program /\ signal' = signal /\ verdict' = verdict /\ order' = order
        /\ (Ended("left")' <=> Ended("left")) /\ (Ended("right")' <=> Ended("right"))
    BY DEF raceVars
  <1>2. Keeps
    BY <1>1 DEF Keeps
  <1>3. First'
    BY <1>1 DEF RaceInv, First, IsBranch, Timeouts
  <1>4. Returned'
    BY <1>1 DEF RaceInv, Returned, LeftIsOver, RightFirst
  <1> QED BY <1>2, <1>3, <1>4, RaceKept

(* What the type invariant says of status.                                 *)
States == {"Unborn", "New", "Queued", "Running", "Done", "Detached"}

(* An active fiber goes on.                                                *)
LEMMA GoesOn ==
  ASSUME Typed, RaceInv, NEW f \in Fiber, Active(f), program' = program,
         status' \in {status, [status EXCEPT ![f] = "Running"]}
  PROVE  NoLeft' /\ \A x \in {"left", "right"} : Ended(x)' <=> Ended(x)
  <1>1. "left" \in Fiber /\ "right" \in Fiber
    BY RaceAssumption
  <1>2. \A x \in {"left", "right"} : status'[x] = status[x] \/ (x = f /\ status'[x] = "Running")
    BY SMTT(30), <1>1 DEF Typed, TypeOK
  <1> QED BY <1>2 DEF Active, Ended, NoLeft, RaceInv

-----------------------------------------------------------------------------
(* The programs of race.c.                                                 *)

(* A program of a user, with or without what krt2_run_main adds to it.     *)
LEMMA UserFits ==
  ASSUME NEW f, f \notin OwnFiber(program), NEW s,
         \A i \in 1 .. Len(s) : s[i] \in UserOperation \cup {Shutdown}
  PROVE  Fits(f, s)
  <1>1. f # "racer" /\ f # "watchL" /\ f # "watchR" /\ ~(f = "right" /\ program \in Timeouts)
    BY DEF OwnFiber
  <1> QED BY <1>1 DEF Fits, OpFits

(* The empty program.                                                      *)
LEMMA EmptyFits ==
  ASSUME NEW f
  PROVE  Fits(f, <<>>)
  BY DEF Fits

(* The operations of a program put together.                               *)
LEMMA ThreeOps ==
  ASSUME NEW a, NEW b, NEW c, NEW t, t = <<a, b>> \o <<c>>
  PROVE  /\ t \in Seq({a, b, c}) /\ Len(t) = 3
         /\ t[1] = a /\ t[2] = b /\ t[3] = c
  <1>1. PICK u, w : u = <<a, b>> /\ w = <<c>>
    OBVIOUS
  <1>2. PICK S : S = {a, b, c}
    OBVIOUS
  <1>3. u \in Seq(S) /\ w \in Seq(S) /\ Len(u) = 2 /\ Len(w) = 1 /\ u[1] = a /\ u[2] = b /\ w[1] = c
    BY <1>1, <1>2
  <1>4. t = u \o w
    BY <1>1
  <1>5. t \in Seq(S) /\ Len(t) = 3
    BY <1>3, <1>4
  <1>6. \A i \in 1 .. 3 : t[i] = IF i <= 2 THEN u[i] ELSE w[i - 2]
    BY <1>3, <1>4
  <1>7. t[1] = u[1] /\ t[2] = u[2] /\ t[3] = w[1]
    BY <1>6
  <1> QED BY <1>2, <1>3, <1>5, <1>7

(* Where the elements of two sequences are in their concatenation.         *)
LEMMA Concatenation ==
  ASSUME NEW S, NEW u \in Seq(S), NEW v \in Seq(S), NEW t, t = u \o v
  PROVE  /\ t \in Seq(S) /\ Len(t) = Len(u) + Len(v)
         /\ \A i \in 1 .. Len(t) : t[i] = IF i <= Len(u) THEN u[i] ELSE v[i - Len(u)]
  OBVIOUS

(* And of a longer one.                                                    *)
LEMMA FourOps ==
  ASSUME NEW d, NEW a, NEW b, NEW c, NEW t, t = (<<d>> \o <<a, b>>) \o <<c>>
  PROVE  Len(t) = 4 /\ t[1] = d /\ t[2] = a /\ t[3] = b /\ t[4] = c
  <1>1. PICK u, v, w : u = <<d>> /\ v = <<a, b>> /\ w = <<c>>
    OBVIOUS
  <1>2. PICK S : a \in S /\ b \in S /\ c \in S /\ d \in S
    <2>1. \E S : S = {a, b, c, d}
      OBVIOUS
    <2> QED BY <2>1
  <1>3. /\ u \in Seq(S) /\ v \in Seq(S) /\ w \in Seq(S)
        /\ Len(u) = 1 /\ Len(v) = 2 /\ Len(w) = 1 /\ u[1] = d /\ v[1] = a /\ v[2] = b /\ w[1] = c
    BY <1>1, <1>2
  <1>4. PICK x : x = u \o v
    OBVIOUS
  <1>5. t = x \o w
    BY <1>1, <1>4
  <1>6. /\ x \in Seq(S) /\ Len(x) = 3
        /\ \A i \in 1 .. 3 : x[i] = IF i <= 1 THEN u[i] ELSE v[i - 1]
    <2>1. u \in Seq(S) /\ v \in Seq(S)
      BY <1>3
    <2>2. x \in Seq(S) /\ Len(x) = Len(u) + Len(v)
      BY <2>1, <1>4, Concatenation
    <2>3. \A i \in 1 .. Len(x) : x[i] = IF i <= Len(u) THEN u[i] ELSE v[i - Len(u)]
      BY <2>1, <1>4, Concatenation
    <2> QED BY <2>2, <2>3, <1>3
  <1>7. x[1] = d /\ x[2] = a /\ x[3] = b
    BY <1>3, <1>6
  <1>8. /\ Len(t) = 4
        /\ \A i \in 1 .. 4 : t[i] = IF i <= 3 THEN x[i] ELSE w[i - 3]
    <2>1. /\ Len(t) = Len(x) + Len(w)
          /\ \A i \in 1 .. Len(t) : t[i] = IF i <= Len(x) THEN x[i] ELSE w[i - Len(x)]
      BY <1>3, <1>5, <1>6, Concatenation
    <2> QED BY <2>1, <1>3, <1>6
  <1> QED BY <1>3, <1>7, <1>8

(* The loser is interrupted and waited for, then the result returned.      *)
LEMMA StopFits ==
  ASSUME NEW x \in {"left", "right"}, NEW v,
         \/ v = "left" /\ x = "right" /\ LeftIsOver
         \/ v = "right" /\ x = "left" /\ RightFirst /\ Ended("right")
         \/ v = "fired" /\ x = "left" /\ RightFirst
  PROVE  Fits("racer", Interrupt(x) \o <<Won(v)>>)
  <1>1. PICK s : s = Interrupt(x) \o <<Won(v)>>
    OBVIOUS
  <1>2. Len(s) = 3 /\ s[1] = Op("interruptFork", x) /\ s[2] = Await(x) /\ s[3] = Won(v)
    BY <1>1, ThreeOps DEF Interrupt
  <1>3. RacerFits(s, 1)
    BY <1>2 DEF RacerFits, Op
  <1>4. RacerFits(s, 2)
    BY <1>2 DEF RacerFits, Await, Op
  <1>5. RacerFits(s, 3)
    <2>1. Before(s, 3, Await(x))
      BY <1>2 DEF Before
    <2>2. s[3] = Won(v) /\ s[3].op = "won"
      BY <1>2 DEF Won, Op
    <2> QED BY <2>1, <2>2 DEF RacerFits
  <1>6. \A i \in 1 .. Len(s) : RacerFits(s, i)
    BY <1>2, <1>3, <1>4, <1>5
  <1>7. Fits("racer", s)
    BY <1>6 DEF Fits, OpFits, OwnFiber
  <1> QED BY <1>1, <1>7

(* What race or timeout decides when the signal is there.                  *)
LEMMA DecisionFits ==
  ASSUME RaceInv, signal, NEW o,
         \/ program = "race" /\ o = RaceDecideL
         \/ o = RaceDecideR /\ RightFirst /\ Ended("right")
         \/ program \in Timeouts /\ o = TimeoutDecide
  PROVE  Fits("racer", IF Ended(o.obj) THEN o.some ELSE o.none)
  <1>1. order # <<>> /\ order[1] \in {"left", "right"} /\ (order[1] = "left" => Ended("left"))
        /\ (order[1] = "right" /\ IsBranch(program, "right") => Ended("right"))
    BY DEF RaceInv, First
  <1>2. CASE program = "race" /\ o = RaceDecideL
    <2>1. o.obj = "left" /\ o.some = Interrupt("right") \o <<Won("left")>> /\ o.none = <<RaceDecideR>>
      BY <1>2 DEF RaceDecideL, TryExit
    <2>2. CASE Ended("left")
      BY <2>1, <2>2, StopFits DEF LeftIsOver
    <2>3. CASE ~Ended("left")
      <3>1. RightFirst /\ Ended("right")
        BY <2>3, <1>1, <1>2 DEF RightFirst, IsBranch, Timeouts
      <3>2. PICK s : s = <<RaceDecideR>>
        OBVIOUS
      <3>3. Len(s) = 1 /\ s[1] = RaceDecideR
        BY <3>2
      <3>4. RaceDecideR.op = "tryExit"
        BY DEF RaceDecideR, TryExit
      <3>5. RacerFits(s, 1)
        BY <3>1, <3>3, <3>4 DEF RacerFits
      <3>6. Fits("racer", s)
        BY <3>3, <3>5 DEF Fits, OpFits, OwnFiber
      <3> QED BY <2>1, <2>3, <3>2, <3>6
    <2> QED BY <2>2, <2>3
  <1>3. CASE o = RaceDecideR /\ RightFirst /\ Ended("right")
    <2>1. o.obj = "right" /\ o.some = Interrupt("left") \o <<Won("right")>>
      BY <1>3 DEF RaceDecideR, TryExit
    <2> QED BY <2>1, <1>3, StopFits
  <1>4. CASE program \in Timeouts /\ o = TimeoutDecide
    <2>1. o.obj = "left" /\ o.some = Interrupt("right") \o <<Won("left")>>
          /\ o.none = Interrupt("left") \o <<Won("fired")>>
      BY <1>4 DEF TimeoutDecide, TryExit
    <2>2. CASE Ended("left")
      BY <2>1, <2>2, StopFits DEF LeftIsOver
    <2>3. CASE ~Ended("left")
      BY <2>1, <2>3, <1>1, StopFits DEF RightFirst
    <2> QED BY <2>2, <2>3
  <1> QED BY <1>2, <1>3, <1>4

(* The watchers, and the timer.                                            *)
LEMMA SignalFits ==
  ASSUME NEW f, NEW o, NEW e,
         \/ f = "watchL" /\ o = Await("left") /\ e = "end"
         \/ f = "watchR" /\ o = Await("right") /\ e = "end" /\ IsBranch(program, "right")
         \/ f = "right" /\ program \in Timeouts /\ o.op \in {"sleep", "sleepZero"} /\ e = "expiry"
  PROVE  Fits(f, SignalOn(o, e))
  <1>1. PICK s : s = SignalOn(o, e)
    OBVIOUS
  <1>2. Len(s) = 2 /\ s[1] = o /\ s[2] = Op("complete", e)
    BY <1>1 DEF SignalOn
  <1>3. ASSUME NEW b \in {"left", "right"}, o = Await(b), e = "end", IsBranch(program, b)
        PROVE  WatcherFits(b, s, 1) /\ WatcherFits(b, s, 2)
    BY <1>2, <1>3 DEF WatcherFits, Before, Await, Op
  <1>4. f = "right" => TimerFits(s, 1) /\ TimerFits(s, 2)
    BY <1>2 DEF TimerFits, Op
  <1>5. IsBranch(program, "left")
    BY DEF IsBranch
  <1>6. f \in OwnFiber(program)
    BY DEF OwnFiber
  <1>7. OpFits(f, s, 1) /\ OpFits(f, s, 2)
    BY <1>3, <1>4, <1>5, <1>6 DEF OpFits
  <1> QED BY <1>1, <1>2, <1>7 DEF Fits

(* race and timeout from their beginning.                                  *)
LEMMA CombinatorFits == Fits("racer", Combinator(program))
  <1> DEFINE s == Combinator(program)
  <1> SUFFICES \A i \in 1 .. Len(s) : RacerFits(s, i)
    BY DEF Fits, OpFits, OwnFiber
  <1>1. CASE program = "race"
    <2>1. s = Race
      BY <1>1 DEF Combinator
    <2> HIDE DEF s
    <2>2. /\ Len(s) = 6
          /\ s[1] = Fork("left") /\ s[2] = Fork("right") /\ s[3] = ForkDaemon("watchL")
          /\ s[4] = ForkDaemon("watchR") /\ s[5] = Await("signal") /\ s[6] = RaceDecideL
      BY <2>1 DEF Race
    <2>3. \A i \in 1 .. 5 : s[i].op \in {"fork", "forkDaemon", "await"}
      BY <2>2 DEF Fork, ForkDaemon, Await, Op
    <2>4. s[6].op = "tryExit" /\ Before(s, 6, Await("signal"))
      BY <2>2 DEF Before, RaceDecideL, TryExit
    <2>5. \A i \in 1 .. 5 : RacerFits(s, i)
      BY <2>3, <1>1 DEF RacerFits
    <2>6. RacerFits(s, 6)
      BY <2>2, <2>4, <1>1 DEF RacerFits
    <2> QED BY <2>2, <2>5, <2>6
  <1>2. CASE program = "racePure"
    <2>1. s = (<<Fork("right")>> \o <<Op("interruptFork", "right"), Await("right")>>) \o <<Won("left")>>
      BY <1>2 DEF Combinator, RacePure, Interrupt
    <2> HIDE DEF s
    <2>2. /\ Len(s) = 4
          /\ s[1] = Fork("right") /\ s[2] = Op("interruptFork", "right") /\ s[3] = Await("right")
          /\ s[4] = Won("left")
      BY <2>1, FourOps
    <2>3. RacerFits(s, 1) /\ RacerFits(s, 2) /\ RacerFits(s, 3)
      BY <2>2 DEF RacerFits, Fork, Await, Op
    <2>4. s[4].op = "won" /\ Before(s, 4, Await("right")) /\ LeftIsOver
      BY <2>2, <1>2 DEF Before, LeftIsOver, Won, Op
    <2>5. RacerFits(s, 4)
      BY <2>2, <2>4 DEF RacerFits
    <2> QED BY <2>2, <2>3, <2>5
  <1>3. CASE program \in Timeouts
    <2>1. s = Timeout /\ program # "racePure"
      BY <1>3 DEF Combinator, Timeouts
    <2> HIDE DEF s
    <2>2. /\ Len(s) = 5
          /\ s[1] = Fork("left") /\ s[2] = ForkDaemon("right") /\ s[3] = ForkDaemon("watchL")
          /\ s[4] = Await("signal") /\ s[5] = TimeoutDecide
      BY <2>1 DEF Timeout
    <2>3. \A i \in 1 .. 4 : s[i].op \in {"fork", "forkDaemon", "await"}
      BY <2>2 DEF Fork, ForkDaemon, Await, Op
    <2>4. s[5].op = "tryExit" /\ Before(s, 5, Await("signal"))
      BY <2>2 DEF Before, TimeoutDecide, TryExit
    <2>5. \A i \in 1 .. 4 : RacerFits(s, i)
      BY <2>1, <2>3 DEF RacerFits
    <2>6. RacerFits(s, 5)
      BY <2>2, <2>4, <1>3 DEF RacerFits
    <2> QED BY <2>2, <2>5, <2>6
  <1>4. CASE program \notin {"race", "racePure"} \cup Timeouts
    BY <1>4 DEF Combinator
  <1> QED BY <1>1, <1>2, <1>3, <1>4

(* Every fiber is born with a program that fits.                           *)
LEMMA CodeFits ==
  ASSUME program \in Program, NEW f \in Fiber
  PROVE  Fits(f, Code[program][f])
  <1>1. CASE f \notin OwnFiber(program)
    <2>1. Code[program][f] \in Seq(UserOperation)
      BY <1>1, RaceAssumption
    <2> QED BY <1>1, <2>1, UserFits
  <1>2. CASE f \in OwnFiber(program)
    <2>1. Code[program][f] = OwnCode(program, f)
      BY <1>2, RaceAssumption
    <2>2. CASE f = "racer"
      BY <2>1, <2>2, CombinatorFits DEF OwnCode
    <2>3. CASE f = "watchL"
      BY <2>1, <2>3, SignalFits DEF OwnCode
    <2>4. CASE f = "watchR"
      BY <2>1, <2>4, SignalFits, EmptyFits DEF OwnCode, IsBranch, Timeouts
    <2>5. CASE f = "right" /\ program \in Timeouts
      <3>1. PICK o : o = IF program = "timeoutNow" THEN Op("sleepZero", "timer") ELSE Sleep
        OBVIOUS
      <3>2. o.op \in {"sleep", "sleepZero"}
        BY <3>1 DEF Sleep, Op
      <3>3. Code[program][f] = SignalOn(o, "expiry")
        BY <2>1, <2>5, <3>1 DEF OwnCode, Timer
      <3> QED BY <2>5, <3>2, <3>3, SignalFits
    <2> QED BY <1>2, <2>2, <2>3, <2>4, <2>5 DEF OwnFiber
  <1> QED BY <1>1, <1>2

(* And with exit actions that do.                                          *)
LEMMA CleanupFits ==
  ASSUME program \in Program, NEW f \in Fiber
  PROVE  Fits(f, Cleanup(f))
  <1>1. CASE status[f] = "Queued"
    BY <1>1, EmptyFits DEF Cleanup
  <1>2. CASE status[f] # "Queued" /\ f \in OwnFiber(program)
    <2>1. OnInterrupt[program][f] = <<>> /\ ~IsMain(f)
      BY <1>2, RaceAssumption DEF OwnFiber, IsMain
    <2>2. Cleanup(f) = <<>> \o <<>>
      BY <1>2, <2>1 DEF Cleanup
    <2>3. <<>> \o <<>> = <<>>
      OBVIOUS
    <2> QED BY <2>2, <2>3, EmptyFits
  <1>3. CASE status[f] # "Queued" /\ f \notin OwnFiber(program)
    <2>1. PICK a \in Seq(UserOperation) : a = OnInterrupt[program][f]
      BY <1>3, RaceAssumption
    <2>2. PICK b : b = IF IsMain(f) THEN <<Shutdown>> ELSE <<>>
      OBVIOUS
    <2>3. b \in Seq(UserOperation \cup {Shutdown}) /\ a \in Seq(UserOperation \cup {Shutdown})
      <3>1. <<Shutdown>> \in Seq(UserOperation \cup {Shutdown}) /\ <<>> \in Seq(UserOperation \cup {Shutdown})
        OBVIOUS
      <3>2. a \in Seq(UserOperation \cup {Shutdown})
        BY <2>1
      <3>3. CASE IsMain(f)
        BY <2>2, <3>1, <3>2, <3>3
      <3>4. CASE ~IsMain(f)
        BY <2>2, <3>1, <3>2, <3>4
      <3> QED BY <3>3, <3>4
    <2>4. Cleanup(f) = a \o b
      BY <1>3, <2>1, <2>2 DEF Cleanup
    <2>5. a \o b \in Seq(UserOperation \cup {Shutdown})
      BY <2>3
    <2>6. PICK s : s = Cleanup(f)
      OBVIOUS
    <2>7. \A i \in 1 .. Len(s) : s[i] \in UserOperation \cup {Shutdown}
      BY <2>4, <2>5, <2>6
    <2> QED BY <1>3, <2>6, <2>7, UserFits
  <1> QED BY <1>1, <1>2, <1>3

-----------------------------------------------------------------------------
(* The operations.                                                         *)

(* What the operation a fiber is at fits.                                  *)
LEMMA AtFits ==
  ASSUME Typed, RaceInv, NEW f \in Fiber, cur[f] # <<>>
  PROVE  /\ cur[f] \in Seq(Operation \cup {Shutdown}) /\ Len(cur[f]) \in Nat \ {0}
         /\ Head(cur[f]) = cur[f][1] /\ Fits(f, cur[f]) /\ OpFits(f, cur[f], 1)
         /\ \A o : ~Before(cur[f], 1, o)
  <1>1. cur[f] \in Seq(Operation \cup {Shutdown}) /\ Fits(f, cur[f])
    BY DEF Typed, TypeOK, RaceInv
  <1>2. Len(cur[f]) \in Nat \ {0} /\ Head(cur[f]) = cur[f][1]
    BY <1>1
  <1>3. OpFits(f, cur[f], 1)
    BY <1>1, <1>2 DEF Fits
  <1> QED BY <1>1, <1>2, <1>3 DEF Before

(* Only a user's fiber is at an operation that race.c does not build.      *)
LEMMA UsersOperation ==
  ASSUME Typed, RaceInv, NEW f \in Fiber, cur[f] # <<>>,
         cur[f][1].op # "shutdown", f \notin OwnFiber(program)
  PROVE  cur[f][1] \in UserOperation
  <1>1. cur[f][1] \in UserOperation \cup {Shutdown} /\ Shutdown.op = "shutdown"
    BY AtFits DEF OpFits, Shutdown, Op
  <1> QED BY <1>1

(* The rest of a program.                                                  *)
LEMMA NextFits ==
  ASSUME Typed, RaceInv, NEW f \in Fiber, cur[f] # <<>>, Awaited(cur[f][1])
  PROVE  Fits(f, Tail(cur[f]))
  <1>1. PICK s : s = cur[f]
    OBVIOUS
  <1>2. s \in Seq(Operation \cup {Shutdown}) /\ s # <<>> /\ Fits(f, s) /\ Awaited(s[1])
    BY <1>1, AtFits
  <1>3. Fits(f, Tail(s))
    BY <1>2, FitsTail
  <1> QED BY <1>1, <1>3

(* Nothing but an await waits for what a continuation relies on.           *)
LEMMA OthersAwaitNothing ==
  ASSUME NEW o, o.op # "await"
  PROVE  Awaited(o)
  BY DEF Awaited, Await, Op

(* A user's program with one of its own in the place of an operation.      *)
LEMMA InsertFits ==
  ASSUME NEW f, f \notin OwnFiber(program), NEW s \in Seq(Operation \cup {Shutdown}), s # <<>>,
         Fits(f, s), NEW b \in Seq(UserOperation)
  PROVE  Fits(f, b \o Tail(s))
  <1>1. PICK t : t = Tail(s)
    BY Zenon
  <1>2. /\ Len(s) \in Nat /\ t \in Seq(Operation \cup {Shutdown}) /\ Len(t) = Len(s) - 1
        /\ \A i \in 1 .. Len(t) : t[i] = s[i + 1]
    BY <1>1
  <1>3. \A i \in 1 .. Len(s) : s[i] \in UserOperation \cup {Shutdown}
    BY DEF Fits, OpFits
  <1>4. \A i \in 1 .. Len(t) : t[i] \in UserOperation \cup {Shutdown}
    BY <1>2, <1>3
  <1>5. b \in Seq(Operation \cup {Shutdown}) /\ \A i \in 1 .. Len(b) : b[i] \in UserOperation
    <2>1. UserOperation \subseteq Operation \cup {Shutdown}
      BY RaceAssumption
    <2> QED BY <2>1
  <1>6. PICK x : x = b \o t
    OBVIOUS
  <1>7. Len(x) = Len(b) + Len(t) /\ \A i \in 1 .. Len(x) : x[i] = IF i <= Len(b) THEN b[i] ELSE t[i - Len(b)]
    <2>1. PICK S : S = Operation \cup {Shutdown}
      OBVIOUS
    <2>2. b \in Seq(S) /\ t \in Seq(S)
      BY <2>1, <1>2, <1>5
    <2>3. Len(x) = Len(b) + Len(t)
      BY <2>2, <1>6, Concatenation
    <2>4. \A i \in 1 .. Len(x) : x[i] = IF i <= Len(b) THEN b[i] ELSE t[i - Len(b)]
      BY <2>2, <1>6, Concatenation
    <2> QED BY <2>3, <2>4
  <1>8. ASSUME NEW i \in 1 .. Len(x)
        PROVE  x[i] \in UserOperation \cup {Shutdown}
    <2>1. Len(b) \in Nat /\ Len(t) \in Nat
      BY <1>2, <1>5
    <2>2. CASE i <= Len(b)
      BY <2>1, <2>2, <1>5, <1>7
    <2>3. CASE ~(i <= Len(b))
      <3>1. i - Len(b) \in 1 .. Len(t)
        BY <2>1, <2>3, <1>7
      <3> QED BY <2>3, <3>1, <1>4, <1>7
    <2> QED BY <2>2, <2>3
  <1>9. Fits(f, x)
    BY <1>8, UserFits
  <1> QED BY <1>1, <1>6, <1>9

(* A result stays justified.                                               *)
LEMMA ReturnedKept ==
  ASSUME Returned, Keeps, verdict' = verdict
  PROVE  Returned'
  <1>1. /\ program' = program
        /\ (Ended("left") => Ended("left")') /\ (Ended("right") => Ended("right")')
        /\ RightFirst => RightFirst'
    BY DEF Keeps, RightFirst
  <1> QED BY <1>1 DEF Returned, LeftIsOver

(* The history grows at its end.                                           *)
LEMMA HistoryGrows ==
  ASSUME Typed, NEW f \in Fiber, order' = Append(order, f)
  PROVE  /\ order' # <<>>
         /\ order # <<>> => order'[1] = order[1]
         /\ order = <<>> => order'[1] = f
  <1>1. order \in Seq(Fiber)
    BY DEF Typed, TypeOK
  <1>2. order' \in Seq(Fiber) /\ Len(order') = Len(order) + 1 /\ Len(order) \in Nat
    BY <1>1
  <1>3. \A i \in 1 .. Len(order') : order'[i] = IF i <= Len(order) THEN order[i] ELSE f
    BY <1>1
  <1>4. order' # <<>>
    BY <1>2
  <1>5. order # <<>> => order'[1] = order[1]
    <2>1. order # <<>> => Len(order) >= 1
      BY <1>1
    <2> QED BY <2>1, <1>2, <1>3
  <1>6. order = <<>> => order'[1] = f
    <2>1. order = <<>> => Len(order) = 0
      OBVIOUS
    <2> QED BY <2>1, <1>2, <1>3
  <1> QED BY <1>4, <1>5, <1>6

(* An operation with no effect on race and timeout but to be over.         *)
LEMMA RaceNext1 ==
  ASSUME Typed, RaceInv, NEW f \in Fiber, Active(f), cur[f] # <<>>, Awaited(cur[f][1]),
         cur' \in {cur, [cur EXCEPT ![f] = Tail(cur[f])]},
         status' \in {status, [status EXCEPT ![f] = "Running"]},
         UNCHANGED <<program, raceVars>>
  PROVE  RaceInv'
  <1>1. PICK s : s = Tail(cur[f])
    BY Zenon
  <1>2. Fits(f, s)
    BY <1>1, NextFits
  <1>3. NoLeft' /\ \A x \in {"left", "right"} : Ended(x)' <=> Ended(x)
    BY GoesOn
  <1>4. cur' \in {cur, [cur EXCEPT ![f] = s]}
    BY <1>1
  <1> QED BY <1>2, <1>3, <1>4, RaceQuiet

(* race or timeout decides; or a user looks whether a fiber has ended.     *)
LEMMA RaceTryExit ==
  ASSUME Typed, RaceInv, NEW f \in Fiber, TryExitStep(f)
  PROVE  RaceInv'
  <1>1. /\ Active(f) /\ cur[f] # <<>> /\ Head(cur[f]) = cur[f][1] /\ cur[f][1].op = "tryExit"
        /\ cur[f][1] \in Operation
    <2>1. At(f, "tryExit")
      BY DEF TryExitStep
    <2> QED BY <2>1, AtMeans
  <1>2. PICK o : o = cur[f][1]
    OBVIOUS
  <1>3. PICK b : b = IF Ended(o.obj) THEN o.some ELSE o.none
    OBVIOUS
  <1>4. b \in Seq(Operation)
    BY <1>1, <1>2, <1>3, RunMainAssumption
  <1>5. PICK s : s = b \o Tail(cur[f])
    BY Zenon
  <1>6. /\ cur' = [cur EXCEPT ![f] = s] /\ status' = [status EXCEPT ![f] = "Running"]
        /\ UNCHANGED <<program, raceVars>>
    BY <1>1, <1>2, <1>3, <1>5 DEF TryExitStep, Goto
  <1>7. Fits(f, s)
    <2>1. CASE f \notin OwnFiber(program)
      <3>1. o \in UserOperation
        BY <2>1, <1>1, <1>2, UsersOperation
      <3>2. b \in Seq(UserOperation)
        BY <3>1, <1>1, <1>2, <1>3, RaceAssumption
      <3> QED BY <2>1, <3>2, <1>1, <1>5, AtFits, InsertFits
    <2>2. CASE f \in OwnFiber(program)
      <3>1. f = "racer"
        BY <2>2, <1>1, AtFits DEF OwnFiber, OpFits, WatcherFits, TimerFits
      <3>2. RacerFits(cur[f], 1) /\ ~Before(cur[f], 1, Await("signal"))
        BY <3>1, <1>1, AtFits DEF OpFits
      <3>3. /\ Len(cur[f]) = 1 /\ signal
            /\ \/ program = "race" /\ o = RaceDecideL
               \/ o = RaceDecideR /\ RightFirst /\ Ended("right")
               \/ program \in Timeouts /\ o = TimeoutDecide
        BY <3>2, <1>1, <1>2 DEF RacerFits
      <3>4. Tail(cur[f]) = <<>>
        BY <3>3, <1>1, AtFits, Single
      <3>5. s = b
        BY <3>4, <1>4, <1>5, ConcatEmptySeq
      <3> QED BY <3>1, <3>3, <3>5, <1>3, DecisionFits
    <2> QED BY <2>1, <2>2
  <1>8. NoLeft' /\ \A x \in {"left", "right"} : Ended(x)' <=> Ended(x)
    BY <1>1, <1>6, GoesOn
  <1> QED BY <1>6, <1>7, <1>8, RaceQuiet

(* A user's program takes one of its ways.                                 *)
LEMMA RaceChoose ==
  ASSUME Typed, RaceInv, NEW f \in Fiber, Choose(f)
  PROVE  RaceInv'
  <1>1. /\ Active(f) /\ cur[f] # <<>> /\ Head(cur[f]) = cur[f][1] /\ cur[f][1].op = "either"
    <2>1. At(f, "either")
      BY DEF Choose
    <2> QED BY <2>1, AtMeans
  <1>2. f \notin OwnFiber(program)
    BY <1>1, AtFits DEF OwnFiber, OpFits, RacerFits, WatcherFits, TimerFits
  <1>3. cur[f][1] \in UserOperation
    BY <1>1, <1>2, UsersOperation
  <1>4. PICK b \in {Head(cur[f]).some, Head(cur[f]).none} : cur' = [cur EXCEPT ![f] = b \o Tail(@)]
    BY DEF Choose
  <1>5. b \in Seq(UserOperation)
    BY <1>1, <1>3, <1>4, RaceAssumption
  <1>6. PICK s : s = b \o Tail(cur[f])
    BY Zenon
  <1>7. Fits(f, s)
    BY <1>1, <1>2, <1>5, <1>6, AtFits, InsertFits
  <1>8. cur' = [cur EXCEPT ![f] = s] /\ status' = status /\ UNCHANGED <<program, raceVars>>
    BY <1>4, <1>6 DEF Choose
  <1>9. NoLeft' /\ \A x \in {"left", "right"} : Ended(x)' <=> Ended(x)
    BY <1>1, <1>8, GoesOn
  <1> QED BY <1>7, <1>8, <1>9, RaceQuiet

(* The signal is given, by a watcher or the timer.                         *)
LEMMA RaceComplete ==
  ASSUME Typed, RaceInv, NEW f \in Fiber, Complete(f)
  PROVE  RaceInv'
  <1>1. /\ Active(f) /\ cur[f] # <<>> /\ Head(cur[f]) = cur[f][1] /\ cur[f][1].op = "complete"
    <2>1. At(f, "complete")
      BY DEF Complete
    <2> QED BY <2>1, AtMeans
  <1>2. /\ cur' = [cur EXCEPT ![f] = Tail(cur[f])] /\ status' = [status EXCEPT ![f] = "Running"]
        /\ program' = program /\ verdict' = verdict /\ signal'
        /\ order' = IF cur[f][1].obj = "expiry" THEN Append(order, f) ELSE order
    BY <1>1 DEF Complete, Next1, Goto
  <1>3. PICK s : s = Tail(cur[f])
    BY Zenon
  <1>4. Fits(f, s)
    BY <1>1, <1>3, NextFits, OthersAwaitNothing
  <1>5. NoLeft' /\ \A x \in {"left", "right"} : Ended(x)' <=> Ended(x)
    BY <1>1, <1>2, GoesOn
  <1>6. \/ /\ cur[f][1].obj = "end"
           /\ Ended("left") \/ (Ended("right") /\ IsBranch(program, "right"))
        \/ f = "right" /\ ~IsBranch(program, "right") /\ cur[f][1].obj = "expiry"
    <2>1. f \in OwnFiber(program)
      <3>1. ASSUME f \notin OwnFiber(program)
            PROVE  FALSE
        BY <3>1, <1>1, UsersOperation, RaceAssumption
      <3> QED BY <3>1
    <2>2. OpFits(f, cur[f], 1) /\ \A o : ~Before(cur[f], 1, o)
      BY <1>1, AtFits
    <2>3. f # "racer"
      BY <2>2, <1>1 DEF OpFits, RacerFits
    <2>4. CASE f = "watchL"
      BY <2>2, <2>4, <1>1 DEF OpFits, WatcherFits
    <2>5. CASE f = "watchR"
      BY <2>2, <2>5, <1>1 DEF OpFits, WatcherFits
    <2>6. CASE f = "right" /\ program \in Timeouts
      BY <2>2, <2>6, <1>1 DEF OpFits, TimerFits, IsBranch
    <2> QED BY <2>1, <2>3, <2>4, <2>5, <2>6 DEF OwnFiber
  <1>7. order # <<>> => order' # <<>> /\ order'[1] = order[1]
    BY <1>2, HistoryGrows
  <1>8. Keeps
    BY <1>2, <1>5, <1>7 DEF Keeps
  <1>9. First'
    <2>1. First
      BY DEF RaceInv
    <2>2. IsBranch(program, "right")' <=> IsBranch(program, "right")
      BY <1>2 DEF IsBranch, Timeouts
    <2>3. /\ Ended("left")' <=> Ended("left")
          /\ Ended("right")' <=> Ended("right")
      BY <1>5
    <2>4. CASE cur[f][1].obj = "end"
      <3>1. order' = order
        BY <2>4, <1>2
      <3>2. order # <<>>
        BY <2>1, <2>4, <1>6 DEF First
      <3> QED BY <2>1, <2>2, <2>3, <3>1, <3>2 DEF First
    <2>5. CASE f = "right" /\ ~IsBranch(program, "right") /\ cur[f][1].obj = "expiry"
      <3>1. order' # <<>> /\ (order = <<>> => order'[1] = "right")
        BY <2>5, <1>2, HistoryGrows
      <3> QED BY <2>1, <2>2, <2>3, <2>5, <3>1, <1>7 DEF First
    <2> QED BY <2>4, <2>5, <1>6
  <1>10. Returned'
    BY <1>2, <1>8, ReturnedKept DEF RaceInv
  <1>11. cur' \in {cur, [cur EXCEPT ![f] = s]}
    BY <1>2, <1>3
  <1> QED BY <1>4, <1>5, <1>8, <1>9, <1>10, <1>11, RaceKept

(* race or timeout returns its result.                                     *)
LEMMA RaceWin ==
  ASSUME Typed, RaceInv, NEW f \in Fiber, Win(f)
  PROVE  RaceInv'
  <1>1. /\ Active(f) /\ cur[f] # <<>> /\ Head(cur[f]) = cur[f][1] /\ cur[f][1].op = "won"
    <2>1. At(f, "won")
      BY DEF Win
    <2> QED BY <2>1, AtMeans
  <1>2. /\ cur' = [cur EXCEPT ![f] = Tail(cur[f])] /\ status' = [status EXCEPT ![f] = "Running"]
        /\ program' = program /\ verdict' = cur[f][1].obj /\ signal' = signal /\ order' = order
    BY <1>1 DEF Win, Next1, Goto
  <1>3. PICK s : s = Tail(cur[f])
    BY Zenon
  <1>4. Fits(f, s)
    BY <1>1, <1>3, NextFits, OthersAwaitNothing
  <1>5. NoLeft' /\ \A x \in {"left", "right"} : Ended(x)' <=> Ended(x)
    BY <1>1, <1>2, GoesOn
  <1>6. /\ Ended("left")' <=> Ended("left")
        /\ Ended("right")' <=> Ended("right")
    BY <1>5
  <1>7. f = "racer"
    <2>1. f \in OwnFiber(program)
      <3>1. ASSUME f \notin OwnFiber(program)
            PROVE  FALSE
        BY <3>1, <1>1, UsersOperation, RaceAssumption
      <3> QED BY <3>1
    <2>2. OpFits(f, cur[f], 1)
      BY <1>1, AtFits
    <2> QED BY <2>1, <2>2, <1>1 DEF OwnFiber, OpFits, WatcherFits, TimerFits
  <1>8. RacerFits(cur[f], 1) /\ \A o : ~Before(cur[f], 1, o)
    BY <1>1, <1>7, AtFits DEF OpFits
  <1>9. \/ verdict' = "left" /\ LeftIsOver /\ Ended("right")
        \/ verdict' = "right" /\ RightFirst /\ Ended("left") /\ Ended("right")
        \/ verdict' = "fired" /\ RightFirst /\ Ended("left")
    BY <1>1, <1>2, <1>8 DEF RacerFits, Won, Op
  <1>10. Keeps
    BY <1>2, <1>5 DEF Keeps
  <1>11. First'
    BY <1>2, <1>6 DEF RaceInv, First, IsBranch, Timeouts
  <1>12. Returned'
    BY <1>2, <1>6, <1>9 DEF Returned, LeftIsOver, RightFirst
  <1>13. cur' \in {cur, [cur EXCEPT ![f] = s]}
    BY <1>2, <1>3
  <1> QED BY <1>4, <1>5, <1>10, <1>11, <1>12, <1>13, RaceKept

(* Whatever else a fiber executes.                                         *)
LEMMA RaceExecutes ==
  ASSUME Typed, RaceInv, NEW f \in Fiber, Executes(f)
  PROVE  RaceInv'
  <1>1. CASE Deliver(f)
    <2>1. PICK s : s = Cleanup(f)
      OBVIOUS
    <2>2. /\ Active(f) /\ cur' = [cur EXCEPT ![f] = s] /\ status' = [status EXCEPT ![f] = "Running"]
          /\ UNCHANGED <<program, raceVars>>
      BY <1>1, <2>1 DEF Deliver, Goto
    <2>3. Fits(f, s)
      BY <2>1, CleanupFits DEF Typed, TypeOK
    <2>4. NoLeft' /\ \A x \in {"left", "right"} : Ended(x)' <=> Ended(x)
      BY <2>2, GoesOn
    <2> QED BY <2>2, <2>3, <2>4, RaceQuiet
  <1>2. ASSUME NEW o, At(f, o), o # "await" \/ Happened(Head(cur[f]).obj),
               cur' \in {cur, [cur EXCEPT ![f] = Tail(cur[f])]},
               status' \in {status, [status EXCEPT ![f] = "Running"]},
               UNCHANGED <<program, raceVars>>
        PROVE  RaceInv'
    <2>1. Active(f) /\ cur[f] # <<>> /\ Head(cur[f]) = cur[f][1] /\ cur[f][1].op = o
      BY <1>2, AtMeans
    <2>2. Awaited(cur[f][1])
      <3>1. CASE o # "await"
        BY <3>1, <2>1, OthersAwaitNothing
      <3>2. CASE Happened(cur[f][1].obj)
        <4>1. ASSUME NEW x \in {"left", "right"}, cur[f][1] = Await(x)
              PROVE  Ended(x)
          BY <3>2, <4>1 DEF Happened, Await, Op
        <4>2. cur[f][1] = Await("signal") => signal
          BY <3>2 DEF Happened, Await, Op
        <4> QED BY <4>1, <4>2 DEF Awaited
      <3> QED BY <3>1, <3>2, <2>1, <1>2
    <2> QED BY <2>1, <2>2, <1>2, RaceNext1
  <1>3. CASE Continue(f)
    <2>1. PICK o \in {"sleepZero", "cleanup", "await"} :
            At(f, o) /\ (o # "await" \/ Happened(Head(cur[f]).obj))
      BY <1>3 DEF Continue
    <2> QED BY <1>2, <1>3, <2>1 DEF Continue, Next1, Goto
  <1>4. CASE Wake(f)
    BY <1>2, <1>4 DEF Wake, Next1, Goto
  <1>5. CASE MaskOn(f)
    BY <1>2, <1>5 DEF MaskOn, Next1, Goto
  <1>6. CASE InterruptFork(f)
    BY <1>2, <1>6 DEF InterruptFork, Next1, Goto
  <1>7. CASE ShutdownScope(f)
    BY <1>2, <1>7 DEF ShutdownScope, Next1, Goto
  <1> QED BY <1>1, <1>3, <1>4, <1>5, <1>6, <1>7,
             RaceChoose, RaceTryExit, RaceComplete, RaceWin DEF Executes

(* A fork begins: the program of the child fits, and users do not start a  *)
(* branch.                                                                 *)
LEMMA RaceSpawnRead ==
  ASSUME Typed, RaceInv, NEW f \in Fiber, NEW c, NEW s, Reads(f, c, s)
  PROVE  RaceInv'
  <1>1. /\ Active(f) /\ cur[f] # <<>> /\ Head(cur[f]).op \in {"fork", "forkDaemon"}
        /\ c = Head(cur[f]).obj /\ c \in Fiber /\ c # f /\ status[c] = "Unborn"
        /\ status' = [status EXCEPT ![f] = "Running", ![c] = "New"]
        /\ cur' = [cur EXCEPT ![c] = Code[program][c]]
        /\ UNCHANGED <<program, raceVars>>
    BY DEF Reads
  <1>2. PICK t : t = Code[program][c]
    OBVIOUS
  <1>3. Fits(c, t)
    BY <1>1, <1>2, CodeFits DEF Typed, TypeOK
  <1>4. "left" \in Fiber /\ "right" \in Fiber /\ status \in [Fiber -> States]
    BY RaceAssumption DEF Typed, TypeOK, States
  <1>5. ASSUME NEW x \in {"left", "right"}
        PROVE  Ended(x)' <=> Ended(x)
    <2>1. \/ status'[x] = status[x]
          \/ x = c /\ status'[x] = "New"
          \/ x = f /\ status'[x] = "Running"
      BY <1>1, <1>4
    <2> QED BY <2>1, <1>1 DEF Ended, Active
  <1>6. NoLeft'
    <2>1. SUFFICES ASSUME program = "racePure"
                   PROVE  status'["left"] = "Unborn"
      BY <1>1 DEF NoLeft
    <2>2. status["left"] = "Unborn"
      BY <2>1 DEF RaceInv, NoLeft
    <2>3. f # "left"
      BY <2>2, <1>1 DEF Active
    <2>4. c # "left"
      <3>1. cur[f][1].op \in {"fork", "forkDaemon"} /\ c = cur[f][1].obj
        BY <1>1, AtFits
      <3>2. OpFits(f, cur[f], 1)
        BY <1>1, AtFits
      <3>3. CASE f \notin OwnFiber(program)
        BY <3>1, <3>3, <1>1, UsersOperation, RaceAssumption
      <3>4. CASE f \in OwnFiber(program)
        BY <2>1, <3>1, <3>2, <3>4 DEF OwnFiber, OpFits, RacerFits, WatcherFits, TimerFits
      <3> QED BY <3>3, <3>4
    <2> QED BY <2>2, <2>3, <2>4, <1>1, <1>4
  <1>7. cur' \in {cur, [cur EXCEPT ![c] = t]}
    BY <1>1, <1>2
  <1> QED BY <1>1, <1>3, <1>5, <1>6, <1>7, RaceQuiet

(* A fork ends.                                                            *)
LEMMA RaceSpawnPush ==
  ASSUME Typed, RaceInv, NEW f \in Fiber, NEW c, Pushes(f, c)
  PROVE  RaceInv'
  <1>1. /\ c \in Fiber /\ status[c] = "New" /\ cur[f] # <<>>
        /\ status' = [status EXCEPT ![c] = "Queued"]
        /\ cur' = [cur EXCEPT ![f] = Tail(cur[f])]
        /\ UNCHANGED <<program, raceVars>>
    BY DEF Pushes
  <1>2. Awaited(cur[f][1])
    <2>1. spawning[f] # Idle
      BY DEF Pushes
    <2>2. Spawning(f)
      BY <2>1 DEF Typed, Spawns
    <2>3. cur[f][1].op # "await"
      BY <2>2, <1>1, AtFits DEF Spawning
    <2> QED BY <2>3, OthersAwaitNothing
  <1>3. PICK s : s = Tail(cur[f])
    BY Zenon
  <1>4. Fits(f, s)
    BY <1>1, <1>2, <1>3, NextFits
  <1>5. "left" \in Fiber /\ "right" \in Fiber /\ status \in [Fiber -> States]
    BY RaceAssumption DEF Typed, TypeOK, States
  <1>6. ASSUME NEW x \in {"left", "right"}
        PROVE  /\ Ended(x)' <=> Ended(x)
               /\ status[x] = "Unborn" => status'[x] = "Unborn"
    <2>1. status'[x] = status[x] \/ (x = c /\ status'[x] = "Queued")
      BY <1>1, <1>5
    <2> QED BY <2>1, <1>1 DEF Ended
  <1>7. NoLeft'
    BY <1>1, <1>6 DEF RaceInv, NoLeft
  <1>8. cur' \in {cur, [cur EXCEPT ![f] = s]}
    BY <1>1, <1>3
  <1> QED BY <1>1, <1>4, <1>6, <1>7, <1>8, RaceQuiet

(* A fiber finishes; a branch is recorded.                                 *)
LEMMA RaceFinish ==
  ASSUME Typed, RaceInv, NEW f \in Fiber, Finish(f)
  PROVE  RaceInv'
  <1>1. /\ Active(f) /\ status' = [status EXCEPT ![f] = "Done"] /\ cur' = cur
        /\ program' = program /\ signal' = signal /\ verdict' = verdict
        /\ order' = IF f \in Branches[program] THEN Append(order, f) ELSE order
    BY DEF Finish
  <1>2. program \in Program /\ "left" \in Fiber /\ "right" \in Fiber /\ status \in [Fiber -> States]
    BY RaceAssumption DEF Typed, TypeOK, States
  <1>3. f \in Branches[program] <=> IsBranch(program, f)
    BY <1>2, RaceAssumption
  <1>4. IsBranch(program, "right")' <=> IsBranch(program, "right")
    BY <1>1 DEF IsBranch, Timeouts
  <1>5. ASSUME NEW x \in {"left", "right"}
        PROVE  Ended(x)' <=> (Ended(x) \/ x = f)
    <2>1. status'[x] = status[x] \/ x = f
      BY <1>1, <1>2
    <2>2. x = f => status'[x] = "Done"
      BY <1>1, <1>2
    <2>3. x # f => status'[x] = status[x]
      BY <1>1, <1>2
    <2> QED BY <2>2, <2>3 DEF Ended
  <1>6. order # <<>> => order' # <<>> /\ order'[1] = order[1]
    BY <1>1, HistoryGrows
  <1>7. order = <<>> /\ order' # <<>> => IsBranch(program, f) /\ order'[1] = f
    BY <1>1, <1>3, HistoryGrows
  <1>8. IsBranch(program, f) => order' # <<>>
    BY <1>1, <1>3, HistoryGrows
  <1>9. Keeps
    BY <1>1, <1>5, <1>6 DEF Keeps
  <1>10. First'
    <2>1. First
      BY DEF RaceInv
    <2>2. /\ Ended("left")' <=> (Ended("left") \/ f = "left")
          /\ Ended("right")' <=> (Ended("right") \/ f = "right")
      BY <1>5
    <2>3. IsBranch(program, "left") /\ (IsBranch(program, f) => f \in {"left", "right"})
      BY DEF IsBranch
    <2>4. (signal' \/ Ended("left")' \/ (Ended("right")' /\ IsBranch(program, "right")')) => order' # <<>>
      BY <2>1, <2>2, <2>3, <1>1, <1>4, <1>6, <1>8 DEF First
    <2>5. order' # <<>> =>
            /\ order'[1] \in {"left", "right"}
            /\ order'[1] = "left" => Ended("left")'
            /\ order'[1] = "right" /\ IsBranch(program, "right")' => Ended("right")'
      <3>1. CASE order = <<>>
        BY <3>1, <2>2, <2>3, <1>7
      <3>2. CASE order # <<>>
        BY <3>2, <2>1, <2>2, <1>4, <1>6 DEF First
      <3> QED BY <3>1, <3>2
    <2> QED BY <2>4, <2>5 DEF First
  <1>11. Returned'
    BY <1>1, <1>9, ReturnedKept DEF RaceInv
  <1>12. NoLeft'
    <2>1. SUFFICES ASSUME program = "racePure"
                   PROVE  status'["left"] = "Unborn"
      BY <1>1 DEF NoLeft
    <2>2. status["left"] = "Unborn"
      BY <2>1 DEF RaceInv, NoLeft
    <2> QED BY <2>2, <1>1, <1>2 DEF Active
  <1>13. Fits(f, cur[f])
    BY DEF RaceInv
  <1>14. PICK s : s = cur[f]
    OBVIOUS
  <1> QED BY <1>1, <1>9, <1>10, <1>11, <1>12, <1>13, <1>14, RaceKept

(* A fiber leaves its scope.                                               *)
LEMMA RaceDetach ==
  ASSUME Typed, RaceInv, NEW f \in Fiber, Detach(f)
  PROVE  RaceInv'
  <1>1. /\ status[f] = "Done" /\ status' = [status EXCEPT ![f] = "Detached"] /\ cur' = cur
        /\ UNCHANGED <<program, raceVars>>
    BY DEF Detach
  <1>2. "left" \in Fiber /\ "right" \in Fiber /\ status \in [Fiber -> States]
    BY RaceAssumption DEF Typed, TypeOK, States
  <1>3. ASSUME NEW x \in {"left", "right"}
        PROVE  /\ Ended(x)' <=> Ended(x)
               /\ status[x] = "Unborn" => status'[x] = "Unborn"
    <2>1. status'[x] = status[x] \/ (x = f /\ status'[x] = "Detached")
      BY <1>1, <1>2
    <2> QED BY <2>1, <1>1 DEF Ended
  <1>4. NoLeft'
    BY <1>1, <1>3 DEF RaceInv, NoLeft
  <1>5. PICK s : s = cur[f]
    OBVIOUS
  <1>6. Fits(f, s)
    BY <1>5 DEF RaceInv
  <1>7. cur' \in {cur, [cur EXCEPT ![f] = s]}
    BY <1>1
  <1> QED BY <1>1, <1>3, <1>4, <1>6, <1>7, RaceQuiet

(* A main fiber is published.                                              *)
LEMMA RacePublish ==
  ASSUME Typed, RaceInv, Publish
  PROVE  RaceInv'
  <1>1. PICK n \in DOMAIN Mains :
          /\ Mains[n] \in Fiber
          /\ status' = [status EXCEPT ![Mains[n]] = "Queued"]
          /\ cur' = [cur EXCEPT ![Mains[n]] = Ensuring(Code[program][Mains[n]])]
    BY PublishMeans
  <1>2. PICK m : m = Mains[n]
    OBVIOUS
  <1>3. m \notin OwnFiber(program) /\ m # "left" /\ m # "right"
    BY <1>2, RaceAssumption DEF OwnFiber
  <1>4. UNCHANGED <<program, raceVars>> /\ program \in Program
    BY DEF Publish, Typed, TypeOK
  <1>5. PICK a \in Seq(UserOperation) : a = Code[program][m]
    BY <1>1, <1>2, <1>3, <1>4, RaceAssumption
  <1>6. PICK t : t = Ensuring(a)
    OBVIOUS
  <1>7. Fits(m, t)
    <2>1. PICK S : S = UserOperation \cup {Shutdown}
      OBVIOUS
    <2>2. a \in Seq(S) /\ Mask \in S /\ Shutdown \in S
      BY <2>1, RaceAssumption
    <2>3. (a \o <<Mask>>) \o <<Shutdown>> \in Seq(S)
      BY <2>2
    <2>4. t \in Seq(S)
      BY <2>3, <1>6 DEF Ensuring
    <2>5. \A i \in 1 .. Len(t) : t[i] \in S
      BY <2>4
    <2> QED BY <2>1, <2>5, <1>3, UserFits
  <1>8. "left" \in Fiber /\ "right" \in Fiber /\ status \in [Fiber -> States]
    BY RaceAssumption DEF Typed, TypeOK, States
  <1>9. status'["left"] = status["left"] /\ status'["right"] = status["right"]
    BY <1>1, <1>2, <1>3, <1>8
  <1>10. NoLeft' /\ \A x \in {"left", "right"} : Ended(x)' <=> Ended(x)
    BY <1>4, <1>9 DEF RaceInv, NoLeft, Ended
  <1>11. m \in Fiber /\ cur' \in {cur, [cur EXCEPT ![m] = t]}
    BY <1>1, <1>2, <1>5, <1>6
  <1> QED BY <1>4, <1>7, <1>10, <1>11, RaceQuiet

(* A step of the host, and of a fork, that touches no program.             *)
LEMMA RaceElse ==
  ASSUME Typed, RaceInv,
         UNCHANGED <<program, status, cur, raceVars>>
  PROVE  RaceInv'
  <1>1. "left" \in Fiber /\ Fits("left", cur["left"])
    BY RaceAssumption DEF RaceInv
  <1>2. PICK s : s = cur["left"]
    OBVIOUS
  <1>3. NoLeft' /\ \A x \in {"left", "right"} : Ended(x)' <=> Ended(x)
    BY DEF RaceInv, NoLeft, Ended
  <1>4. Fits("left", s) /\ cur' \in {cur, [cur EXCEPT !["left"] = s]}
    BY <1>1, <1>2
  <1> QED BY <1>1, <1>3, <1>4, RaceQuiet

-----------------------------------------------------------------------------
(* The results.                                                            *)

(* Nothing has happened at first.                                          *)
LEMMA RaceInit == Init => RaceInv
  <1> SUFFICES ASSUME Init
               PROVE  RaceInv
    OBVIOUS
  <1>1. ASSUME NEW f \in Fiber
        PROVE  Fits(f, cur[f])
    BY EmptyFits DEF Init
  <1>2. "left" \in Fiber /\ "right" \in Fiber
    BY RaceAssumption
  <1>3. First /\ Returned /\ NoLeft
    BY <1>2 DEF Init, First, Returned, NoLeft, Ended
  <1> QED BY <1>1, <1>3 DEF RaceInv

(* Every step keeps the invariant.                                         *)
LEMMA RaceStep == IInv /\ RaceInv /\ [Next]_vars => RaceInv'
  <1> SUFFICES ASSUME IInv, RaceInv, [Next]_vars
               PROVE  RaceInv'
    OBVIOUS
  <1>1. Typed
    BY DEF IInv
  <1>2. ASSUME NEW f \in Fiber, FiberStep(f) \/ Wake(f)
        PROVE  RaceInv'
    <2>1. CASE Executes(f)
      BY <2>1, <1>1, RaceExecutes
    <2>2. CASE SpawnRead(f)
      <3>1. PICK c, s : Reads(f, c, s)
        BY <2>2, <1>1, SpawnReadMeans
      <3> QED BY <3>1, <1>1, RaceSpawnRead
    <2>3. CASE SpawnAttach(f)
      BY <2>3, <1>1, RaceElse DEF SpawnAttach
    <2>4. CASE SpawnPush(f)
      <3>1. PICK c : Pushes(f, c)
        BY <2>4, <1>1, SpawnPushMeans
      <3> QED BY <3>1, <1>1, RaceSpawnPush
    <2>5. CASE Finish(f)
      BY <2>5, <1>1, RaceFinish
    <2>6. CASE Detach(f)
      BY <2>6, <1>1, RaceDetach
    <2>7. CASE Latch(f)
      BY <2>7, <1>1, RaceElse DEF Latch, fiberVars
    <2> QED BY <1>2, <2>1, <2>2, <2>3, <2>4, <2>5, <2>6, <2>7 DEF FiberStep, Executes
  <1>3. CASE Publish
    BY <1>1, <1>3, RacePublish
  <1>4. CASE HostStep \/ DrainSpurious \/ DrainExpires \/ UNCHANGED vars
    <2>1. UNCHANGED <<program, status, cur, raceVars>>
      BY <1>4 DEF vars, fiberVars, hostVars, HostStep, MainReturned, DrainBegin,
                  DrainInterrupt, DrainCheck, Return, DrainSpurious, DrainExpires
    <2> QED BY <2>1, <1>1, RaceElse
  <1> QED BY <1>2, <1>3, <1>4 DEF Next

(* What the continuations of race.c rely on holds in every behaviour,      *)
(* whatever the branches do and whatever else the program forks.           *)
THEOREM RaceInvariant == Spec => []RaceInv
  BY RaceInit, RaceStep, RunMainInvariant, PTL DEF Spec

(* race returns the right branch only if that ended first, and timeout     *)
(* reports an expiry only if the timer did; neither is left without a      *)
(* winner.                                                                 *)
THEOREM FirstWins == Spec => []WinnerCameFirst
  <1>1. RaceInv => WinnerCameFirst
    BY DEF RaceInv, Returned, RightFirst, WinnerCameFirst
  <1> QED BY <1>1, RaceInvariant, PTL

(* When race or timeout has returned its result, the loser has ended.      *)
THEOREM LoserEnds == Spec => []LoserIsDone
  <1>1. RaceInv => LoserIsDone
    BY Zenon DEF RaceInv, Returned, NoLeft, LeftIsOver, LoserIsDone
  <1> QED BY <1>1, RaceInvariant, PTL

=============================================================================
