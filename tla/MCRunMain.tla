----------------------------- MODULE MCRunMain -----------------------------
(* An instance of RunMain and Race for TLC: a main fiber that starts the   *)
(* racer and may wait for it, or forks daemons, one of which forks others, *)
(* also from its exit action; and what branches may do.                    *)
EXTENDS Race

CONSTANT TwoRuns  \* the programs after which krt2_run_main is called again

MainFibers == <<"main1", "main2">>
NumberOfCalls == [p \in Program |-> IF p \in TwoRuns THEN 2 ELSE 1]

Either(a, b) == [op |-> "either", some |-> a, none |-> b]
Never == Await("never")

(* A user's action: it ends, ends in its own time whatever is asked of it, *)
(* or waits for ever until it is interrupted.                              *)
EndsOrMasked == <<Either(<<Sleep>>, <<Mask, Sleep>>)>>
MayHang == <<Either(<<Never>>, EndsOrMasked)>>

User(p, f) ==
  CASE f = "main1" -> IF p = "daemons"
                      THEN <<ForkDaemon("d1"), Either(<<>>, <<Sleep>>)>>
                      ELSE <<Fork("racer"), Either(<<>>, <<Await("racer")>>)>>
    [] f = "main2" -> <<ForkDaemon("d4")>>
    [] f = "left"  -> IF p = "race" THEN EndsOrMasked ELSE MayHang
    [] f = "right" -> MayHang
    [] f = "d1" -> <<Either(<<>>, <<Mask>>), Either(<<>>, <<Fork("child")>>),
                     Either(<<Never>>, <<Sleep, ForkDaemon("d2")>>)>>
    [] f = "d2" -> <<Either(<<Never>>, <<Sleep>>)>>
    [] f = "child" -> <<ForkDaemon("d3")>>
    [] f \in {"d3", "d4"} -> <<Never>>

UserCleanup(p, f) ==
  IF IsBranch(p, f) THEN <<Op("cleanup", f)>>
  ELSE IF f = "d1" THEN <<ForkDaemon("d2")>> ELSE <<>>

CodeOf == [p \in Program |-> [f \in Fiber |->
            IF f \in OwnFiber(p) THEN OwnCode(p, f) ELSE User(p, f)]]
CleanupOf == [p \in Program |-> [f \in Fiber |->
               IF f \in OwnFiber(p) THEN <<>> ELSE UserCleanup(p, f)]]
BranchesOf == [p \in Program |-> {f \in Fiber : IsBranch(p, f)}]

(* The operations of a program with those in its alternatives.             *)
RECURSIVE Within(_)
Within(s) == UNION {{s[i]} \cup (IF s[i].op \in {"either", "tryExit"}
                                 THEN Within(s[i].some) \cup Within(s[i].none)
                                 ELSE {}) : i \in DOMAIN s}

UserOperations ==
  {Mask} \cup UNION {UNION {Within(User(p, f)) \cup Within(UserCleanup(p, f)) :
                              f \in Fiber \ OwnFiber(p)} : p \in Program}
Operations ==
  UserOperations \cup UNION {UNION {Within(OwnCode(p, f)) : f \in OwnFiber(p)} : p \in Program}

=============================================================================
