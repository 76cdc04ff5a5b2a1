-------------------------------- MODULE Race --------------------------------
(***************************************************************************)
(* race and timeout (runtime/race.c) on the fibers of RunMain.  They keep  *)
(* no state: they build programs, with a continuation after each operation *)
(* that waits.  A fiber "racer" executes race or timeout on the branches   *)
(* "left" and "right", whose programs are any; of timeout "left" is the    *)
(* action and "right" the timer.                                           *)
(***************************************************************************)
EXTENDS RunMain

CONSTANT UserOperation  \* what the programs of users are made of

Fork(f) == Op("fork", f)
ForkDaemon(f) == Op("forkDaemon", f)
Await(f) == Op("await", f)
Sleep == Op("sleep", "timer")

(* The waiting interrupt: krt2i_op_interrupt makes the request, then waits *)
(* for the target's end.                                                   *)
Interrupt(f) == <<Op("interruptFork", f), Await(f)>>

(* krt2i_try_exit bound to a continuation on the Option it returns.        *)
TryExit(f, a, b) == [op |-> "tryExit", obj |-> f, some |-> a, none |-> b]
Won(v) == Op("won", v)

(* signal_on: complete the signal once the awaited thing has happened.     *)
SignalOn(o, event) == <<o, Op("complete", event)>>

(* Mutation: the result is returned without stopping the loser.            *)
RaceDecideRAlone ==
  TryExit("right", <<Won("right")>>, <<Won("noWinner")>>)

(* race_decide_r.                                                          *)
RaceDecideR ==
  TryExit("right", Interrupt("left") \o <<Won("right")>>, <<Won("noWinner")>>)

(* Mutation: the two fibers of the environment are swapped.                *)
RaceDecideSwapped ==
  TryExit("right", Interrupt("right") \o <<Won("left")>>,
          <<TryExit("left", Interrupt("left") \o <<Won("right")>>,
                    <<Won("noWinner")>>)>>)

(* race_decide_l: the left fiber is looked at first, so a tie is its.      *)
RaceDecideL ==
  TryExit("left", Interrupt("right") \o <<Won("left")>>, <<RaceDecideR>>)

(* krt2_race, race_k_signal, race_k_lf and race_k_rf.                      *)
Race == <<Fork("left"), Fork("right"), ForkDaemon("watchL"),
          ForkDaemon("watchR"), Await("signal"), RaceDecideL>>

(* krt2_race on a left branch that is already a value: race_left_pure_k.   *)
RacePure == <<Fork("right")>> \o Interrupt("right") \o <<Won("left")>>

(* timeout_decide.                                                         *)
TimeoutDecide ==
  TryExit("left", Interrupt("right") \o <<Won("left")>>,
                  Interrupt("left") \o <<Won("fired")>>)

(* krt2_timeout, timeout_k_signal, timeout_k_af and timeout_k_tf.          *)
Timeout == <<Fork("left"), ForkDaemon("right"), ForkDaemon("watchL"),
             Await("signal"), TimeoutDecide>>

(* OP_SLEEP completes at once when the duration is not positive.           *)
Timer(p) == SignalOn(IF p = "timeoutNow" THEN Op("sleepZero", "timer") ELSE Sleep, "expiry")

Timeouts == {"timeout", "timeoutNow"}

(* The programs of the combinators' own fibers: only the two of            *)
(* krt2_timeout have a timer for their right fiber, and only krt2_race     *)
(* watches the right one.                                                  *)
Combinator(p) ==
  IF p = "race" THEN Race ELSE IF p = "racePure" THEN RacePure
  ELSE IF p \in Timeouts THEN Timeout ELSE <<>>

IsBranch(p, f) == f = "left" \/ (f = "right" /\ p \notin Timeouts)

OwnFiber(p) == {"racer", "watchL", "watchR"} \cup (IF p \in Timeouts THEN {"right"} ELSE {})

OwnCode(p, f) ==
  CASE f = "racer" -> Combinator(p)
    [] f = "watchL" -> SignalOn(Await("left"), "end")
    [] f = "watchR" -> IF p = "race" THEN SignalOn(Await("right"), "end") ELSE <<>>
    [] f = "right" -> Timer(p)

(* The combinators' fibers are their own: users' programs hold no promise  *)
(* of theirs, return no result for them and do not start their fibers.     *)
ASSUME RaceAssumption ==
  /\ {"racer", "left", "right", "watchL", "watchR"} \subseteq Fiber
  /\ \A n \in DOMAIN Mains : Mains[n] \notin {"racer", "left", "right", "watchL", "watchR"}
  /\ "signal" \notin Fiber
  /\ Mask \in UserOperation /\ UserOperation \subseteq Operation
  /\ \A o \in UserOperation :
       /\ o.op \notin {"complete", "won"}
       /\ o.op \in {"fork", "forkDaemon"} => o.obj \notin {"left", "right"}
       /\ o.op \in {"either", "tryExit"} =>
            o.some \in Seq(UserOperation) /\ o.none \in Seq(UserOperation)
  /\ \A p \in Program : Branches[p] = {f \in Fiber : IsBranch(p, f)}
  /\ \A p \in Program, f \in Fiber :
       IF f \in OwnFiber(p)
       THEN Code[p][f] = OwnCode(p, f) /\ OnInterrupt[p][f] = <<>>
       ELSE Code[p][f] \in Seq(UserOperation) /\ OnInterrupt[p][f] \in Seq(UserOperation)

-----------------------------------------------------------------------------

(* race returns the right branch's exit only if that branch ended before   *)
(* the left one, and timeout reports an expiry only if the timer ended     *)
(* before the action (race_decide_l, race_decide_r, timeout_decide): a     *)
(* signal from a watcher that runs late, or for the other branch, never    *)
(* turns the verdict round, and the defensive "no winner" is never built.  *)
WinnerCameFirst ==
  /\ verdict # "noWinner"
  /\ verdict \in {"right", "fired"} => order # <<>> /\ order[1] = "right"

(* When race or timeout has returned its result the loser, and whatever    *)
(* fiber the result is of, has ended, exit actions included: the interrupt *)
(* of the loser waits (race_decide_l, race_decide_r, race_left_pure_k,     *)
(* timeout_decide).                                                        *)
LoserIsDone ==
  verdict # "none" =>
    \A f \in {"left", "right"} :
      status[f] = "Unborn" \/ Ended(f) \/ (f = "right" /\ verdict = "fired")

=============================================================================
