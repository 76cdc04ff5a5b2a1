----------------------------- MODULE LaneProofs -----------------------------
(* Proofs about the blocking lane, for any number of fibers and any        *)
(* programs: every fiber an interrupt has not woken in a call has one      *)
(* owner, leaves each region it enters, and executes bodies off the pool.  *)
EXTENDS BlockingLane, TLAPS

Running(f) == runs[f]["worker"] + runs[f]["lane"]

(* Who holds the fiber follows from its status and from blocking_armed.    *)
Owner(f) ==
  /\ status[f] = "Running" =>
       f \notin armed /\ Running(f) = 1 /\ fresh[f] = 0 /\ again[f] = 0 /\ queued[f] = 0
         /\ spawn[f] = "none"
  /\ status[f] = "Runnable" =>
       f \notin armed /\ Running(f) = 0 /\ fresh[f] = 0 /\ again[f] + queued[f] = 1
         /\ spawn[f] = "none"
  /\ status[f] = "Parked" =>
       Running(f) = 0 /\ again[f] = 0 /\ queued[f] = 0
         /\ fresh[f] = (IF f \in armed /\ spawn[f] = "none" THEN 1 ELSE 0)
         /\ (f \notin armed => spawn[f] = "none")
         /\ (f \in armed => cur[f] \in {"blocking", "native"})
  /\ status[f] = "Done" =>
       f \notin armed /\ Running(f) = 0 /\ fresh[f] = 0 /\ again[f] = 0 /\ queued[f] = 0
         /\ spawn[f] = "none"

(* The depth counts the frames, and a call that may still fail to get its  *)
(* thread has a frame to take off.                                         *)
Balance(f) ==
  /\ depth[f] = frames[f] /\ depth[f] >= 0
  /\ at[f] = "submit" => status[f] = "Running" /\ cur[f] \in {"blocking", "native"}
  /\ at[f] = "submit" /\ cur[f] = "blocking" => depth[f] >= 1
  /\ f \in armed /\ call[f] = "pure" => depth[f] >= 1

(* A pool worker that holds the fiber, or will hold it next, is outside of *)
(* every region, or about to hand over the body of the outermost one.      *)
OffPool(f) ==
  /\ runs[f]["worker"] > 0 =>
       depth[f] = (IF at[f] = "submit" /\ cur[f] = "blocking" THEN 1 ELSE 0)
  /\ queued[f] > 0 => depth[f] = 0
  /\ spawn[f] = "worker" => depth[f] = (IF call[f] = "native" THEN 0 ELSE 1)

LaneInv == \A f \in Fiber \ crossed : Owner(f) /\ Balance(f)
PoolInv == \A f \in Fiber \ crossed : OffPool(f)

----------------------------------------------------------------------------
(* What the steps keep of a fiber they are not about.                      *)
Same(f) ==
  /\ status'[f] = status[f] /\ cur'[f] = cur[f] /\ depth'[f] = depth[f] /\ frames'[f] = frames[f]
  /\ (f \in armed' <=> f \in armed) /\ (f \in crossed' <=> f \in crossed)
  /\ runs'[f] = runs[f] /\ at'[f] = at[f] /\ spawn'[f] = spawn[f] /\ call'[f] = call[f]
  /\ fresh'[f] = fresh[f] /\ again'[f] = again[f] /\ queued'[f] = queued[f]

(* The step of one fiber.                                                  *)
Step1(g) ==
  \/ Thread(g) \/ Created(g) \/ Resolve(g) \/ Request(g) \/ Poke(g)
  \/ \E k \in Kind : ToggleMask(g, k)

(* A step of one fiber leaves the others alone.                           *)
LEMMA OthersSame ==
  ASSUME TypeOK, NEW g \in Fiber, Step1(g), NEW f \in Fiber, f # g
  PROVE  Same(f)
  <1>1. CASE \E k \in Kind : Blocking(g, k)
    BY <1>1 DEF Blocking, Executes, Runs, EnterRegion, Same, TypeOK
  <1>2. CASE \E k \in Kind : Submit(g, k)
    BY <1>2 DEF Submit, Runs, LetsGo, Drops, region, Same, TypeOK
  <1>3. CASE \E k \in Kind : LeaveRegion(g, k)
    BY <1>3 DEF LeaveRegion, Runs, Same, TypeOK
  <1>4. CASE \E k \in Kind : Await(g, k)
    BY <1>4 DEF Await, Executes, Runs, Drops, region, Same, TypeOK
  <1>5. CASE \E k \in Kind : Cede(g, k)
    BY <1>5 DEF Cede, Executes, Runs, Drops, region, Same, TypeOK
  <1>6. CASE \E k \in Kind : Deliver(g, k)
    BY <1>6 DEF Deliver, Runs, Deliverable, Delivered, Same, TypeOK
  <1>7. CASE \E k \in Kind : Finish(g, k)
    BY <1>7 DEF Finish, Runs, Drops, region, Same, TypeOK
  <1>8. CASE \E k \in Kind : ToggleMask(g, k)
    BY <1>8 DEF ToggleMask, Runs, region, Same, TypeOK
  <1>9. CASE Native(g)
    BY <1>9 DEF Native, Executes, Runs, region, Same, TypeOK
  <1>10. CASE Returns(g)
    BY <1>10 DEF Returns, InNative, Runs, ObservesAtReturn, Deliverable, Delivered, region, Same, TypeOK
  <1>11. CASE Spawn(g)
    BY <1>11 DEF Spawn, region, Same, TypeOK
  <1>12. CASE SpawnFails(g)
    BY <1>12 DEF SpawnFails, Takes, LeaveFailed, region, Same, TypeOK
  <1>13. CASE LaneStarts(g)
    BY <1>13 DEF LaneStarts, LaneRuns, Disarm, Takes, ObservesPending, Deliverable, Delivered,
       region, Same, TypeOK
  <1>14. CASE LaneResumes(g)
    BY <1>14 DEF LaneResumes, LaneRuns, Disarm, Takes, ObservesPending, Deliverable, Delivered,
       region, Same, TypeOK
  <1>15. CASE Pop(g)
    BY <1>15 DEF Pop, Takes, region, Same, TypeOK
  <1>16. CASE Resolve(g)
    BY <1>16 DEF Resolve, Route, region, Same, TypeOK
  <1>17. CASE Request(g)
    BY <1>17 DEF Request, region, Same, TypeOK
  <1>18. CASE Poke(g)
    BY <1>18 DEF Poke, Route, region, Same, TypeOK
  <1>19. CASE NativeInPlace(g)
    BY <1>19 DEF NativeInPlace, Runs, region, Same, TypeOK
  <1> QED BY <1>1, <1>2, <1>3, <1>4, <1>5, <1>6, <1>7, <1>8, <1>9, <1>10, <1>11, <1>12, <1>13,
             <1>14, <1>15, <1>16, <1>17, <1>18, <1>19 DEF Step1, Thread, Step, Created

(* What an interrupt that is delivered writes, and the call that goes on.  *)
LEMMA DeliveredTypes ==
  ASSUME TypeOK, NEW g \in Fiber, Delivered(g)
  PROVE  /\ depth' \in [Fiber -> Int] /\ frames' \in [Fiber -> Int]
         /\ pending' \subseteq Fiber
         /\ cur' \in [Fiber -> {"pure", "blocking", "native", "await"}]
         /\ at' \in [Fiber -> {"run", "submit"}]
  <1> PICK n \in 0..frames[g] : /\ frames' = [frames EXCEPT ![g] = @ - n]
                                /\ depth' = [depth EXCEPT ![g] = @ - n]
    BY DEF Delivered
  <1>1. n \in Int
    BY DEF TypeOK
  <1>2. frames' \in [Fiber -> Int]
    BY <1>1 DEF TypeOK
  <1>3. depth' \in [Fiber -> Int]
    BY <1>1 DEF TypeOK
  <1> QED BY <1>2, <1>3 DEF Delivered, TypeOK

(* Each step keeps the types, given that no region is left too often.      *)
LEMMA StepTypes ==
  ASSUME TypeOK, NEW g \in Fiber, Step1(g),
         \A f \in Fiber \ crossed' : depth'[f] >= 0 /\ frames'[f] >= 0
  PROVE  TypeOK'
  <1>1. CASE \E k \in Kind : Blocking(g, k)
    BY <1>1, LaneAssumption DEF Blocking, Executes, Runs, EnterRegion, TypeOK, Kind
  <1>2. CASE \E k \in Kind : Submit(g, k)
    BY <1>2, LaneAssumption DEF Submit, Runs, LetsGo, Drops, region, TypeOK, Kind
  <1>3. CASE \E k \in Kind : LeaveRegion(g, k)
    BY <1>3, LaneAssumption DEF LeaveRegion, Runs, TypeOK, Kind
  <1>4. CASE \E k \in Kind : Await(g, k)
    BY SMTT(30), <1>4, LaneAssumption DEF Await, Executes, Runs, Drops, region, TypeOK, Kind
  <1>5. CASE \E k \in Kind : Cede(g, k)
    BY SMTT(30), <1>5, LaneAssumption DEF Cede, Executes, Runs, Drops, region, TypeOK, Kind
  <1>6. CASE \E k \in Kind : Deliver(g, k)
    BY <1>6, LaneAssumption DEF Deliver, Runs, Deliverable, Delivered, TypeOK, Kind
  <1>7. CASE \E k \in Kind : Finish(g, k)
    BY <1>7, LaneAssumption DEF Finish, Runs, Drops, region, TypeOK, Kind
  <1>8. CASE \E k \in Kind : ToggleMask(g, k)
    BY <1>8, LaneAssumption DEF ToggleMask, Runs, region, TypeOK, Kind
  <1>9. CASE Native(g)
    BY <1>9, LaneAssumption DEF Native, Executes, Runs, region, TypeOK, Kind
  <1>10. CASE Returns(g)
    <2>1. /\ depth' \in [Fiber -> Int] /\ frames' \in [Fiber -> Int]
          /\ pending' \subseteq Fiber
          /\ cur' \in [Fiber -> {"pure", "blocking", "native", "await"}]
          /\ at' \in [Fiber -> {"run", "submit"}]
      <3>1. CASE Delivered(g)
        BY <3>1, DeliveredTypes
      <3>2. CASE ~Delivered(g)
        BY <1>10, <3>2 DEF Returns, region, TypeOK
      <3> QED BY <3>1, <3>2
    <2>2. left' \in [Fiber -> 0..MaxOps]
      BY <1>10, LaneAssumption DEF Returns, TypeOK
    <2> QED BY <1>10, <2>1, <2>2 DEF Returns, TypeOK
  <1>11. CASE Spawn(g)
    BY <1>11, LaneAssumption DEF Spawn, region, TypeOK, Kind
  <1>12. CASE SpawnFails(g)
    <2>1. depth' \in [Fiber -> Int] /\ frames' \in [Fiber -> Int]
      BY <1>12 DEF SpawnFails, LeaveFailed, region, TypeOK
    <2>2. runs' \in [Fiber -> [Kind -> Nat]]
      BY <1>12 DEF SpawnFails, Takes, TypeOK, Kind
    <2>3. /\ spawn' \in [Fiber -> Kind \cup {"none"}] /\ armed' \subseteq Fiber
          /\ status' \in [Fiber -> {"Running", "Parked", "Runnable", "Done"}]
          /\ at' \in [Fiber -> {"run", "submit"}]
      BY <1>12 DEF SpawnFails, TypeOK
    <2> QED BY <1>12, <2>1, <2>2, <2>3 DEF SpawnFails, TypeOK
  <1>13. CASE LaneStarts(g)
    <2>1. /\ depth' \in [Fiber -> Int] /\ frames' \in [Fiber -> Int]
          /\ pending' \subseteq Fiber
          /\ cur' \in [Fiber -> {"pure", "blocking", "native", "await"}]
          /\ at' \in [Fiber -> {"run", "submit"}]
      <3>1. CASE Delivered(g)
        BY <3>1, DeliveredTypes
      <3>2. CASE ~Delivered(g)
        <4>1. /\ UNCHANGED <<pending, depth, frames>> /\ at' = [at EXCEPT ![g] = "run"]
              /\ cur' = [cur EXCEPT ![g] = call[g]]
          BY <1>13, <3>2 DEF LaneStarts, LaneRuns, region
        <4>2. call[g] \in {"pure", "native"}
          BY DEF TypeOK
        <4> QED BY <4>1, <4>2 DEF TypeOK
      <3> QED BY <3>1, <3>2
    <2>2. runs' \in [Fiber -> [Kind -> Nat]]
      BY <1>13 DEF LaneStarts, LaneRuns, Takes, TypeOK, Kind
    <2>3. fresh' \in [Fiber -> Nat]
      BY <1>13 DEF LaneStarts, TypeOK
    <2>4. armed' \subseteq Fiber /\ status' \in [Fiber -> {"Running", "Parked", "Runnable", "Done"}]
      BY <1>13 DEF LaneStarts, LaneRuns, Disarm, TypeOK
    <2> QED BY <1>13, <2>1, <2>2, <2>3, <2>4 DEF LaneStarts, LaneRuns, TypeOK
  <1>14. CASE LaneResumes(g)
    <2>1. /\ depth' \in [Fiber -> Int] /\ frames' \in [Fiber -> Int]
          /\ pending' \subseteq Fiber
          /\ cur' \in [Fiber -> {"pure", "blocking", "native", "await"}]
          /\ at' \in [Fiber -> {"run", "submit"}]
      <3>1. CASE Delivered(g)
        BY <3>1, DeliveredTypes
      <3>2. CASE ~Delivered(g)
        BY <1>14, <3>2 DEF LaneResumes, LaneRuns, region, TypeOK
      <3> QED BY <3>1, <3>2
    <2>2. runs' \in [Fiber -> [Kind -> Nat]]
      BY <1>14 DEF LaneResumes, LaneRuns, Takes, TypeOK, Kind
    <2>3. again' \in [Fiber -> Nat]
      BY <1>14 DEF LaneResumes, TypeOK
    <2>4. armed' \subseteq Fiber /\ status' \in [Fiber -> {"Running", "Parked", "Runnable", "Done"}]
      BY <1>14 DEF LaneResumes, LaneRuns, Disarm, TypeOK
    <2>5. UNCHANGED <<masked, asked, crossed, poke, spawn, call, queued, left, fresh>>
      BY <1>14 DEF LaneResumes, LaneRuns
    <2> QED BY <2>1, <2>2, <2>3, <2>4, <2>5 DEF TypeOK
  <1>15. CASE Pop(g)
    BY <1>15, LaneAssumption DEF Pop, Takes, region, TypeOK, Kind
  <1>16. CASE Resolve(g)
    BY SMTT(30), <1>16, LaneAssumption DEF Resolve, Route, region, TypeOK, Kind
  <1>17. CASE Request(g)
    BY <1>17, LaneAssumption DEF Request, region, TypeOK, Kind
  <1>18. CASE Poke(g)
    BY <1>18, LaneAssumption DEF Poke, Route, region, TypeOK, Kind
  <1>19. CASE NativeInPlace(g)
    BY <1>19, LaneAssumption DEF NativeInPlace, Runs, region, TypeOK, Kind
  <1> QED BY <1>1, <1>2, <1>3, <1>4, <1>5, <1>6, <1>7, <1>8, <1>9, <1>10, <1>11, <1>12, <1>13,
             <1>14, <1>15, <1>16, <1>17, <1>18, <1>19 DEF Step1, Thread, Step, Created

(* Each step hands the fiber from one owner to the next.                   *)
LEMMA StepOwner ==
  ASSUME TypeOK, NEW g \in Fiber \ crossed', Step1(g), Owner(g), Balance(g)
  PROVE  Owner(g)'
  <1>1. CASE \E k \in Kind : Blocking(g, k)
    BY <1>1 DEF Blocking, Executes, Runs, EnterRegion, Owner, Balance, Running, TypeOK, Kind
  <1>2. CASE \E k \in Kind : Submit(g, k)
    BY <1>2 DEF Submit, Runs, LetsGo, Drops, region, Owner, Balance, Running, TypeOK, Kind
  <1>3. CASE \E k \in Kind : LeaveRegion(g, k)
    BY <1>3 DEF LeaveRegion, Runs, Owner, Balance, Running, TypeOK, Kind
  <1>4. CASE \E k \in Kind : Await(g, k)
    BY <1>4 DEF Await, Executes, Runs, Drops, region, Owner, Balance, Running, TypeOK, Kind
  <1>5. CASE \E k \in Kind : Cede(g, k)
    BY <1>5 DEF Cede, Executes, Runs, Drops, region, Owner, Balance, Running, TypeOK, Kind
  <1>6. CASE \E k \in Kind : Deliver(g, k)
    BY <1>6 DEF Deliver, Runs, Deliverable, Delivered, Owner, Balance, Running, TypeOK, Kind
  <1>7. CASE \E k \in Kind : Finish(g, k)
    BY <1>7 DEF Finish, Runs, Drops, region, Owner, Balance, Running, TypeOK, Kind
  <1>8. CASE \E k \in Kind : ToggleMask(g, k)
    BY <1>8 DEF ToggleMask, Runs, region, Owner, Balance, Running, TypeOK, Kind
  <1>9. CASE Native(g)
    BY <1>9 DEF Native, Executes, Runs, region, Owner, Balance, Running, TypeOK, Kind
  <1>10. CASE Returns(g)
    BY <1>10 DEF Returns, InNative, Runs, ObservesAtReturn, Deliverable, Delivered, region, Owner, Balance,
       Running, TypeOK, Kind
  <1>11. CASE Spawn(g)
    BY <1>11 DEF Spawn, region, Owner, Balance, Running, TypeOK, Kind
  <1>12. CASE SpawnFails(g)
    BY <1>12 DEF SpawnFails, Takes, LeaveFailed, region, Owner, Balance, Running, TypeOK, Kind
  <1>13. CASE LaneStarts(g)
    BY <1>13 DEF LaneStarts, LaneRuns, Disarm, Takes, ObservesPending, Deliverable, Delivered,
       region, Owner, Balance, Running, TypeOK, Kind
  <1>14. CASE LaneResumes(g)
    <2>1. /\ status[g] = "Runnable" /\ again[g] = 1 /\ queued[g] = 0
          /\ runs[g]["worker"] = 0 /\ runs[g]["lane"] = 0
      BY <1>14 DEF LaneResumes, Owner, Running, TypeOK, Kind
    <2>2. runs'[g]["lane"] = 1 /\ runs'[g]["worker"] = 0
      BY <1>14, <2>1 DEF LaneResumes, LaneRuns, Takes, TypeOK, Kind
    <2> QED BY <1>14, <2>1, <2>2 DEF LaneResumes, LaneRuns, Disarm, Owner, Running, TypeOK, Kind
  <1>15. CASE Pop(g)
    <2>0. queued[g] > 0 /\ status[g] = "Runnable"
      BY <1>15 DEF Pop, Owner, TypeOK
    <2>1. again[g] = 0 /\ queued[g] = 1 /\ runs[g]["worker"] = 0 /\ runs[g]["lane"] = 0
      <3>1. /\ runs[g]["worker"] \in Nat /\ runs[g]["lane"] \in Nat
            /\ again[g] \in Nat /\ queued[g] \in Nat
        BY DEF TypeOK, Kind
      <3>2. again[g] + queued[g] = 1 /\ runs[g]["worker"] + runs[g]["lane"] = 0
        BY <2>0 DEF Owner, Running
      <3> QED BY <2>0, <3>1, <3>2
    <2>2. runs'[g]["lane"] = 0 /\ runs'[g]["worker"] = 1
      BY <1>15, <2>1 DEF Pop, Takes, TypeOK, Kind
    <2> QED BY <1>15, <2>0, <2>1, <2>2 DEF Pop, Owner, Running, TypeOK, Kind
  <1>16. CASE Resolve(g)
    BY <1>16 DEF Resolve, Route, region, Owner, Balance, Running, TypeOK, Kind
  <1>17. CASE Request(g)
    BY <1>17 DEF Request, region, Owner, Balance, Running, TypeOK, Kind
  <1>18. CASE Poke(g)
    BY <1>18 DEF Poke, Route, region, Owner, Balance, Running, TypeOK, Kind
  <1>19. CASE NativeInPlace(g)
    BY <1>19 DEF NativeInPlace, Runs, region, Owner, Balance, Running, TypeOK, Kind
  <1> QED BY <1>1, <1>2, <1>3, <1>4, <1>5, <1>6, <1>7, <1>8, <1>9, <1>10, <1>11, <1>12, <1>13,
             <1>14, <1>15, <1>16, <1>17, <1>18, <1>19 DEF Step1, Thread, Step, Created

(* Each way into a region pushes a frame, each way out takes one off.      *)
LEMMA StepBalance ==
  ASSUME TypeOK, NEW g \in Fiber \ crossed', Step1(g), Owner(g), Balance(g)
  PROVE  Balance(g)'
  <1>1. CASE \E k \in Kind : Blocking(g, k)
    BY <1>1 DEF Blocking, Executes, Runs, EnterRegion, Owner, Balance, Running, TypeOK, Kind
  <1>2. CASE \E k \in Kind : Submit(g, k)
    BY <1>2 DEF Submit, Runs, LetsGo, Drops, region, Owner, Balance, Running, TypeOK, Kind
  <1>3. CASE \E k \in Kind : LeaveRegion(g, k)
    BY <1>3 DEF LeaveRegion, Runs, Owner, Balance, Running, TypeOK, Kind
  <1>4. CASE \E k \in Kind : Await(g, k)
    BY <1>4 DEF Await, Executes, Runs, Drops, region, Owner, Balance, Running, TypeOK, Kind
  <1>5. CASE \E k \in Kind : Cede(g, k)
    BY <1>5 DEF Cede, Executes, Runs, Drops, region, Owner, Balance, Running, TypeOK, Kind
  <1>6. CASE \E k \in Kind : Deliver(g, k)
    BY <1>6 DEF Deliver, Runs, Deliverable, Delivered, Owner, Balance, Running, TypeOK, Kind
  <1>7. CASE \E k \in Kind : Finish(g, k)
    BY <1>7 DEF Finish, Runs, Drops, region, Owner, Balance, Running, TypeOK, Kind
  <1>8. CASE \E k \in Kind : ToggleMask(g, k)
    BY <1>8 DEF ToggleMask, Runs, region, Owner, Balance, Running, TypeOK, Kind
  <1>9. CASE Native(g)
    BY <1>9 DEF Native, Executes, Runs, region, Owner, Balance, Running, TypeOK, Kind
  <1>10. CASE Returns(g)
    BY <1>10 DEF Returns, InNative, Runs, ObservesAtReturn, Deliverable, Delivered, region, Owner, Balance,
       Running, TypeOK, Kind
  <1>11. CASE Spawn(g)
    BY <1>11 DEF Spawn, region, Owner, Balance, Running, TypeOK, Kind
  <1>12. CASE SpawnFails(g)
    BY <1>12 DEF SpawnFails, Takes, LeaveFailed, region, Owner, Balance, Running, TypeOK, Kind
  <1>13. CASE LaneStarts(g)
    BY <1>13 DEF LaneStarts, LaneRuns, Disarm, Takes, ObservesPending, Deliverable, Delivered,
       region, Owner, Balance, Running, TypeOK, Kind
  <1>14. CASE LaneResumes(g)
    BY <1>14 DEF LaneResumes, LaneRuns, Disarm, Takes, ObservesPending, Deliverable, Delivered,
       region, Owner, Balance, Running, TypeOK, Kind
  <1>15. CASE Pop(g)
    BY <1>15 DEF Pop, Takes, region, Owner, Balance, Running, TypeOK, Kind
  <1>16. CASE Resolve(g)
    BY <1>16 DEF Resolve, Route, region, Owner, Balance, Running, TypeOK, Kind
  <1>17. CASE Request(g)
    BY <1>17 DEF Request, region, Owner, Balance, Running, TypeOK, Kind
  <1>18. CASE Poke(g)
    BY <1>18 DEF Poke, Route, region, Owner, Balance, Running, TypeOK, Kind
  <1>19. CASE NativeInPlace(g)
    BY <1>19 DEF NativeInPlace, Runs, region, Owner, Balance, Running, TypeOK, Kind
  <1> QED BY <1>1, <1>2, <1>3, <1>4, <1>5, <1>6, <1>7, <1>8, <1>9, <1>10, <1>11, <1>12, <1>13,
             <1>14, <1>15, <1>16, <1>17, <1>18, <1>19 DEF Step1, Thread, Step, Created

(* Inside a region a wake is routed to the lane, as long as no body cedes. *)
LEMMA StepOffPool ==
  ASSUME TypeOK, "regionCede" \notin Ops,
         NEW g \in Fiber \ crossed', Step1(g), Owner(g), Balance(g), OffPool(g)
  PROVE  OffPool(g)'
  <1>1. CASE \E k \in Kind : Blocking(g, k)
    BY <1>1 DEF Blocking, Executes, Runs, EnterRegion, Owner, Balance, OffPool, Running, TypeOK,
       Kind
  <1>2. CASE \E k \in Kind : Submit(g, k)
    BY <1>2 DEF Submit, Runs, LetsGo, Drops, region, Owner, Balance, OffPool, Running, TypeOK,
       Kind
  <1>3. CASE \E k \in Kind : LeaveRegion(g, k)
    BY <1>3 DEF LeaveRegion, Runs, Owner, Balance, OffPool, Running, TypeOK, Kind
  <1>4. CASE \E k \in Kind : Await(g, k)
    BY <1>4 DEF Await, Executes, Runs, Drops, region, Owner, Balance, OffPool, Running, TypeOK,
       Kind
  <1>5. CASE \E k \in Kind : Cede(g, k)
    BY <1>5 DEF Cede, Executes, Runs, Drops, region, Owner, Balance, OffPool, Running, TypeOK,
       Kind
  <1>6. CASE \E k \in Kind : Deliver(g, k)
    BY <1>6 DEF Deliver, Runs, Deliverable, Delivered, Owner, Balance, OffPool, Running, TypeOK,
       Kind
  <1>7. CASE \E k \in Kind : Finish(g, k)
    BY <1>7 DEF Finish, Runs, Drops, region, Owner, Balance, OffPool, Running, TypeOK, Kind
  <1>8. CASE \E k \in Kind : ToggleMask(g, k)
    BY <1>8 DEF ToggleMask, Runs, region, Owner, Balance, OffPool, Running, TypeOK, Kind
  <1>9. CASE Native(g)
    BY <1>9 DEF Native, Executes, Runs, region, Owner, Balance, OffPool, Running, TypeOK, Kind
  <1>10. CASE Returns(g)
    BY <1>10 DEF Returns, InNative, Runs, ObservesAtReturn, Deliverable, Delivered, region, Owner, Balance,
       OffPool, Running, TypeOK, Kind
  <1>11. CASE Spawn(g)
    BY <1>11 DEF Spawn, region, Owner, Balance, OffPool, Running, TypeOK, Kind
  <1>12. CASE SpawnFails(g)
    BY <1>12 DEF SpawnFails, Takes, LeaveFailed, region, Owner, Balance, OffPool, Running,
       TypeOK, Kind
  <1>13. CASE LaneStarts(g)
    BY <1>13 DEF LaneStarts, LaneRuns, Disarm, Takes, ObservesPending, Deliverable, Delivered,
       region, Owner, Balance, OffPool, Running, TypeOK, Kind
  <1>14. CASE LaneResumes(g)
    BY <1>14 DEF LaneResumes, LaneRuns, Disarm, Takes, ObservesPending, Deliverable, Delivered,
       region, Owner, Balance, OffPool, Running, TypeOK, Kind
  <1>15. CASE Pop(g)
    BY <1>15 DEF Pop, Takes, region, Owner, Balance, OffPool, Running, TypeOK, Kind
  <1>16. CASE Resolve(g)
    BY <1>16 DEF Resolve, Route, region, Owner, Balance, OffPool, Running, TypeOK, Kind
  <1>17. CASE Request(g)
    BY <1>17 DEF Request, region, Owner, Balance, OffPool, Running, TypeOK, Kind
  <1>18. CASE Poke(g)
    BY <1>18 DEF Poke, Route, region, Owner, Balance, OffPool, Running, TypeOK, Kind
  <1>19. CASE NativeInPlace(g)
    BY <1>19 DEF NativeInPlace, Runs, region, Owner, Balance, OffPool, Running, TypeOK,
       Kind
  <1> QED BY <1>1, <1>2, <1>3, <1>4, <1>5, <1>6, <1>7, <1>8, <1>9, <1>10, <1>11, <1>12, <1>13,
             <1>14, <1>15, <1>16, <1>17, <1>18, <1>19 DEF Step1, Thread, Step, Created

(* A fiber a step is not about keeps what holds of it.                     *)
LEMMA SameKeeps ==
  ASSUME NEW f \in Fiber, Same(f)
  PROVE  /\ Owner(f) => Owner(f)'
         /\ Balance(f) => Balance(f)'
         /\ OffPool(f) => OffPool(f)'
  BY DEF Same, Owner, Balance, OffPool, Running

(* A fiber that has been to the lane is never forgotten.                   *)
LEMMA CrossedStays == Next => crossed \subseteq crossed'
  <1> SUFFICES ASSUME NEW g \in Fiber, Step1(g) PROVE crossed \subseteq crossed'
    BY DEF Next, Step1
  <1>1. CASE Poke(g)
    BY <1>1 DEF Poke
  <1>2. CASE ~Poke(g)
    BY <1>2 DEF Step1, Thread, Step, Created, Blocking, Submit, LeaveRegion, Await, Cede, Deliver,
                Finish, ToggleMask, Native, NativeInPlace, Returns, Spawn, SpawnFails, LaneStarts, LaneResumes,
                LaneRuns, Pop, Resolve, Request
  <1> QED BY <1>1, <1>2

(* The invariants hold at the start, when every fiber is on the pool.      *)
LEMMA LaneInit == Init => TypeOK /\ LaneInv /\ PoolInv
  <1> SUFFICES ASSUME Init PROVE TypeOK /\ LaneInv /\ PoolInv
    OBVIOUS
  <1>1. TypeOK
    BY LaneAssumption DEF Init, TypeOK, Kind
  <1>2. LaneInv
    <2> SUFFICES ASSUME NEW f \in Fiber PROVE Owner(f) /\ Balance(f)
      BY DEF LaneInv
    <2>1. runs[f]["worker"] = 1 /\ runs[f]["lane"] = 0
      BY DEF Init, Kind
    <2>2. Owner(f)
      BY <2>1 DEF Init, Owner, Running
    <2>3. Balance(f)
      BY DEF Init, Balance
    <2> QED BY <2>2, <2>3
  <1>3. PoolInv
    BY DEF Init, PoolInv, OffPool, Kind
  <1> QED BY <1>1, <1>2, <1>3

(* The lane's own invariant is preserved by every step.                    *)
LEMMA LaneNext == TypeOK /\ LaneInv /\ [Next]_vars => TypeOK' /\ LaneInv'
  <1> SUFFICES ASSUME TypeOK, LaneInv, [Next]_vars PROVE TypeOK' /\ LaneInv'
    OBVIOUS
  <1>1. CASE UNCHANGED vars
    BY <1>1 DEF vars, region, TypeOK, LaneInv, Owner, Balance, Running
  <1>2. CASE Next
    <2>1. PICK g \in Fiber : Step1(g)
      BY <1>2 DEF Next, Step1
    <2>2. LaneInv'
      <3> SUFFICES ASSUME NEW f \in Fiber \ crossed' PROVE Owner(f)' /\ Balance(f)'
        BY DEF LaneInv
      <3>1. Owner(f) /\ Balance(f)
        BY <1>2, CrossedStays DEF LaneInv
      <3>2. CASE f = g
        BY <2>1, <3>1, <3>2, StepOwner, StepBalance
      <3>3. CASE f # g
        BY <2>1, <3>1, <3>3, OthersSame, SameKeeps
      <3> QED BY <3>2, <3>3
    <2>3. \A f \in Fiber \ crossed' : depth'[f] >= 0 /\ frames'[f] >= 0
      BY <2>2 DEF LaneInv, Balance
    <2> QED BY <2>1, <2>2, <2>3, StepTypes
  <1> QED BY <1>1, <1>2

(* Without regions that cede, so is the bound on the pool.                 *)
LEMMA PoolNext ==
  ASSUME "regionCede" \notin Ops, TypeOK, LaneInv, PoolInv, [Next]_vars
  PROVE  PoolInv'
  <1>1. CASE UNCHANGED vars
    BY <1>1 DEF vars, region, PoolInv, OffPool
  <1>2. CASE Next
    <2>1. PICK g \in Fiber : Step1(g)
      BY <1>2 DEF Next, Step1
    <2> SUFFICES ASSUME NEW f \in Fiber \ crossed' PROVE OffPool(f)'
      BY DEF PoolInv
    <2>2. Owner(f) /\ Balance(f) /\ OffPool(f)
      BY <1>2, CrossedStays DEF LaneInv, PoolInv
    <2>3. CASE f = g
      BY <2>1, <2>2, <2>3, StepOffPool
    <2>4. CASE f # g
      BY <2>1, <2>2, <2>4, OthersSame, SameKeeps
    <2> QED BY <2>3, <2>4
  <1> QED BY <1>1, <1>2

(* The lane's invariant holds in every reachable state.                    *)
LEMMA LaneInvariant == Spec => [](TypeOK /\ LaneInv)
  BY LaneInit, LaneNext, PTL DEF Spec

----------------------------------------------------------------------------
(* Whoever executes a fiber, or will take it over next, has it to itself:  *)
(* pool worker, lane thread, thread being created, run queue               *)
(* (krt2i_submit_blocking, krt2i_resume_blocking_lane, krt2i_wake).        *)
THEOREM LaneOwnership == Spec => []OneRunner
  <1>1. TypeOK /\ LaneInv => OneRunner
    <2> SUFFICES ASSUME TypeOK, NEW f \in Fiber, Owner(f)
                 PROVE  runs[f]["worker"] + runs[f]["lane"] + fresh[f] + again[f] + queued[f]
                          + (IF spawn[f] = "none" THEN 0 ELSE 1) <= 1
      BY DEF LaneInv, OneRunner
    <2>1. /\ runs[f]["worker"] \in Nat /\ runs[f]["lane"] \in Nat
          /\ fresh[f] \in Nat /\ again[f] \in Nat /\ queued[f] \in Nat
          /\ status[f] \in {"Running", "Parked", "Runnable", "Done"}
      BY DEF TypeOK, Kind
    <2> QED BY <2>1 DEF Owner, Running
  <1> QED BY <1>1, LaneInvariant, PTL

(* enter_blocking_region and leave_blocking_region balance on every way    *)
(* out of a region, so that the depth that routes a wake is right.         *)
THEOREM RegionsBalance == Spec => []DepthCountsFrames
  <1>1. LaneInv => DepthCountsFrames
    BY DEF LaneInv, Balance, DepthCountsFrames
  <1> QED BY <1>1, LaneInvariant, PTL

(* Unless a body cedes, no pool worker executes the body of a blocking     *)
(* region or finds the fiber in the run queue while it is in one.          *)
THEOREM BodiesStayOffPool ==
  ASSUME "regionCede" \notin Ops
  PROVE  Spec => []BodyOffPool
  <1>1. TypeOK /\ LaneInv /\ PoolInv /\ [Next]_vars => PoolInv'
    BY PoolNext
  <1>2. PoolInv => BodyOffPool
    BY DEF PoolInv, OffPool, BodyOffPool
  <1> QED BY <1>1, <1>2, LaneInit, LaneInvariant, PTL DEF Spec

(* The fields keep their types, and the counter of regions of a fiber no   *)
(* interrupt has woken in a call never underflows.                         *)
THEOREM LaneTypeCorrect == Spec => []TypeOK
  BY LaneInvariant, PTL
=============================================================================
