--------------------------- MODULE ExecutorFillProofs --------------------------
(***************************************************************************)
(* What the executor's machine promises of the fills it waits for.  The    *)
(* types of its state come first; then what is left of a plan is tied to   *)
(* what the machine expects of it: it can only take the venue toward the   *)
(* expectation, and where the machine expects a position and knew one, a   *)
(* plan that is carried out leaves one.                                    *)
(***************************************************************************)
EXTENDS RideExecutorProofs

(* The five states are states.                                             *)
LEMMA FsmStates ==
  /\ Frozen \in FsmState
  /\ \A pos \in Int : Synced(pos) \in FsmState
  /\ \A age \in 0 .. OldestAge, target \in Int : Drifting(age, target) \in FsmState
  /\ \A age \in 0 .. OldestAge, expected \in Int, prior \in Int :
       Settling(age, expected, prior) \in FsmState
  /\ \A reason \in Reasons : Degraded(reason) \in FsmState
BY DEF FsmState, Frozen, Synced, Drifting, Settling, Degraded

(* The oldest age is natural and both waits are within it.                 *)
LEMMA AgeTypes ==
  /\ OldestAge \in Nat /\ Debounce <= OldestAge /\ SettleTimeout <= OldestAge
  /\ \A age \in 0 .. OldestAge : Older(age) \in 0 .. OldestAge
BY ReconcilerAssumption DEF OldestAge, Larger, Older

(* Time leaves a state a state.                                            *)
LEMMA ElapseTyped ==
  ASSUME fsm \in FsmState, Elapse
  PROVE  fsm' \in FsmState
<1>1. CASE fsm \in [mode: {"Drifting"}, age: 0 .. OldestAge, target: Int]
  <2>1. fsm' = [fsm EXCEPT !.age = Older(fsm.age)]
    BY <1>1 DEF Elapse
  <2>2. fsm' \in [mode: {"Drifting"}, age: 0 .. OldestAge, target: Int]
    BY <1>1, <2>1, AgeTypes
  <2> QED BY <2>2 DEF FsmState
<1>2. CASE fsm \in [mode: {"Settling"}, age: 0 .. OldestAge, expected: Int, prior: Int]
  <2>1. fsm' = [fsm EXCEPT !.age = Older(fsm.age)]
    BY <1>2 DEF Elapse
  <2>2. fsm' \in [mode: {"Settling"}, age: 0 .. OldestAge, expected: Int, prior: Int]
    BY <1>2, <2>1, AgeTypes
  <2> QED BY <2>2 DEF FsmState
<1>3. CASE fsm.mode \notin {"Drifting", "Settling"}
  BY <1>3 DEF Elapse
<1> QED BY <1>1, <1>2, <1>3 DEF FsmState

(* What an order is expected to leave is a position.                       *)
LEMMA ExpectedTyped ==
  ASSUME NEW target \in Int, Mag(target) <= Cap, NEW pos \in Int, NEW stopOk
  PROVE  ExpectedAfter(Decide(target, pos, stopOk), pos) \in Int
<1> DEFINE order == Decide(target, pos, stopOk)
<1>1. order.usd \in Nat /\ (order.kind # "NoOp" => order.side \in Sides)
  BY DecideBound
<1> HIDE DEF order
<1>2. order.kind # "NoOp" => order.side * order.usd \in Int
  BY <1>1 DEF Sides
<1>3. ExpectedAfter(order, pos) \in Int
  BY <1>2 DEF ExpectedAfter
<1> QED BY <1>3 DEF order

(* An observation leaves the machine in one of its states.                 *)
LEMMA ObserveTyped ==
  ASSUME Shapes, fsm \in FsmState, NEW s \in Slots, Observe(s)
  PROVE  fsm' \in FsmState
<1>a. settled.size \in Int
  BY DEF Shapes
<1>1. ASSUME NEW o \in Observations, ObserveDegraded(o)
      PROVE  fsm' \in FsmState
  <2>1. ReasonOf(o) \in Reasons
    BY DEF ReasonOf, Reasons
  <2> QED BY <1>1, <2>1, FsmStates DEF ObserveDegraded
<1>2. ASSUME NEW o \in Observations, NEW virtual \in Virtuals,
             ObserveHealthy(s, o, virtual)
      PROVE  fsm' \in FsmState
  <2> DEFINE target == TargetOf(virtual)
  <2>1. target \in Int /\ Mag(target) <= Cap
    BY TargetWithinCap, ExecutorAssumption
  <2> HIDE DEF target
  <2>2. CASE StepFrozen(s, target) \/ StepFreeze(target) \/ StepWait(target)
    BY <2>2, FsmStates DEF StepFrozen, StepFreeze, StepWait
  <2>3. CASE StepInSync(s, target)
    BY <2>3, <1>a, FsmStates DEF StepInSync
  <2>4. CASE StepDebounce(target)
    <3>1. DriftAge(target) \in 0 .. OldestAge
      BY AgeTypes DEF DriftAge, FsmState
    <3> QED BY <3>1, <2>1, <2>4, FsmStates DEF StepDebounce
  <2>5. CASE StepAct(s, target)
    <3>1. ExpectedAfter(Desired(target), settled.size) \in Int
      BY <2>1, <1>a, ExpectedTyped DEF Desired
    <3>2. 0 \in 0 .. OldestAge
      BY AgeTypes
    <3>3. fsm' = Settling(0, ExpectedAfter(Desired(target), settled.size), settled.size)
      BY <2>5 DEF StepAct
    <3> QED BY <3>1, <3>2, <3>3, <1>a, FsmStates
  <2> QED BY <1>2, <2>2, <2>3, <2>4, <2>5 DEF ObserveHealthy, target
<1> QED BY <1>1, <1>2 DEF Observe

(* The type invariant is kept with the shapes it rests on.                 *)
LEMMA StepTyped ==
  ASSUME IInv, TypeOK, [Next]_vars
  PROVE  TypeOK'
<1> USE DEF vars, app
<1>a. Shapes /\ Shapes'
  BY StepShapes DEF IInv
<1>b. \A x \in JobState : x \in [busy: BOOLEAN, calls: Seq(Call)]
  <2>1. <<>> \in Seq(Call)
    OBVIOUS
  <2>2. Idle \in [busy: BOOLEAN, calls: Seq(Call)]
    BY <2>1 DEF Idle
  <2>3. \A calls \in Seq(Call) : Running(calls) \in [busy: BOOLEAN, calls: Seq(Call)]
    BY DEF Running
  <2> QED BY <2>2, <2>3 DEF JobState
<1>c. /\ job' \in [Slots -> [busy: BOOLEAN, calls: Seq(Call)]]
      /\ venue' \in [Sides -> Nat] /\ pending' \in Seq(Call)
  BY <1>a, <1>b DEF Shapes
<1>d. fsm \in FsmState /\ settled \in [size: Int, stopOk: BOOLEAN]
      /\ past \in {"kept", "stoppedOut", "forgotten", "broken"}
  BY DEF TypeOK
<1>1. ASSUME NEW s \in Slots, Observe(s)
      PROVE  TypeOK'
  <2>1. fsm' \in FsmState
    BY <1>1, <1>a, <1>d, ObserveTyped
  <2>2. past' \in {"kept", "stoppedOut", "forgotten", "broken"}
    BY <1>1, <1>d DEF Observe, Witness
  <2> QED BY <2>1, <2>2, <1>c, <1>d, <1>1 DEF TypeOK, Observe
<1>2. ASSUME NEW s \in Slots,
             Confirmed(s) \/ Sent(s) \/ Rejected(s) \/ AnswerLost(s) \/ RereadFails(s)
      PROVE  TypeOK'
  <2>1. UNCHANGED <<fsm, settled>> /\ (past' = past \/ past' = "broken")
    BY <1>2 DEF Confirmed, Sent, Rejected, AnswerLost, RereadFails
  <2> QED BY <2>1, <1>c, <1>d DEF TypeOK
<1>3. ASSUME NEW s \in Slots, Reread(s)
      PROVE  TypeOK'
  <2>1. UNCHANGED <<fsm, past>>
    BY <1>3 DEF Reread
  <2>2. PICK stopOk \in BOOLEAN, size \in (IF Readable = {} THEN {0} ELSE Readable) :
               settled' = [size |-> size, stopOk |-> stopOk /\ size # 0]
    BY <1>3 DEF Reread
  <2>3. size \in Int
    BY <2>2, <1>a DEF Shapes
  <2>4. (stopOk /\ size # 0) \in BOOLEAN
    OBVIOUS
  <2>5. settled' \in [size: Int, stopOk: BOOLEAN]
    BY <2>2, <2>3, <2>4
  <2> QED BY <2>1, <2>5, <1>c, <1>d DEF TypeOK
<1>4. CASE LandPending \/ DropPending \/ UNCHANGED vars
  BY <1>4, <1>c, <1>d DEF LandPending, DropPending, TypeOK
<1>5. ASSUME NEW d \in Sides, StopOut(d)
      PROVE  TypeOK'
  BY <1>5, <1>c, <1>d DEF StopOut, TypeOK
<1>6. CASE Elapse
  <2>1. fsm' \in FsmState /\ UNCHANGED <<settled, past>>
    BY <1>6, <1>d, ElapseTyped DEF Elapse
  <2> QED BY <2>1, <1>c, <1>d DEF TypeOK
<1> QED BY <1>1, <1>2, <1>3, <1>4, <1>5, <1>6 DEF Next

(* The first state is typed.                                               *)
LEMMA InitTyped == Init => TypeOK
<1> SUFFICES ASSUME Init
             PROVE  TypeOK
  OBVIOUS
<1>1. fsm \in FsmState
  BY FsmStates DEF Init
<1>2. <<>> \in Seq(Call)
  OBVIOUS
<1>3. /\ job \in [Slots -> [busy: BOOLEAN, calls: Seq(Call)]]
      /\ venue \in [Sides -> Nat]
  BY <1>2 DEF Init, Idle
<1> QED BY <1>1, <1>2, <1>3 DEF Init, TypeOK

(* The machine's state, the mirror, the plans, the venue and the orders    *)
(* under way have their types for every cap, timeout and observation.      *)
THEOREM ExecutorTyped == Spec => []TypeOK
<1>1. Init => TypeOK
  BY InitTyped
<1>2. IInv /\ TypeOK /\ [Next]_vars => TypeOK'
  BY StepTyped
<1> QED BY <1>1, <1>2, ExecutorInductive, PTL DEF Spec
-------------------------------------------------------------------------------
(* A side of `n' is short of the position `e': it has its direction and no *)
(* more than its size.                                                     *)
Within(d, n, e) == n > 0 => IF d = 1 THEN n <= e ELSE n <= -e

(* What is left of a plan, carried out as far as the venue goes along,     *)
(* ends between flat and `e'.                                              *)
Toward(calls, v, e) ==
  \/ calls = <<>> /\ \A d \in Sides : Within(d, v[d], e)
  \/ \E d \in Sides, usd \in Nat :
       /\ calls = <<CallOf("close", d, usd)>>
       /\ v[-d] = 0
       /\ usd = 0 \/ Within(d, v[d] - usd, e)
  \/ \E d \in Sides, usd \in Nat :
       /\ calls = <<CallOf("open", d, usd)>>
       /\ v[-d] = 0 /\ Within(d, v[d] + usd, e)
  \/ \E d \in Sides, usd \in Nat :
       /\ calls = <<CallOf("close", d, 0), CallOf("open", -d, usd)>>
       /\ v[-d] = 0 /\ Within(-d, usd, e)

(* What is left of a plan leaves a position open when it is carried out.   *)
Leaves(calls, v) ==
  \/ calls = <<>> /\ \E d \in Sides : v[d] > 0
  \/ \E d \in Sides, usd \in Nat \ {0} :
       calls = <<CallOf("close", d, usd)>> /\ (v[d] > 0 => v[d] > usd)
  \/ \E d \in Sides, usd \in Nat \ {0} : calls = <<CallOf("open", d, usd)>>
  \/ \E d \in Sides, usd \in Nat \ {0} :
       calls = <<CallOf("close", d, 0), CallOf("open", -d, usd)>>

(* A machine in sync knows what the mirror shows, and its calls, if any,   *)
(* can only replace a stop.                                                *)
SyncedKnows ==
  past # "broken" /\ fsm.mode = "Synced" =>
    /\ fsm.pos = settled.size
    /\ \A s \in Slots : job[s].busy =>
         \E d \in Sides : job[s].calls = <<CallOf("replaceStop", d, 0)>>

(* A plan under way goes toward what the machine expects.                  *)
PlanToward ==
  past # "broken" /\ fsm.mode = "Settling" =>
    \A s \in Slots : job[s].busy => Toward(job[s].calls, venue, fsm.expected)

(* With no stop-out to answer, a machine that knew a position and expects  *)
(* one finds one, before and after the plan.                               *)
PositionLasts ==
  Clear /\ fsm.mode = "Settling" /\ fsm.prior # 0 /\ fsm.expected # 0 =>
    /\ Quiet => settled.size # 0
    /\ \A s \in Slots : job[s].busy => Leaves(job[s].calls, venue)

-------------------------------------------------------------------------------
(* How much an order moves: something, and a partial reduction less than   *)
(* everything.                                                             *)
LEMMA DecideMoves ==
  ASSUME MaxDelta > 0,
         NEW target \in Int, NEW pos \in Int, NEW stopOk,
         NEW order, order = Decide(target, pos, stopOk)
  PROVE  /\ order.kind \in {"OpenIncrease", "Flip", "ReducePartial"} => order.usd > 0
         /\ order.kind = "ReducePartial" => order.usd < Mag(pos)
<1> USE WidthTypes, ReconcilerAssumption
<1> USE DEF Kinds, OrderOf, SideOf, Mag, CapDelta
<1>1. CASE target = 0
  BY <1>1 DEF Decide, NoOp
<1>2. CASE target # 0 /\ (pos = 0 \/ SideOf(target) # SideOf(pos))
  BY <1>2 DEF Decide
<1>3. CASE target # 0 /\ pos # 0 /\ SideOf(target) = SideOf(pos)
  <2>1. order = SameSide(target, pos, stopOk)
    BY <1>3 DEF Decide
  <2> DEFINE diff == Mag(target) - Mag(pos)
  <2>2. CASE Mag(diff) <= Band
    BY <2>1, <2>2, <1>3 DEF SameSide, NoOp
  <2>3. CASE ~(Mag(diff) <= Band) /\ diff > 0
    BY <2>1, <2>3, <1>3 DEF SameSide
  <2>4. CASE ~(Mag(diff) <= Band) /\ ~(diff > 0)
    <3>1. order \in {OrderOf("FullClose", SideOf(pos), 0),
                     OrderOf("ReducePartial", SideOf(pos), CapDelta(-diff))}
      BY <2>1, <2>4 DEF SameSide
    <3> QED BY <3>1, <2>4, <1>3
  <2> QED BY <2>2, <2>3, <2>4
<1> QED BY <1>1, <1>2, <1>3

(* The side a position is on, and the venue behind a right mirror.         *)
LEMMA MirrorSides ==
  ASSUME NEW pos \in Int, NEW v \in [Sides -> Nat],
         \A d \in Sides : v[d] > 0 => pos = d * v[d]
  PROVE  /\ \A d \in Sides : -d \in Sides /\ -(-d) = d
         /\ pos # 0 => SideOf(pos) \in Sides /\ v[-SideOf(pos)] = 0
         /\ pos = 0 => \A d \in Sides : v[d] = 0
         /\ v[1] > 0 => pos = v[1]
         /\ v[-1] > 0 => pos = -v[-1]
         /\ v[1] \in Nat /\ v[-1] \in Nat
<1>1. 1 \in Sides /\ -1 \in Sides /\ \A d \in Sides : d = 1 \/ d = -1
  BY DEF Sides
<1>2. v[1] \in Nat /\ v[-1] \in Nat
  BY <1>1
<1>3. (v[1] > 0 => pos = v[1]) /\ (v[-1] > 0 => pos = -v[-1])
  BY <1>1, <1>2
<1>4. \A d \in Sides : -d \in Sides /\ -(-d) = d
  BY <1>1
<1>5. pos = 0 => \A d \in Sides : v[d] = 0
  BY <1>1, <1>2, <1>3
<1>6. pos # 0 => SideOf(pos) \in Sides /\ v[-SideOf(pos)] = 0
  BY <1>1, <1>2, <1>3 DEF SideOf
<1> QED BY <1>2, <1>3, <1>4, <1>5, <1>6

(* The plan of an order, started on a right mirror, goes toward what the   *)
(* machine then expects (planFlashOrder against _expectedSettledAfter).    *)
LEMMA PlanGoesToward ==
  ASSUME NEW target \in Int, Mag(target) <= Cap, NEW pos \in Int, NEW stopOk,
         NEW order, order = Decide(target, pos, stopOk),
         order.kind \notin {"NoOp", "ReplaceStop"},
         NEW v \in [Sides -> Nat], \A d \in Sides : v[d] > 0 => pos = d * v[d]
  PROVE  Toward(PlanFlashOrder(order, pos), v, ExpectedAfter(order, pos))
<1> DEFINE e == ExpectedAfter(order, pos)
<1>1. /\ order.kind \in Kinds /\ order.usd \in Nat /\ order.side \in Sides
      /\ order.kind = "OpenIncrease" => pos = 0 \/ order.side = SideOf(pos)
      /\ order.kind \in {"FullClose", "ReducePartial"} =>
           pos # 0 /\ order.side = SideOf(pos)
      /\ order.kind = "Flip" => pos # 0 /\ order.side = -SideOf(pos)
  BY DecideBound
<1>2. \A d \in Sides : d = 1 \/ d = -1
  BY DEF Sides
<1>3. /\ \A d \in Sides : -d \in Sides /\ -(-d) = d
      /\ pos # 0 => SideOf(pos) \in Sides /\ v[-SideOf(pos)] = 0
      /\ pos = 0 => \A d \in Sides : v[d] = 0
      /\ v[1] > 0 => pos = v[1]
      /\ v[-1] > 0 => pos = -v[-1]
      /\ v[1] \in Nat /\ v[-1] \in Nat
  BY MirrorSides
<1>4. CASE order.kind = "OpenIncrease"
  <2>1. PlanFlashOrder(order, pos) = <<CallOf("open", order.side, order.usd)>>
    BY <1>4 DEF PlanFlashOrder
  <2>2. v[-order.side] = 0
    BY <1>1, <1>3, <1>4
  <2>3. e = pos + order.side * order.usd
    BY <1>4 DEF ExpectedAfter
  <2>4. Within(order.side, v[order.side] + order.usd, e)
    <3>1. CASE order.side = 1
      <4>1. pos >= 0 /\ e = pos + order.usd
        BY <3>1, <2>3, <1>1, <1>4 DEF SideOf
      <4> QED BY <4>1, <3>1, <1>1, <1>3 DEF Within
    <3>2. CASE order.side = -1
      <4>1. pos <= 0 /\ e = pos - order.usd
        BY <3>2, <2>3, <1>1, <1>4 DEF SideOf
      <4> QED BY <4>1, <3>2, <1>1, <1>3 DEF Within
    <3> QED BY <3>1, <3>2, <1>1, <1>2
  <2> QED BY <2>1, <2>2, <2>4, <1>1 DEF Toward
<1>5. CASE order.kind = "ReducePartial"
  <2>1. PlanFlashOrder(order, pos) = <<CallOf("close", order.side, order.usd)>>
    BY <1>5 DEF PlanFlashOrder
  <2>2. v[-order.side] = 0
    BY <1>1, <1>3, <1>5
  <2>3. e = pos - order.side * order.usd
    BY <1>5 DEF ExpectedAfter
  <2>4. Within(order.side, v[order.side] - order.usd, e)
    <3>1. CASE order.side = 1
      BY <3>1, <2>3, <1>1, <1>3 DEF Within
    <3>2. CASE order.side = -1
      BY <3>2, <2>3, <1>1, <1>3 DEF Within
    <3> QED BY <3>1, <3>2, <1>1, <1>2
  <2> QED BY <2>1, <2>2, <2>4, <1>1 DEF Toward
<1>6. CASE order.kind = "FullClose"
  <2>1. PlanFlashOrder(order, pos) = <<CallOf("close", order.side, 0)>>
    BY <1>6 DEF PlanFlashOrder
  <2>2. v[-order.side] = 0
    BY <1>1, <1>3, <1>6
  <2> QED BY <2>1, <2>2, <1>1 DEF Toward
<1>7. CASE order.kind = "Flip"
  <2> DEFINE d == SideOf(pos)
  <2>1. d \in Sides /\ order.side = -d /\ v[-d] = 0
    BY <1>1, <1>3, <1>7
  <2>2. PlanFlashOrder(order, pos) = <<CallOf("close", d, 0), CallOf("open", -d, order.usd)>>
    BY <2>1, <1>7 DEF PlanFlashOrder
  <2>3. e = order.side * order.usd
    BY <1>7 DEF ExpectedAfter
  <2> HIDE DEF d
  <2>4. Within(-d, order.usd, e)
    BY <2>1, <2>3, <1>1, <1>2 DEF Within
  <2> QED BY <2>1, <2>2, <2>4, <1>1 DEF Toward
<1> QED BY <1>1, <1>4, <1>5, <1>6, <1>7 DEF Kinds

(* And unless it closes, it leaves a position.                             *)
LEMMA PlanLeaves ==
  ASSUME MaxDelta > 0,
         NEW target \in Int, Mag(target) <= Cap, NEW pos \in Int, NEW stopOk,
         NEW order, order = Decide(target, pos, stopOk),
         order.kind \in {"OpenIncrease", "ReducePartial", "Flip"},
         NEW v \in [Sides -> Nat], \A d \in Sides : v[d] > 0 => pos = d * v[d]
  PROVE  Leaves(PlanFlashOrder(order, pos), v)
<1>1. /\ order.kind \in Kinds /\ order.usd \in Nat /\ order.side \in Sides
      /\ order.kind = "ReducePartial" => pos # 0 /\ order.side = SideOf(pos)
      /\ order.kind = "Flip" => pos # 0 /\ order.side = -SideOf(pos)
  BY DecideBound
<1>2. /\ order.kind \in {"OpenIncrease", "Flip", "ReducePartial"} => order.usd > 0
      /\ order.kind = "ReducePartial" => order.usd < Mag(pos)
  BY DecideMoves
<1>3. /\ pos # 0 => SideOf(pos) \in Sides
      /\ v[1] > 0 => pos = v[1]
      /\ v[-1] > 0 => pos = -v[-1]
      /\ v[1] \in Nat /\ v[-1] \in Nat
      /\ \A d \in Sides : d = 1 \/ d = -1
      /\ \A d \in Sides : -d \in Sides /\ -(-d) = d
  BY MirrorSides DEF Sides
<1>4. CASE order.kind = "OpenIncrease"
  <2>1. PlanFlashOrder(order, pos) = <<CallOf("open", order.side, order.usd)>>
    BY <1>4 DEF PlanFlashOrder
  <2>2. order.usd \in Nat \ {0}
    BY <1>1, <1>2, <1>4
  <2> QED BY <2>1, <2>2, <1>1 DEF Leaves
<1>5. CASE order.kind = "ReducePartial"
  <2>1. PlanFlashOrder(order, pos) = <<CallOf("close", order.side, order.usd)>>
    BY <1>5 DEF PlanFlashOrder
  <2>2. order.usd \in Nat \ {0}
    BY <1>1, <1>2, <1>5
  <2>3. v[order.side] > 0 => v[order.side] > order.usd
    BY <1>1, <1>2, <1>3, <1>5 DEF Mag
  <2> QED BY <2>1, <2>2, <2>3, <1>1 DEF Leaves
<1>6. CASE order.kind = "Flip"
  <2>1. PlanFlashOrder(order, pos)
          = <<CallOf("close", SideOf(pos), 0), CallOf("open", -SideOf(pos), order.usd)>>
    BY <1>1, <1>6 DEF PlanFlashOrder
  <2>2. order.usd \in Nat \ {0}
    BY <1>1, <1>2, <1>6
  <2> QED BY <2>1, <2>2, <1>1, <1>3, <1>6 DEF Leaves
<1> QED BY <1>4, <1>5, <1>6
-------------------------------------------------------------------------------
(* A keeper's close leaves what went toward an expectation going there.    *)
LEMMA TowardAfterClose ==
  ASSUME NEW calls, NEW e \in Int,
         NEW v \in [Sides -> Nat], NEW w \in [Sides -> Nat],
         Toward(calls, v, e), \A d \in Sides : w[d] <= v[d]
  PROVE  Toward(calls, w, e)
<1>1. \A d \in Sides : -d \in Sides
  BY DEF Sides
<1>2. CASE calls = <<>> /\ \A d \in Sides : Within(d, v[d], e)
  <2>1. \A d \in Sides : Within(d, w[d], e)
    BY <1>2 DEF Within
  <2> QED BY <1>2, <2>1 DEF Toward
<1>3. ASSUME NEW d \in Sides, NEW usd \in Nat,
             calls = <<CallOf("close", d, usd)>>, v[-d] = 0,
             usd = 0 \/ Within(d, v[d] - usd, e)
      PROVE  Toward(calls, w, e)
  <2>1. w[-d] = 0
    BY <1>1, <1>3
  <2>2. usd = 0 \/ Within(d, w[d] - usd, e)
    BY <1>3 DEF Within
  <2> QED BY <1>3, <2>1, <2>2 DEF Toward
<1>4. ASSUME NEW d \in Sides, NEW usd \in Nat,
             calls = <<CallOf("open", d, usd)>>, v[-d] = 0,
             Within(d, v[d] + usd, e)
      PROVE  Toward(calls, w, e)
  <2>1. w[-d] = 0
    BY <1>1, <1>4
  <2>2. Within(d, w[d] + usd, e)
    BY <1>4 DEF Within
  <2> QED BY <1>4, <2>1, <2>2 DEF Toward
<1>5. ASSUME NEW d \in Sides, NEW usd \in Nat,
             calls = <<CallOf("close", d, 0), CallOf("open", -d, usd)>>, v[-d] = 0,
             Within(-d, usd, e)
      PROVE  Toward(calls, w, e)
  <2>1. w[-d] = 0
    BY <1>1, <1>5
  <2> QED BY <1>5, <2>1 DEF Toward
<1> QED BY <1>2, <1>3, <1>4, <1>5 DEF Toward

(* The venue after each kind of call that can land.                        *)
LEMMA LandedCases ==
  ASSUME Shapes, NEW d \in Sides, NEW usd \in Nat
  PROVE  /\ Landed(CallOf("close", d, usd)) \in [Sides -> Nat]
         /\ Landed(CallOf("close", d, usd))[d] =
              IF usd = 0 \/ usd >= venue[d] THEN 0 ELSE venue[d] - usd
         /\ Landed(CallOf("close", d, usd))[-d] = venue[-d]
         /\ Landed(CallOf("open", d, usd)) \in [Sides -> Nat]
         /\ Landed(CallOf("open", d, usd))[d] = venue[d] + usd
         /\ Landed(CallOf("open", d, usd))[-d] = venue[-d]
<1>1. venue \in [Sides -> Nat] /\ venue[d] \in Nat
  BY DEF Shapes
<1>2. -d \in Sides /\ -d # d
  BY DEF Sides
<1> DEFINE left == IF usd = 0 \/ usd >= venue[d] THEN 0 ELSE venue[d] - usd
<1>3. left \in Nat /\ venue[d] + usd \in Nat
  BY <1>1
<1>4. Landed(CallOf("close", d, usd)) = [venue EXCEPT ![d] = left]
  BY DEF Landed, CallOf
<1>5. Landed(CallOf("open", d, usd)) = [venue EXCEPT ![d] = venue[d] + usd]
  BY DEF Landed, CallOf
<1> HIDE DEF left
<1>6. /\ Landed(CallOf("close", d, usd)) \in [Sides -> Nat]
      /\ Landed(CallOf("close", d, usd))[d] = left
      /\ Landed(CallOf("close", d, usd))[-d] = venue[-d]
  BY <1>1, <1>2, <1>3, <1>4
<1>7. /\ Landed(CallOf("open", d, usd)) \in [Sides -> Nat]
      /\ Landed(CallOf("open", d, usd))[d] = venue[d] + usd
      /\ Landed(CallOf("open", d, usd))[-d] = venue[-d]
  BY <1>1, <1>2, <1>3, <1>5
<1> QED BY <1>6, <1>7 DEF left

(* So does a call of the plan that lands.                                  *)
LEMMA TowardAfterCall ==
  ASSUME Shapes, NEW s \in Slots, job[s].calls # <<>>, NEW e \in Int,
         Toward(job[s].calls, venue, e), NEW w, w = Landed(Current(s))
  PROVE  Toward(Tail(job[s].calls), w, e)
<1>a. venue \in [Sides -> Nat] /\ Sides = {-1, 1}
  BY DEF Shapes, Sides
<1>b. \A d \in Sides : -d \in Sides /\ -(-d) = d /\ venue[d] \in Nat
  BY <1>a
<1>1. ASSUME NEW d \in Sides, NEW usd \in Nat,
             job[s].calls = <<CallOf("close", d, usd)>>, venue[-d] = 0,
             usd = 0 \/ Within(d, venue[d] - usd, e)
      PROVE  Toward(Tail(job[s].calls), w, e)
  <2>1. w = Landed(CallOf("close", d, usd)) /\ Tail(job[s].calls) = <<>>
    BY <1>1, OneCall DEF Current
  <2>2. /\ w[d] = IF usd = 0 \/ usd >= venue[d] THEN 0 ELSE venue[d] - usd
        /\ w[-d] = 0
    BY <2>1, <1>1, LandedCases
  <2>3. Within(d, w[d], e) /\ Within(-d, w[-d], e)
    BY <2>2, <1>1, <1>b DEF Within
  <2>4. \A x \in Sides : x = d \/ x = -d
    BY <1>a
  <2> QED BY <2>1, <2>3, <2>4 DEF Toward
<1>2. ASSUME NEW d \in Sides, NEW usd \in Nat,
             job[s].calls = <<CallOf("open", d, usd)>>, venue[-d] = 0,
             Within(d, venue[d] + usd, e)
      PROVE  Toward(Tail(job[s].calls), w, e)
  <2>1. w = Landed(CallOf("open", d, usd)) /\ Tail(job[s].calls) = <<>>
    BY <1>2, OneCall DEF Current
  <2>2. w[d] = venue[d] + usd /\ w[-d] = 0
    BY <2>1, <1>2, LandedCases
  <2>3. Within(d, w[d], e) /\ Within(-d, w[-d], e)
    BY <2>2, <1>2 DEF Within
  <2>4. \A x \in Sides : x = d \/ x = -d
    BY <1>a
  <2> QED BY <2>1, <2>3, <2>4 DEF Toward
<1>3. ASSUME NEW d \in Sides, NEW usd \in Nat,
             job[s].calls = <<CallOf("close", d, 0), CallOf("open", -d, usd)>>,
             venue[-d] = 0, Within(-d, usd, e)
      PROVE  Toward(Tail(job[s].calls), w, e)
  <2>1. /\ w = Landed(CallOf("close", d, 0))
        /\ Tail(job[s].calls) = <<CallOf("open", -d, usd)>>
    BY <1>3, TwoCalls DEF Current
  <2>2. w[d] = 0 /\ w[-d] = 0
    BY <2>1, <1>3, LandedCases
  <2>3. w[-(-d)] = 0 /\ -d \in Sides /\ w[-d] + usd = usd
    BY <2>2, <1>b
  <2> QED BY <2>1, <2>3, <1>3 DEF Toward
<1> QED BY <1>1, <1>2, <1>3 DEF Toward

(* A call that lands leaves what was to leave a position doing so.         *)
LEMMA LeavesAfterCall ==
  ASSUME Shapes, NEW s \in Slots, job[s].calls # <<>>,
         Leaves(job[s].calls, venue), Possible(Current(s)),
         NEW w, w = Landed(Current(s))
  PROVE  Leaves(Tail(job[s].calls), w)
<1>b. \A d \in Sides : -d \in Sides /\ venue[d] \in Nat
  BY DEF Sides, Shapes
<1>1. ASSUME NEW d \in Sides, NEW usd \in Nat \ {0},
             job[s].calls = <<CallOf("close", d, usd)>>,
             venue[d] > 0 => venue[d] > usd
      PROVE  Leaves(Tail(job[s].calls), w)
  <2>1. /\ Current(s) = CallOf("close", d, usd) /\ Tail(job[s].calls) = <<>>
        /\ w = Landed(CallOf("close", d, usd))
    BY <1>1, OneCall DEF Current
  <2>2. venue[d] > 0
    BY <2>1 DEF Possible, CallOf
  <2>3. w[d] = IF usd = 0 \/ usd >= venue[d] THEN 0 ELSE venue[d] - usd
    BY <2>1, LandedCases
  <2>4. usd \in Nat /\ venue[d] \in Nat /\ venue[d] > usd
    BY <2>2, <1>1, <1>b
  <2>5. w[d] > 0
    BY <2>3, <2>4, <1>1
  <2> QED BY <2>1, <2>5 DEF Leaves
<1>2. ASSUME NEW d \in Sides, NEW usd \in Nat \ {0},
             job[s].calls = <<CallOf("open", d, usd)>>
      PROVE  Leaves(Tail(job[s].calls), w)
  <2>1. w = Landed(CallOf("open", d, usd)) /\ Tail(job[s].calls) = <<>>
    BY <1>2, OneCall DEF Current
  <2>2. w[d] = venue[d] + usd
    BY <2>1, LandedCases
  <2> QED BY <2>1, <2>2, <1>b DEF Leaves
<1>3. ASSUME NEW d \in Sides, NEW usd \in Nat \ {0},
             job[s].calls = <<CallOf("close", d, 0), CallOf("open", -d, usd)>>
      PROVE  Leaves(Tail(job[s].calls), w)
  <2>1. Tail(job[s].calls) = <<CallOf("open", -d, usd)>>
    BY <1>3, TwoCalls
  <2> QED BY <2>1, <1>b DEF Leaves
<1> QED BY <1>1, <1>2, <1>3 DEF Leaves

(* The read-back shows what went toward an expectation short of it, and a  *)
(* position that was left as a position.                                   *)
LEMMA RereadShows ==
  ASSUME Shapes, OneSided, NEW s \in Slots, Reread(s)
  PROVE  /\ \A e \in Int : Toward(<<>>, venue, e) => Between0(settled'.size, e)
         /\ Leaves(<<>>, venue) => settled'.size # 0
<1>a. venue \in [Sides -> Nat] /\ Sides = {-1, 1}
  BY DEF Shapes, Sides
<1>1. PICK size \in (IF Readable = {} THEN {0} ELSE Readable) : settled'.size = size
  BY DEF Reread
<1>2. \A e \in Int : Toward(<<>>, venue, e) => \A d \in Sides : Within(d, venue[d], e)
  BY DEF Toward
<1>3. Leaves(<<>>, venue) => \E d \in Sides : venue[d] > 0
  BY DEF Leaves
<1>4. CASE Readable = {}
  <2>1. \A d \in Sides : ~(venue[d] > 0)
    BY <1>4 DEF Readable
  <2> QED BY <1>1, <1>3, <1>4, <2>1 DEF Between0
<1>5. CASE Readable # {}
  <2>1. PICK d \in Sides : venue[d] > 0 /\ size = d * venue[d]
    BY <1>1, <1>5 DEF Readable
  <2>2. venue[d] \in Nat /\ (d = 1 \/ d = -1)
    BY <1>a
  <2>3. size = IF d = 1 THEN venue[d] ELSE -venue[d]
    BY <2>1, <2>2
  <2>4. size # 0
    BY <2>1, <2>2, <2>3
  <2>5. \A e \in Int : Within(d, venue[d], e) => Between0(size, e)
    BY <2>1, <2>2, <2>3 DEF Within, Between0
  <2> QED BY <2>4, <2>5, <1>1, <1>2
<1> QED BY <1>4, <1>5
-------------------------------------------------------------------------------
(* Where an observation takes the machine, and what it starts.             *)
StaysPut ==
  /\ UNCHANGED <<fsm, job>>
  /\ Clear' => Clear \/ settled.size # 0
GoesSynced(s) ==
  /\ fsm' = Synced(settled.size)
  /\ \/ UNCHANGED job
     \/ \E d \in Sides :
          job' = [job EXCEPT ![s] = Running(<<CallOf("replaceStop", d, 0)>>)]
GoesSettling(s) ==
  \E target \in Int :
    LET order == Decide(target, settled.size, settled.stopOk) IN
    /\ Mag(target) <= Cap
    /\ order.kind \notin {"NoOp", "ReplaceStop"}
    /\ fsm' = Settling(0, ExpectedAfter(order, settled.size), settled.size)
    /\ Apply(s, order)

LEMMA ObserveOutcome ==
  ASSUME Shapes, NEW s \in Slots, Observe(s)
  PROVE  \/ fsm'.mode \in {"Frozen", "Degraded", "Drifting"}
         \/ StaysPut \/ GoesSynced(s) \/ GoesSettling(s)
<1>a. settled.size \in Int
  BY DEF Shapes
<1>1. ASSUME NEW o \in Observations, ObserveDegraded(o)
      PROVE  fsm'.mode = "Degraded"
  BY <1>1 DEF ObserveDegraded, Degraded
<1>2. ASSUME NEW o \in Observations, NEW virtual \in Virtuals,
             ObserveHealthy(s, o, virtual), Witness(TargetOf(virtual), Healthy(o))
      PROVE  \/ fsm'.mode \in {"Frozen", "Degraded", "Drifting"}
             \/ StaysPut \/ GoesSynced(s) \/ GoesSettling(s)
  <2> DEFINE target == TargetOf(virtual)
  <2>1. target \in Int /\ Mag(target) <= Cap
    BY TargetWithinCap, ExecutorAssumption
  <2>2. Clear' => Clear \/ target = 0
    BY <1>2 DEF Witness, Clear, ObserveHealthy
  <2> HIDE DEF target
  <2>3. CASE StepFrozen(s, target)
    <3>1. CASE settled.size # 0
      BY <2>3, <3>1 DEF StepFrozen, Frozen
    <3>2. CASE settled.size = 0
      BY <2>3, <3>2 DEF StepFrozen, Frozen, GoesSynced
    <3> QED BY <3>1, <3>2
  <2>4. CASE StepFreeze(target)
    BY <2>4 DEF StepFreeze, Frozen
  <2>5. CASE StepInSync(s, target)
    <3>1. fsm' = Synced(settled.size)
      BY <2>5 DEF StepInSync
    <3>2. CASE UNCHANGED job
      BY <3>1, <3>2 DEF GoesSynced
    <3>3. CASE Desired(target).kind = "ReplaceStop" /\ Apply(s, Desired(target))
      <4>1. Desired(target).side \in Sides
        BY <3>3, <2>1, <1>a, DecideBound DEF Desired
      <4>2. PlanFlashOrder(Desired(target), settled.size)
              = <<CallOf("replaceStop", Desired(target).side, 0)>>
        BY <3>3 DEF PlanFlashOrder
      <4> QED BY <3>1, <3>3, <4>1, <4>2 DEF GoesSynced, Apply
    <3> QED BY <2>5, <3>2, <3>3 DEF StepInSync
  <2>6. CASE StepWait(target)
    <3>1. UNCHANGED <<fsm, job>> /\ Desired(target).kind # "NoOp"
      BY <2>6 DEF StepWait, Drifts
    <3>2. target = 0 => settled.size # 0
      BY <3>1, <1>a DEF Desired, Decide, NoOp, OrderOf
    <3> QED BY <3>1, <3>2, <2>2 DEF StaysPut
  <2>7. CASE StepDebounce(target)
    BY <2>7 DEF StepDebounce, Drifting
  <2>8. CASE StepAct(s, target)
    <3>1. Desired(target).kind \notin {"NoOp", "ReplaceStop"}
      BY <2>8 DEF StepAct, Drifts
    <3> QED BY <2>8, <3>1, <2>1 DEF StepAct, Desired, GoesSettling
  <2> QED BY <1>2, <2>3, <2>4, <2>5, <2>6, <2>7, <2>8 DEF ObserveHealthy, target
<1> QED BY <1>1, <1>2 DEF Observe

(* Of the machine's state the clock moves the age only.                    *)
LEMMA ElapseKeeps ==
  ASSUME fsm \in FsmState, Elapse
  PROVE  /\ UNCHANGED <<settled, job, venue, pending, past>>
         /\ fsm'.mode = fsm.mode
         /\ fsm.mode = "Synced" => fsm' = fsm
         /\ fsm.mode = "Settling" =>
              fsm'.expected = fsm.expected /\ fsm'.prior = fsm.prior
<1>1. UNCHANGED <<settled, job, venue, pending, past>>
  BY DEF Elapse
<1>2. CASE fsm.mode \notin {"Drifting", "Settling"}
  <2>1. fsm' = fsm
    BY <1>2 DEF Elapse
  <2> QED BY <1>1, <1>2, <2>1
<1>3. CASE fsm \in [mode: {"Drifting"}, age: 0 .. OldestAge, target: Int]
  <2>1. fsm' = [fsm EXCEPT !.age = Older(fsm.age)]
    BY <1>3 DEF Elapse
  <2> QED BY <1>1, <1>3, <2>1
<1>4. CASE fsm \in [mode: {"Settling"}, age: 0 .. OldestAge, expected: Int, prior: Int]
  <2>1. fsm' = [fsm EXCEPT !.age = Older(fsm.age)]
    BY <1>4 DEF Elapse
  <2> QED BY <1>1, <1>4, <2>1
<1> QED BY <1>2, <1>3, <1>4 DEF FsmState

(* While the contract is kept, one plan is under way at most.              *)
LEMMA QuietOrOne ==
  ASSUME IInv, past # "broken"
  PROVE  /\ Kept
         /\ \A s, u \in Slots : job[s].busy /\ job[u].busy => s = u
         /\ Quiet => Mirror /\ \A s \in Slots : ~job[s].busy
BY DEF IInv, KeptOrBroken, Kept, Quiet, Free

(* What starting a plan makes of the slots.                                *)
LEMMA OnlyPlan ==
  ASSUME Shapes, Quiet, NEW s \in Slots, NEW calls,
         job' = [job EXCEPT ![s] = Running(calls)]
  PROVE  /\ ~Quiet'
         /\ \A u \in Slots : job'[u].busy => u = s /\ job'[u].calls = calls
<1>1. job'[s] = Running(calls) /\ \A u \in Slots \ {s} : job'[u] = job[u]
  BY DEF Shapes
<1>2. \A u \in Slots : ~job[u].busy
  BY DEF Quiet, Free
<1> QED BY <1>1, <1>2 DEF Running, Quiet, Free

(* The steps that keep the contract.                                       *)
LEMMA KeepingSteps ==
  ASSUME IInv, [Next]_vars, past' # "broken"
  PROVE  /\ past # "broken"
         /\ \/ \E s \in Slots :
                 \/ Observe(s) /\ Quiet
                 \/ Confirmed(s) \/ Rejected(s) \/ Reread(s)
            \/ \E d \in Sides : StopOut(d)
            \/ Elapse \/ UNCHANGED vars
<1>1. ASSUME NEW s \in Slots, Observe(s)
      PROVE  past # "broken" /\ Quiet
  BY <1>1 DEF Observe, Witness
<1>2. ASSUME NEW s \in Slots, Sent(s) \/ AnswerLost(s) \/ RereadFails(s)
      PROVE  FALSE
  BY <1>2 DEF Sent, AnswerLost, RereadFails
<1>3. CASE LandPending \/ DropPending
  <2>1. past # "broken" /\ pending # <<>>
    BY <1>3 DEF LandPending, DropPending
  <2> QED BY <2>1, QuietOrOne DEF Kept
<1>4. ASSUME NEW s \in Slots, Confirmed(s) \/ Rejected(s) \/ Reread(s)
      PROVE  past # "broken"
  BY <1>4 DEF Confirmed, Rejected, Reread
<1>5. ASSUME NEW d \in Sides, StopOut(d)
      PROVE  past # "broken"
  BY <1>5 DEF StopOut, Clear
<1>6. CASE Elapse \/ UNCHANGED vars
  BY <1>6 DEF Elapse, vars
<1> QED BY <1>1, <1>2, <1>3, <1>4, <1>5, <1>6 DEF Next

(* A plan that ends leaves every slot free, one that goes on is the only   *)
(* one.                                                                    *)
LEMMA AfterPlan ==
  ASSUME IInv, past # "broken", NEW s \in Slots, job[s].busy
  PROVE  /\ Abandon(s) => Quiet' /\ \A u \in Slots : ~job'[u].busy
         /\ NextCall(s) =>
              /\ ~Quiet'
              /\ \A u \in Slots :
                   job'[u].busy => u = s /\ job'[u].calls = Tail(job[s].calls)
<1>1. \A u \in Slots : job[u].busy => u = s
  BY QuietOrOne
<1>2. job \in [Slots -> JobState]
  BY DEF IInv, Shapes
<1>3. CASE Abandon(s)
  <2>1. job'[s] = Idle /\ \A u \in Slots \ {s} : job'[u] = job[u]
    BY <1>2, <1>3 DEF Abandon
  <2>2. ~NextCall(s)
    <3>1. NextCall(s) => job'[s] = Running(Tail(job[s].calls))
      BY <1>2 DEF NextCall
    <3> QED BY <3>1, <2>1 DEF Idle, Running
  <2> QED BY <2>1, <2>2, <1>1 DEF Idle, Quiet, Free
<1>4. CASE NextCall(s) /\ ~Abandon(s)
  <2>1. /\ job'[s] = Running(Tail(job[s].calls))
        /\ \A u \in Slots \ {s} : job'[u] = job[u]
    BY <1>2, <1>4 DEF NextCall
  <2>2. job'[s].busy /\ job'[s].calls = Tail(job[s].calls)
    BY <2>1 DEF Running
  <2>3. ~Quiet'
    BY <2>2 DEF Quiet, Free
  <2>4. \A u \in Slots : job'[u].busy => u = s
    BY <2>1, <1>1
  <2> QED BY <2>2, <2>3, <2>4, <1>4
<1> QED BY <1>3, <1>4

(* A machine in sync goes on knowing what the mirror shows.                *)
LEMMA StepSynced ==
  ASSUME IInv, TypeOK, SyncedKnows, [Next]_vars
  PROVE  SyncedKnows'
<1> SUFFICES ASSUME past' # "broken", fsm'.mode = "Synced"
             PROVE  /\ fsm'.pos = settled'.size
                    /\ \A u \in Slots : job'[u].busy =>
                         \E d \in Sides : job'[u].calls = <<CallOf("replaceStop", d, 0)>>
  BY DEF SyncedKnows
<1>a. past # "broken" /\ Shapes
  BY KeepingSteps DEF IInv
<1>b. fsm.mode = "Synced" =>
        /\ fsm.pos = settled.size
        /\ \A s \in Slots : job[s].busy =>
             \E d \in Sides : job[s].calls = <<CallOf("replaceStop", d, 0)>>
  BY <1>a DEF SyncedKnows
<1>1. ASSUME NEW s \in Slots, Observe(s), Quiet
      PROVE  /\ fsm'.pos = settled'.size
             /\ \A u \in Slots : job'[u].busy =>
                  \E d \in Sides : job'[u].calls = <<CallOf("replaceStop", d, 0)>>
  <2>1. settled' = settled /\ \A u \in Slots : ~job[u].busy
    BY <1>1 DEF Observe, Quiet, Free
  <2>2. CASE StaysPut
    BY <2>1, <2>2, <1>b DEF StaysPut
  <2>3. CASE GoesSynced(s)
    <3>1. fsm'.pos = settled'.size
      BY <2>1, <2>3 DEF GoesSynced, Synced
    <3>2. ASSUME NEW d \in Sides,
                 job' = [job EXCEPT ![s] = Running(<<CallOf("replaceStop", d, 0)>>)]
          PROVE  \A u \in Slots : job'[u].busy =>
                   job'[u].calls = <<CallOf("replaceStop", d, 0)>>
      BY <3>2, <1>1, <1>a, OnlyPlan
    <3> QED BY <3>1, <3>2, <2>1, <2>3 DEF GoesSynced
  <2>4. ~GoesSettling(s)
    BY DEF GoesSettling, Settling
  <2> QED BY <2>2, <2>3, <2>4, <1>1, <1>a, ObserveOutcome
<1>2. ASSUME NEW s \in Slots, Confirmed(s) \/ Reread(s)
      PROVE  FALSE
  <2>1. fsm' = fsm /\ job[s].busy
    BY <1>2 DEF Confirmed, Reread, Calling
  <2>2. PICK d \in Sides : job[s].calls = <<CallOf("replaceStop", d, 0)>>
    BY <2>1, <1>b
  <2>3. job[s].calls # <<>> /\ Current(s).kind = "replaceStop"
    BY <2>2, OneCall DEF Current, CallOf
  <2> QED BY <2>3, <1>2 DEF Confirmed, Reread, Possible
<1>3. ASSUME NEW s \in Slots, Rejected(s)
      PROVE  /\ fsm'.pos = settled'.size
             /\ \A u \in Slots : ~job'[u].busy
  <2>1. UNCHANGED <<fsm, settled>> /\ job[s].busy /\ Abandon(s)
    BY <1>3 DEF Rejected, Calling
  <2> QED BY <2>1, <1>a, <1>b, AfterPlan
<1>4. CASE (\E d \in Sides : StopOut(d)) \/ UNCHANGED vars
  <2>1. UNCHANGED <<fsm, settled, job>>
    BY <1>4 DEF StopOut, vars, app
  <2> QED BY <2>1, <1>b
<1>5. CASE Elapse
  <2>1. UNCHANGED <<settled, job>> /\ fsm' = fsm
    BY <1>5, ElapseKeeps DEF TypeOK
  <2> QED BY <2>1, <1>b
<1> QED BY <1>1, <1>2, <1>3, <1>4, <1>5, KeepingSteps

(* A plan under way goes on toward what the machine expects, whatever is   *)
(* rejected, confirmed or stopped out on the way.                          *)
LEMMA StepToward ==
  ASSUME IInv, TypeOK, PlanToward, [Next]_vars
  PROVE  PlanToward'
<1> SUFFICES ASSUME past' # "broken", fsm'.mode = "Settling",
                    NEW u \in Slots, job'[u].busy
             PROVE  Toward(job'[u].calls, venue', fsm'.expected)
  BY DEF PlanToward, Toward
<1>a. past # "broken" /\ Shapes
  BY KeepingSteps DEF IInv
<1>b. fsm.mode = "Settling" =>
        \A s \in Slots : job[s].busy => Toward(job[s].calls, venue, fsm.expected)
  BY <1>a DEF PlanToward
<1>c. fsm.mode = "Settling" => fsm.expected \in Int
  BY DEF TypeOK, FsmState
<1>d. venue \in [Sides -> Nat] /\ settled.size \in Int
  BY <1>a DEF Shapes
<1>1. ASSUME NEW s \in Slots, Observe(s), Quiet
      PROVE  Toward(job'[u].calls, venue', fsm'.expected)
  <2>1. UNCHANGED <<settled, venue>> /\ Mirror /\ \A t \in Slots : ~job[t].busy
    BY <1>1, <1>a, QuietOrOne DEF Observe
  <2>2. ~StaysPut /\ ~GoesSynced(s)
    BY <2>1 DEF StaysPut, GoesSynced, Synced
  <2>3. GoesSettling(s)
    BY <2>2, <1>1, <1>a, ObserveOutcome
  <2>4. PICK target \in Int :
          /\ Mag(target) <= Cap
          /\ Decide(target, settled.size, settled.stopOk).kind
               \notin {"NoOp", "ReplaceStop"}
          /\ fsm' = Settling(0, ExpectedAfter(Decide(target, settled.size,
                               settled.stopOk), settled.size), settled.size)
          /\ Apply(s, Decide(target, settled.size, settled.stopOk))
    BY <2>3 DEF GoesSettling
  <2> DEFINE order == Decide(target, settled.size, settled.stopOk)
             plan == PlanFlashOrder(order, settled.size)
  <2>5. Toward(plan, venue, ExpectedAfter(order, settled.size))
    BY <2>1, <2>4, <1>d, PlanGoesToward DEF Mirror
  <2>6. job'[u].calls = plan
    BY <2>4, <1>1, <1>a, OnlyPlan DEF Apply
  <2>7. fsm'.expected = ExpectedAfter(order, settled.size)
    BY <2>4 DEF Settling
  <2> QED BY <2>1, <2>5, <2>6, <2>7
<1>2. ASSUME NEW s \in Slots, Confirmed(s)
      PROVE  Toward(job'[u].calls, venue', fsm'.expected)
  <2>1. /\ fsm' = fsm /\ job[s].busy /\ job[s].calls # <<>>
        /\ venue' = Landed(Current(s)) /\ NextCall(s)
    BY <1>2 DEF Confirmed, Calling
  <2>2. Toward(Tail(job[s].calls), venue', fsm.expected)
    BY <2>1, <1>a, <1>b, <1>c, TowardAfterCall
  <2> QED BY <2>1, <2>2, <1>a, AfterPlan
<1>3. ASSUME NEW s \in Slots, Rejected(s) \/ Reread(s)
      PROVE  FALSE
  <2>1. job[s].busy /\ Abandon(s)
    BY <1>3 DEF Rejected, Reread, Calling
  <2> QED BY <2>1, <1>a, AfterPlan
<1>4. ASSUME NEW d \in Sides, StopOut(d)
      PROVE  Toward(job'[u].calls, venue', fsm'.expected)
  <2>1. UNCHANGED <<fsm, job>> /\ venue' = [venue EXCEPT ![d] = 0]
    BY <1>4 DEF StopOut, app
  <2>2. venue' \in [Sides -> Nat] /\ \A e \in Sides : venue'[e] <= venue[e]
    BY <2>1, <1>d
  <2> QED BY <2>1, <2>2, <1>b, <1>c, <1>d, TowardAfterClose
<1>5. CASE Elapse \/ UNCHANGED vars
  <2>1. /\ UNCHANGED <<job, venue>>
        /\ fsm.mode = "Settling" /\ fsm'.expected = fsm.expected
    BY <1>5, ElapseKeeps DEF TypeOK, vars, app
  <2> QED BY <2>1, <1>b
<1> QED BY <1>1, <1>2, <1>3, <1>4, <1>5, KeepingSteps

(* A position that was known and is expected lasts until a stop-out ends   *)
(* it: rejected plans leave it, plans carried out leave one.               *)
LEMMA StepLasts ==
  ASSUME MaxDelta > 0, SInv, TypeOK, PositionLasts, [Next]_vars
  PROVE  PositionLasts'
<1> SUFFICES ASSUME Clear', fsm'.mode = "Settling",
                    fsm'.prior # 0, fsm'.expected # 0
             PROVE  /\ Quiet' => settled'.size # 0
                    /\ \A u \in Slots : job'[u].busy => Leaves(job'[u].calls, venue')
  BY DEF PositionLasts, Leaves
<1>a. past # "broken" /\ past' # "broken" /\ IInv /\ Shapes
  BY KeepingSteps DEF SInv, IInv, Clear
<1>b. Clear /\ fsm.mode = "Settling" /\ fsm.prior # 0 /\ fsm.expected # 0 =>
        /\ Quiet => settled.size # 0
        /\ \A s \in Slots : job[s].busy => Leaves(job[s].calls, venue)
  BY DEF PositionLasts
<1>e. UNCHANGED past => Clear
  BY DEF Clear
<1>c. fsm.mode = "Settling" /\ ~Quiet => fsm.prior = settled.size
  BY <1>a DEF SInv, RunningKnows, Knows, Frozen
<1>d. venue \in [Sides -> Nat] /\ settled.size \in Int
  BY <1>a DEF Shapes
<1>1. ASSUME NEW s \in Slots, Observe(s), Quiet
      PROVE  /\ Quiet' => settled'.size # 0
             /\ \A u \in Slots : job'[u].busy => Leaves(job'[u].calls, venue')
  <2>1. UNCHANGED <<settled, venue>> /\ Mirror /\ \A t \in Slots : ~job[t].busy
    BY <1>1, <1>a, QuietOrOne DEF Observe
  <2>2. CASE StaysPut
    BY <2>1, <2>2, <1>1, <1>b DEF StaysPut
  <2>3. CASE GoesSettling(s)
    <3>1. PICK target \in Int :
            /\ Mag(target) <= Cap
            /\ Decide(target, settled.size, settled.stopOk).kind
                 \notin {"NoOp", "ReplaceStop"}
            /\ fsm' = Settling(0, ExpectedAfter(Decide(target, settled.size,
                                 settled.stopOk), settled.size), settled.size)
            /\ Apply(s, Decide(target, settled.size, settled.stopOk))
      BY <2>3 DEF GoesSettling
    <3> DEFINE order == Decide(target, settled.size, settled.stopOk)
               plan == PlanFlashOrder(order, settled.size)
    <3>2. settled.size # 0 /\ ExpectedAfter(order, settled.size) # 0
      BY <3>1 DEF Settling
    <3>3. Leaves(plan, venue)
      <4>1. order.kind \in Kinds /\ order.kind # "FullClose"
        BY <3>1, <3>2, <1>d, DecideBound DEF ExpectedAfter
      <4> QED BY <3>1, <4>1, <2>1, <1>d, PlanLeaves DEF Mirror, Kinds
    <3>4. \A u \in Slots : job'[u].busy => job'[u].calls = plan
      <4>1. job' = [job EXCEPT ![s] = Running(plan)]
        BY <3>1 DEF Apply
      <4> HIDE DEF order, plan
      <4> QED BY <4>1, <1>1, <1>a, OnlyPlan
    <3> QED BY <3>2, <3>3, <3>4, <2>1
  <2>4. ~GoesSynced(s)
    BY DEF GoesSynced, Synced
  <2> QED BY <2>2, <2>3, <2>4, <1>1, <1>a, ObserveOutcome
<1>2. ASSUME NEW s \in Slots, Confirmed(s)
      PROVE  /\ ~Quiet'
             /\ \A u \in Slots : job'[u].busy => Leaves(job'[u].calls, venue')
  <2>1. /\ UNCHANGED <<fsm, past>> /\ job[s].busy /\ job[s].calls # <<>>
        /\ Possible(Current(s)) /\ venue' = Landed(Current(s)) /\ NextCall(s)
    BY <1>2 DEF Confirmed, Calling
  <2>2. Leaves(Tail(job[s].calls), venue')
    BY <2>1, <1>a, <1>b, <1>e, LeavesAfterCall
  <2> QED BY <2>1, <2>2, <1>a, AfterPlan
<1>3. ASSUME NEW s \in Slots, Rejected(s) \/ Reread(s)
      PROVE  settled'.size # 0 /\ \A u \in Slots : ~job'[u].busy
  <2>1. UNCHANGED <<fsm, past>> /\ job[s].busy /\ Abandon(s)
    BY <1>3 DEF Rejected, Reread, Calling
  <2>2. \A u \in Slots : ~job'[u].busy
    BY <2>1, <1>a, AfterPlan
  <2>3. ~Quiet
    BY <2>1 DEF Quiet, Free
  <2>4. CASE Rejected(s)
    BY <2>1, <2>3, <2>4, <1>c, <2>2 DEF Rejected
  <2>5. CASE Reread(s)
    <3>1. job[s].calls = <<>> /\ Leaves(<<>>, venue)
      BY <2>1, <2>5, <1>b, <1>e DEF Reread
    <3>2. settled'.size # 0
      BY <3>1, <2>5, <1>a, QuietOrOne, RereadShows DEF Kept
    <3> QED BY <3>2, <2>2
  <2> QED BY <2>4, <2>5, <1>3
<1>4. ASSUME NEW d \in Sides, StopOut(d)
      PROVE  /\ Quiet' => settled'.size # 0
             /\ \A u \in Slots : ~job'[u].busy
  <2>1. /\ UNCHANGED <<fsm, settled, job>>
        /\ Clear /\ settled.size = 0
    BY <1>4 DEF StopOut, app, Clear
  <2>2. ~Quiet => fsm.prior = 0
    BY <2>1, <1>c
  <2>3. Quiet => settled.size # 0
    BY <2>1, <1>b
  <2> QED BY <2>1, <2>2, <2>3
<1>5. CASE Elapse \/ UNCHANGED vars
  <2>1. /\ UNCHANGED <<settled, job, venue, past>>
        /\ fsm.mode = "Settling"
        /\ fsm'.expected = fsm.expected /\ fsm'.prior = fsm.prior
    BY <1>5, ElapseKeeps DEF TypeOK, vars, app
  <2>2. Quiet' <=> Quiet
    BY <2>1 DEF Quiet, Free
  <2> QED BY <2>1, <2>2, <1>b, <1>e
<1> QED BY <1>1, <1>2, <1>3, <1>4, <1>5, <1>a, KeepingSteps

-------------------------------------------------------------------------------
FillInv == SInv /\ TypeOK /\ SyncedKnows /\ PlanToward
CauseInv == FillInv /\ PositionLasts

(* Both hold at the start, where the machine is in sync and nothing runs.  *)
LEMMA InitCause == Init => CauseInv
<1> SUFFICES ASSUME Init
             PROVE  CauseInv
  OBVIOUS
<1>1. fsm.mode = "Synced" /\ fsm.pos = settled.size
  BY DEF Init, Synced
<1>2. \A s \in Slots : ~job[s].busy
  BY DEF Init, Idle
<1>3. SyncedKnows /\ PlanToward /\ PositionLasts
  BY <1>1, <1>2 DEF SyncedKnows, PlanToward, PositionLasts
<1> QED BY <1>3, InitStop, InitTyped DEF CauseInv, FillInv

(* And every step keeps the first, the second with it.                     *)
LEMMA StepFill ==
  ASSUME FillInv, [Next]_vars
  PROVE  FillInv'
<1>1. SInv'
  BY StepStop, StepShapes, StepKept DEF FillInv, SInv, IInv
<1>2. TypeOK' /\ SyncedKnows' /\ PlanToward'
  BY StepTyped, StepSynced, StepToward DEF FillInv, SInv
<1> QED BY <1>1, <1>2 DEF FillInv

(* The invariant behind what the machine may expect of a fill.             *)
THEOREM FillInductive == Spec => []FillInv
<1>1. Init => FillInv
  BY InitCause DEF CauseInv
<1>2. FillInv /\ [Next]_vars => FillInv'
  BY StepFill
<1> QED BY <1>1, <1>2, PTL DEF Spec

(* Under the contract a fill never takes the mirror past what the machine  *)
(* waits for, whatever was rejected, half done or stopped out before.      *)
THEOREM FillNeverOvershoots == Spec => FillWithinExpectation
<1>1. FillInv /\ [Next]_vars =>
        [(settled' # settled /\ past # "broken" /\ fsm.mode = "Settling") =>
           Between0(settled'.size, fsm.expected)]_vars
  <2> SUFFICES ASSUME FillInv, Next, settled' # settled, past # "broken",
                      fsm.mode = "Settling"
               PROVE  Between0(settled'.size, fsm.expected)
    OBVIOUS
  <2>1. PICK s \in Slots : Reread(s)
    BY DEF Next, Observe, Confirmed, Sent, Rejected, AnswerLost, RereadFails,
           LandPending, DropPending, StopOut, Elapse, app
  <2>2. IInv /\ Shapes /\ OneSided
    BY QuietOrOne DEF FillInv, SInv, IInv, Kept
  <2>3. fsm.expected \in Int
    BY DEF FillInv, TypeOK, FsmState
  <2>4. Toward(<<>>, venue, fsm.expected)
    BY <2>1 DEF FillInv, PlanToward, Reread
  <2> QED BY <2>1, <2>2, <2>3, <2>4, RereadShows
<1> QED BY <1>1, FillInductive, PTL DEF Spec, FillWithinExpectation

(* If some order is allowed, then with every order confirmed and no        *)
(* stop-out to answer the machine takes a position for stopped out in one *)
(* case only: after a close of its own, when the thumb pulls again.        *)
THEOREM FreezeAlwaysHasCause ==
  ASSUME MaxDelta > 0
  PROVE  Spec => FreezeHasCause
<1>1. Init => CauseInv
  BY InitCause
<1>2. CauseInv /\ [Next]_vars => CauseInv'
  BY StepFill, StepLasts DEF CauseInv, FillInv
<1>3. CauseInv /\ [Next]_vars =>
        [(fsm' = Frozen /\ fsm # Frozen /\ Clear') =>
           fsm.mode = "Settling" /\ fsm.prior # 0 /\ fsm.expected = 0]_vars
  <2> SUFFICES ASSUME CauseInv, Next, fsm' = Frozen, fsm # Frozen, Clear'
               PROVE  fsm.mode = "Settling" /\ fsm.prior # 0 /\ fsm.expected = 0
    OBVIOUS
  <2>a. IInv /\ TypeOK
    BY DEF CauseInv, FillInv, SInv
  <2>1. ~Elapse
    <3>1. Elapse => fsm'.mode = fsm.mode
      BY <2>a, ElapseKeeps DEF TypeOK
    <3>2. fsm.mode = "Frozen" => fsm = Frozen
      BY <2>a DEF TypeOK, FsmState, Frozen
    <3> QED BY <3>1, <3>2 DEF Frozen
  <2>2. PICK s \in Slots : Observe(s) /\ Quiet
    <3>1. \A s \in Slots : Confirmed(s) \/ Rejected(s) \/ Reread(s) => fsm' = fsm
      BY DEF Confirmed, Rejected, Reread
    <3>2. \A d \in Sides : StopOut(d) => fsm' = fsm
      BY DEF StopOut, app
    <3>3. UNCHANGED vars => fsm' = fsm
      BY DEF vars, app
    <3>4. past' # "broken"
      BY DEF Clear
    <3> QED BY <2>1, <3>1, <3>2, <3>3, <3>4, <2>a, KeepingSteps
  <2>3. PICK virtual \in Virtuals :
               /\ StepFreeze(TargetOf(virtual)) /\ TargetOf(virtual) # 0
               /\ Witness(TargetOf(virtual), TRUE)
    <3>1. PICK o \in Observations, virtual \in Virtuals :
                 /\ ObserveDegraded(o) \/ ObserveHealthy(s, o, virtual)
                 /\ Witness(TargetOf(virtual), Healthy(o))
      BY <2>2 DEF Observe
    <3>2. ObserveHealthy(s, o, virtual) /\ Healthy(o) = TRUE
      BY <3>1 DEF ObserveDegraded, ObserveHealthy, Degraded, Frozen, Healthy
    <3>3. StepFreeze(TargetOf(virtual))
      BY <3>2 DEF ObserveHealthy, StepFrozen, StepInSync, StepWait, StepDebounce,
                  StepAct, Synced, Drifting, Settling, Frozen
    <3>4. Witness(TargetOf(virtual), TRUE)
      BY <3>1, <3>2
    <3> QED BY <3>3, <3>4 DEF StepFreeze, Vanished
  <2>4. settled.size = 0 /\ EstablishedIn(fsm) /\ Clear
    BY <2>3 DEF StepFreeze, Vanished, Witness, Clear
  <2>5. fsm.mode # "Synced" \/ fsm.pos = 0
    BY <2>4 DEF CauseInv, FillInv, SyncedKnows, Clear
  <2>6. fsm.mode = "Settling" /\ fsm.prior # 0
    BY <2>4, <2>5 DEF EstablishedIn
  <2>7. fsm.expected = 0
    BY <2>2, <2>4, <2>6 DEF CauseInv, PositionLasts
  <2> QED BY <2>6, <2>7
<1> QED BY <1>1, <1>2, <1>3, PTL DEF Spec, FreezeHasCause
===============================================================================
