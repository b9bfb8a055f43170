---------------------------- MODULE RideExecutorProofs ------------------------
(***************************************************************************)
(* What the reconciler and its executor guarantee for every cap, band,     *)
(* size of order and timeout, for any observations and any number of       *)
(* slots.  The facts about one decision come first; the invariant of the   *)
(* running executor then says, for each plan that may be under way, what   *)
(* of it the venue has not seen yet and how far it can still take the      *)
(* position.                                                               *)
(***************************************************************************)
EXTENDS RideExecutor, TLAPS

(* A quotient of naturals is a natural.                                    *)
LEMMA QuotientType ==
  ASSUME NEW a \in Nat, NEW b \in Nat \ {0}
  PROVE  a \div b \in Nat
OBVIOUS

(* A share of at most one half is at most one half (the 97 % rule).        *)
LEMMA HalfAtMost ==
  ASSUME NEW p \in Nat, NEW r \in Nat, NEW b \in Nat \ {0}, 2 * r <= b
  PROVE  (p * r) \div b \in Nat /\ 2 * ((p * r) \div b) <= p
<1> DEFINE q == (p * r) \div b
<1>1. p * r \in Nat
  OBVIOUS
<1>2. q \in Nat /\ q * b <= p * r
  BY <1>1
<1>3. p * (2 * r) <= p * b
  OBVIOUS
<1> HIDE DEF q
<1>4. (2 * q) * b <= p * b
  <2>1. (2 * q) * b = 2 * (q * b) /\ p * (2 * r) = 2 * (p * r)
    BY <1>2, <1>1
  <2>2. q * b \in Nat /\ p * r \in Nat /\ p * b \in Nat
    BY <1>2, <1>1
  <2> QED BY <2>1, <2>2, <1>2, <1>3
<1>5. 2 * q <= p
  BY <1>2, <1>4
<1> QED BY <1>2, <1>5 DEF q

(* The band and the largest order are naturals, the band is not empty.     *)
LEMMA WidthTypes == Band \in Nat /\ BandFloor <= Band /\ MaxDelta \in Nat
<1>1. Cap * BandBps \in Nat /\ Cap * MaxDeltaBps \in Nat
  BY ReconcilerAssumption
<1>2. (Cap * BandBps) \div Bps \in Nat /\ (Cap * MaxDeltaBps) \div Bps \in Nat
  BY <1>1, QuotientType, ReconcilerAssumption
<1> QED BY <1>2, ReconcilerAssumption DEF Band, MaxDelta, Larger

(* A target lies within the local cap (_clampTarget).                      *)
LEMMA TargetWithinCap ==
  ASSUME NEW v \in Int
  PROVE  TargetOf(v) \in Int /\ Mag(TargetOf(v)) <= Cap
BY ReconcilerAssumption DEF TargetOf, ClampTarget, Mag

(* What an order is, and how far it may take a position that lies within   *)
(* the cap (_decide, _capDelta).                                           *)
LEMMA DecideBound ==
  ASSUME NEW target \in Int, Mag(target) <= Cap, NEW pos \in Int, NEW stopOk,
         NEW order, order = Decide(target, pos, stopOk)
  PROVE  /\ order.kind \in Kinds /\ order.usd \in Nat
         /\ order.kind # "NoOp" => order.side \in Sides
         /\ order.kind = "OpenIncrease" =>
              /\ pos = 0 \/ order.side = SideOf(pos)
              /\ Mag(pos) + order.usd <= Cap
         /\ order.kind \in {"FullClose", "ReducePartial", "ReplaceStop"} =>
              pos # 0 /\ order.side = SideOf(pos)
         /\ order.kind = "Flip" =>
              pos # 0 /\ order.side = -SideOf(pos) /\ order.usd <= Cap
<1> USE WidthTypes, ReconcilerAssumption
<1> USE DEF Kinds, OrderOf, Sides, SideOf, Mag, CapDelta
<1>1. CASE target = 0
  BY <1>1 DEF Decide, NoOp
<1>2. CASE target # 0 /\ pos = 0
  BY <1>2 DEF Decide
<1>3. CASE target # 0 /\ pos # 0 /\ SideOf(target) # SideOf(pos)
  BY <1>3 DEF Decide
<1>4. CASE target # 0 /\ pos # 0 /\ SideOf(target) = SideOf(pos)
  <2>1. order = SameSide(target, pos, stopOk)
    BY <1>4 DEF Decide
  <2> DEFINE diff == Mag(target) - Mag(pos)
  <2>2. CASE Mag(diff) <= Band
    BY <2>1, <2>2, <1>4 DEF SameSide, NoOp
  <2>3. CASE ~(Mag(diff) <= Band) /\ diff > 0
    BY <2>1, <2>3, <1>4 DEF SameSide
  <2>4. CASE ~(Mag(diff) <= Band) /\ ~(diff > 0)
    <3>1. order \in {OrderOf("FullClose", SideOf(pos), 0),
                     OrderOf("ReducePartial", SideOf(pos), CapDelta(-diff))}
      BY <2>1, <2>4 DEF SameSide
    <3> QED BY <3>1, <2>4, <1>4
  <2> QED BY <2>2, <2>3, <2>4
<1> QED BY <1>1, <1>2, <1>3, <1>4

(* An order that fills brings the position strictly closer to the target   *)
(* and past it only to close dust, provided that some order is allowed and *)
(* the dust rule leaves less than one half.                                *)
LEMMA DecideApproaches ==
  ASSUME MaxDelta > 0, 2 * RemainingBps <= Bps,
         NEW target \in Int, NEW pos \in Int, NEW stopOk,
         NEW order, order = Decide(target, pos, stopOk),
         NEW after, after = ExpectedAfter(order, pos),
         order.kind \notin {"NoOp", "ReplaceStop"}
  PROVE  /\ Mag(after - target) < Mag(pos - target)
         /\ order.kind # "FullClose" => Between0(after - pos, target - pos)
<1> USE WidthTypes, ReconcilerAssumption
<1> USE DEF Kinds, OrderOf, SideOf, Mag, CapDelta, ExpectedAfter, Between0
<1>1. CASE target = 0
  BY <1>1 DEF Decide, NoOp
<1>2. CASE target # 0 /\ pos = 0
  BY <1>2 DEF Decide
<1>3. CASE target # 0 /\ pos # 0 /\ SideOf(target) # SideOf(pos)
  BY <1>3 DEF Decide
<1>4. CASE target # 0 /\ pos # 0 /\ SideOf(target) = SideOf(pos)
  <2>1. order = SameSide(target, pos, stopOk)
    BY <1>4 DEF Decide
  <2> DEFINE diff == Mag(target) - Mag(pos)
             dust == (Mag(pos) * RemainingBps) \div Bps
  <2>2. CASE Mag(diff) <= Band
    BY <2>1, <2>2, <1>4 DEF SameSide, NoOp
  <2>3. CASE ~(Mag(diff) <= Band) /\ diff > 0
    BY <2>1, <2>3, <1>4 DEF SameSide
  <2>4. CASE /\ ~(Mag(diff) <= Band) /\ ~(diff > 0)
             /\ Mag(target) < Larger(BandFloor, dust)
    <3>1. order = OrderOf("FullClose", SideOf(pos), 0)
      BY <2>1, <2>4 DEF SameSide
    <3>2. dust \in Nat /\ 2 * dust <= Mag(pos)
      BY HalfAtMost
    <3> HIDE DEF dust
    <3>3. 2 * Mag(target) < Mag(pos)
      BY <2>4, <3>2 DEF Larger
    <3> QED BY <3>1, <3>3, <1>4
  <2>5. CASE /\ ~(Mag(diff) <= Band) /\ ~(diff > 0)
             /\ ~(Mag(target) < Larger(BandFloor, dust))
    <3>1. order = OrderOf("ReducePartial", SideOf(pos), CapDelta(-diff))
      BY <2>1, <2>5 DEF SameSide
    <3> HIDE DEF dust
    <3> QED BY <3>1, <2>5, <1>4
  <2> QED BY <2>2, <2>3, <2>4, <2>5
<1> QED BY <1>1, <1>2, <1>3, <1>4

-------------------------------------------------------------------------------
JobState == {Idle} \cup {Running(calls) : calls \in Seq(Call)}

(* Types, as far as the arguments below need them.                         *)
Shapes ==
  /\ settled.size \in Int
  /\ venue \in [Sides -> Nat]
  /\ job \in [Slots -> JobState]
  /\ pending \in Seq(Call)

(* What may be left of a plan, and that it keeps the venue within the cap  *)
(* and one-sided: an increase fits, a flip has nothing to close but what   *)
(* it closes.                                                              *)
Fits(calls, v) ==
  \/ calls = <<>>
  \/ \E d \in Sides, usd \in Nat : calls = <<CallOf("close", d, usd)>>
  \/ \E d \in Sides : calls = <<CallOf("replaceStop", d, 0)>>
  \/ \E d \in Sides, usd \in Nat :
       calls = <<CallOf("open", d, usd)>> /\ v[-d] = 0 /\ v[d] + usd <= Cap
  \/ \E d \in Sides, usd \in Nat :
       /\ calls = <<CallOf("close", d, 0), CallOf("open", -d, usd)>>
       /\ v[-d] = 0 /\ usd <= Cap

Mirror == \A d \in Sides : venue[d] > 0 => settled.size = d * venue[d]

(* Under the contract one plan is under way at most, nothing is in the     *)
(* air, and the mirror is behind only when a plan has been carried out     *)
(* and not read back yet.                                                  *)
Kept ==
  /\ pending = <<>>
  /\ \A s, u \in Slots : job[s].busy /\ job[u].busy => s = u
  /\ \A s \in Slots : job[s].busy => Fits(job[s].calls, venue)
  /\ OneSided /\ \A d \in Sides : venue[d] <= Cap
  /\ Mag(settled.size) <= Cap
  /\ (\A s \in Slots : job[s].busy => job[s].calls # <<>>) => Mirror

KeptOrBroken == past # "broken" => Kept

IInv == Shapes /\ KeptOrBroken

-------------------------------------------------------------------------------
(* Sequences of one and of two calls.                                      *)
LEMMA OneCall ==
  ASSUME NEW c
  PROVE  <<c>> # <<>> /\ Head(<<c>>) = c /\ Tail(<<c>>) = <<>>
OBVIOUS

(* Two calls leave what the second leaves after the first.                 *)
LEMMA TwoCalls ==
  ASSUME NEW c, NEW d
  PROVE  /\ <<c, d>> # <<>> /\ Head(<<c, d>>) = c /\ Tail(<<c, d>>) = <<d>>
OBVIOUS

(* What a slot may be running.                                             *)
LEMMA JobTypes ==
  ASSUME Shapes, NEW s \in Slots
  PROVE  /\ job[s].calls \in Seq(Call)
         /\ job[s].busy => job[s] = Running(job[s].calls)
<1>1. <<>> \in Seq(Call)
  OBVIOUS
<1>2. CASE job[s] = Idle
  BY <1>1, <1>2 DEF Idle
<1>3. ASSUME NEW calls \in Seq(Call), job[s] = Running(calls)
      PROVE  job[s].calls = calls /\ job[s] = Running(job[s].calls)
  BY <1>3 DEF Running
<1> QED BY <1>2, <1>3 DEF Shapes, JobState

(* The venue after a call that was possible (both sides are distinct).     *)
LEMMA LandedType ==
  ASSUME Shapes, NEW c \in Call
  PROVE  /\ Landed(c) \in [Sides -> Nat]
         /\ \A d \in Sides \ {c.side} : Landed(c)[d] = venue[d]
         /\ c.kind = "open" => Landed(c)[c.side] = venue[c.side] + c.usd
         /\ c.kind # "open" => Landed(c)[c.side] <= venue[c.side]
         /\ c.kind # "open" /\ c.usd = 0 => Landed(c)[c.side] = 0
<1> DEFINE left == IF c.kind = "open" THEN venue[c.side] + c.usd
                   ELSE IF c.usd = 0 \/ c.usd >= venue[c.side] THEN 0
                   ELSE venue[c.side] - c.usd
<1>1. c.side \in Sides /\ c.usd \in Nat /\ venue \in [Sides -> Nat]
  BY DEF Shapes, Call
<1>2. Landed(c) = [venue EXCEPT ![c.side] = left]
  BY DEF Landed
<1>3. left \in Nat
  BY <1>1
<1>4. c.kind # "open" => left <= venue[c.side] /\ (c.usd = 0 => left = 0)
  BY <1>1
<1>5. c.kind = "open" => left = venue[c.side] + c.usd
  OBVIOUS
<1> HIDE DEF left
<1> QED BY <1>1, <1>2, <1>3, <1>4, <1>5

(* The plan of an order on a position the venue shows within the cap.      *)
LEMMA PlanTyped ==
  ASSUME NEW pos \in Int, NEW order,
         order.kind \in Kinds \ {"NoOp"}, order.usd \in Nat, order.side \in Sides,
         order.kind = "Flip" => pos # 0
  PROVE  PlanFlashOrder(order, pos) \in Seq(Call)
<1>1. /\ \A k \in {"open", "close", "replaceStop"}, d \in Sides, u \in Nat :
           CallOf(k, d, u) \in Call
      /\ pos # 0 => SideOf(pos) \in Sides
  BY DEF CallOf, Call, Sides, SideOf
<1>2. \A c \in Call, d \in Call : <<c>> \in Seq(Call) /\ <<c, d>> \in Seq(Call)
  OBVIOUS
<1> QED BY <1>1, <1>2 DEF PlanFlashOrder, Kinds

(* The plan of an order fits the venue that the mirror shows.              *)
LEMMA PlanFits ==
  ASSUME NEW pos \in Int, Mag(pos) <= Cap, NEW target \in Int, Mag(target) <= Cap,
         NEW stopOk, NEW order,
         \/ order = Decide(target, pos, stopOk)
         \/ pos # 0 /\ order = OrderOf("FullClose", SideOf(pos), 0),
         order.kind # "NoOp",
         NEW v \in [Sides -> Nat], \A d \in Sides : v[d] > 0 => pos = d * v[d]
  PROVE  /\ PlanFlashOrder(order, pos) \in Seq(Call)
         /\ Fits(PlanFlashOrder(order, pos), v)
<1> DEFINE bound ==
      /\ order.kind \in Kinds \ {"NoOp"} /\ order.usd \in Nat /\ order.side \in Sides
      /\ order.kind = "OpenIncrease" =>
           /\ pos = 0 \/ order.side = SideOf(pos)
           /\ Mag(pos) + order.usd <= Cap
      /\ order.kind = "Flip" =>
           pos # 0 /\ order.side = -SideOf(pos) /\ order.usd <= Cap
<1>1. bound
  <2>1. CASE order = Decide(target, pos, stopOk)
    BY <2>1, DecideBound
  <2>2. CASE pos # 0 /\ order = OrderOf("FullClose", SideOf(pos), 0)
    BY <2>2 DEF OrderOf, Kinds, Sides, SideOf
  <2> QED BY <2>1, <2>2
<1>2. \A d \in Sides : v[d] > 0 => SideOf(pos) = d /\ Mag(pos) = v[d]
  BY DEF SideOf, Mag, Sides
<1>3. Fits(PlanFlashOrder(order, pos), v)
  <2>1. CASE order.kind = "OpenIncrease"
    <3>1. v[-order.side] = 0 /\ v[order.side] + order.usd <= Cap
      <4>1. -order.side \in Sides /\ order.side # -order.side
        BY <1>1 DEF Sides
      <4>2. pos # 0 => SideOf(pos) = order.side
        BY <1>1, <2>1
      <4>3. v[-order.side] = 0
        BY <4>1, <4>2, <1>2 DEF SideOf, Sides
      <4>4. v[order.side] = 0 \/ v[order.side] = Mag(pos)
        BY <1>1, <1>2
      <4>5. Mag(pos) \in Nat
        BY DEF Mag
      <4>6. Mag(pos) + order.usd <= Cap /\ order.usd \in Nat /\ Cap \in Nat
        BY <1>1, <2>1, ReconcilerAssumption
      <4>7. v[order.side] + order.usd <= Cap
        BY <4>4, <4>5, <4>6
      <4> QED BY <4>3, <4>7
    <3> QED BY <3>1, <1>1, <2>1 DEF PlanFlashOrder, Fits
  <2>2. CASE order.kind = "ReducePartial"
    BY <1>1, <2>2 DEF PlanFlashOrder, Fits
  <2>3. CASE order.kind = "FullClose"
    BY <1>1, <2>3 DEF PlanFlashOrder, Fits
  <2>4. CASE order.kind = "Flip"
    <3>1. SideOf(pos) \in Sides /\ order.side = -SideOf(pos)
      BY <1>1, <2>4 DEF SideOf, Sides
    <3>2. v[-SideOf(pos)] = 0
      BY <1>2, <3>1 DEF Sides
    <3> QED BY <3>1, <3>2, <1>1, <2>4 DEF PlanFlashOrder, Fits
  <2>5. CASE order.kind = "ReplaceStop"
    BY <1>1, <2>5 DEF PlanFlashOrder, Fits
  <2> QED BY <1>1, <2>1, <2>2, <2>3, <2>4, <2>5 DEF Kinds
<1> QED BY <1>1, <1>3, PlanTyped

(* An observation leaves the slots alone or starts the plan of an order in *)
(* one of them (step).                                                     *)
LEMMA ObserveStarts ==
  ASSUME IInv, ExecutorAssumption, NEW s \in Slots, Observe(s)
  PROVE  /\ UNCHANGED <<settled, venue, pending>>
         /\ past' # "broken" => Quiet /\ past # "broken"
         /\ \/ UNCHANGED job
            \/ \E target \in Int : \E order :
                 /\ Mag(target) <= Cap
                 /\ \/ order = Decide(target, settled.size, settled.stopOk)
                    \/ /\ settled.size # 0
                       /\ order = OrderOf("FullClose", SideOf(settled.size), 0)
                 /\ order.kind # "NoOp"
                 /\ Apply(s, order)
<1>1. UNCHANGED <<settled, venue, pending>>
  BY DEF Observe
<1>2. past' # "broken" => Quiet /\ past # "broken"
  BY DEF Observe, Witness
<1>3. CASE \E o \in Observations : ObserveDegraded(o)
  BY <1>1, <1>2, <1>3 DEF ObserveDegraded
<1>4. CASE \E o \in Observations, virtual \in Virtuals : ObserveHealthy(s, o, virtual)
  <2>1. PICK virtual \in Virtuals, o \in Observations : ObserveHealthy(s, o, virtual)
    BY <1>4
  <2> DEFINE target == TargetOf(virtual)
  <2>2. target \in Int /\ Mag(target) <= Cap
    BY TargetWithinCap
  <2>3. CASE StepFrozen(s, target)
    BY <2>3, <2>2, <1>1, <1>2 DEF StepFrozen, OrderOf
  <2>4. CASE StepFreeze(target) \/ StepWait(target) \/ StepDebounce(target)
    BY <2>4, <1>1, <1>2 DEF StepFreeze, StepWait, StepDebounce
  <2>5. CASE StepInSync(s, target)
    BY <2>5, <2>2, <1>1, <1>2 DEF StepInSync, Desired
  <2>6. CASE StepAct(s, target)
    BY <2>6, <2>2, <1>1, <1>2 DEF StepAct, Drifts, Desired
  <2> QED BY <2>1, <2>3, <2>4, <2>5, <2>6 DEF ObserveHealthy
<1> QED BY <1>3, <1>4 DEF Observe

-------------------------------------------------------------------------------
(* Types are kept, the contract or not.                                    *)
LEMMA StepShapes ==
  ASSUME IInv, [Next]_vars
  PROVE  Shapes'
<1> USE DEF vars, app
<1>a. Shapes
  BY DEF IInv
<1>b. /\ settled.size \in Int /\ venue \in [Sides -> Nat]
      /\ job \in [Slots -> JobState] /\ pending \in Seq(Call)
  BY <1>a DEF Shapes
<1>c. /\ Idle \in JobState
      /\ \A calls \in Seq(Call) : Running(calls) \in JobState
      /\ \A calls \in Seq(Call) : calls # <<>> => Tail(calls) \in Seq(Call) /\ Head(calls) \in Call
  BY DEF JobState
<1>d. \A s \in Slots : Calling(s) => Current(s) \in Call /\ Tail(job[s].calls) \in Seq(Call)
  BY <1>a, <1>c, JobTypes DEF Calling, Current
<1>1. ASSUME NEW s \in Slots, Observe(s)
      PROVE  Shapes'
  <2>1. CASE UNCHANGED job
    BY <2>1, <1>1, <1>b, ObserveStarts, ExecutorAssumption DEF Shapes
  <2>2. ASSUME NEW target \in Int, NEW order, Mag(target) <= Cap,
               \/ order = Decide(target, settled.size, settled.stopOk)
               \/ /\ settled.size # 0
                  /\ order = OrderOf("FullClose", SideOf(settled.size), 0),
               order.kind # "NoOp", Apply(s, order)
        PROVE  Shapes'
    <3>1. /\ order.kind \in Kinds \ {"NoOp"} /\ order.usd \in Nat /\ order.side \in Sides
          /\ order.kind = "Flip" => settled.size # 0
      <4>1. CASE order = Decide(target, settled.size, settled.stopOk)
        BY <4>1, <2>2, <1>b, DecideBound
      <4>2. CASE settled.size # 0 /\ order = OrderOf("FullClose", SideOf(settled.size), 0)
        BY <4>2, <1>b DEF OrderOf, Kinds, Sides, SideOf
      <4> QED BY <2>2, <4>1, <4>2
    <3>2. PlanFlashOrder(order, settled.size) \in Seq(Call)
      BY <3>1, <1>b, PlanTyped
    <3>3. job' \in [Slots -> JobState]
      BY <3>2, <2>2, <1>b, <1>c DEF Apply
    <3> QED BY <3>3, <1>1, <1>b, ObserveStarts, ExecutorAssumption DEF Shapes
  <2> QED BY <2>1, <2>2, <1>1, ObserveStarts, ExecutorAssumption
<1>2. ASSUME NEW s \in Slots, Confirmed(s)
      PROVE  Shapes'
  BY <1>2, <1>a, <1>b, <1>c, <1>d, LandedType DEF Confirmed, NextCall, Shapes
<1>3. ASSUME NEW s \in Slots, Sent(s)
      PROVE  Shapes'
  <2>1. pending' \in Seq(Call)
    BY <1>3, <1>b, <1>d DEF Sent
  <2>2. job' \in [Slots -> JobState]
    BY <1>3, <1>b, <1>c, <1>d DEF Sent, NextCall
  <2> QED BY <2>1, <2>2, <1>3, <1>b DEF Sent, Shapes
<1>4. ASSUME NEW s \in Slots, Rejected(s) \/ RereadFails(s)
      PROVE  Shapes'
  BY <1>4, <1>b, <1>c DEF Rejected, RereadFails, Abandon, Shapes
<1>5. ASSUME NEW s \in Slots, AnswerLost(s)
      PROVE  Shapes'
  BY <1>5, <1>a, <1>b, <1>c, <1>d, LandedType DEF AnswerLost, Abandon, Shapes
<1>6. ASSUME NEW s \in Slots, Reread(s)
      PROVE  Shapes'
  <2>1. \A size \in (IF Readable = {} THEN {0} ELSE Readable) : size \in Int
    BY <1>b DEF Readable, Sides
  <2>2. settled'.size \in Int
    BY <2>1, <1>6 DEF Reread
  <2> QED BY <2>2, <1>6, <1>b, <1>c DEF Reread, Abandon, Shapes
<1>7. CASE LandPending
  <2>1. pending # <<>> /\ Head(pending) \in Call /\ Tail(pending) \in Seq(Call)
    BY <1>7, <1>b DEF LandPending
  <2> QED BY <2>1, <1>7, <1>a, <1>b, LandedType DEF LandPending, Shapes
<1>8. CASE DropPending
  BY <1>8, <1>b DEF DropPending, Shapes
<1>9. ASSUME NEW d \in Sides, StopOut(d)
      PROVE  Shapes'
  BY <1>9, <1>b DEF StopOut, Shapes
<1>10. CASE Elapse \/ UNCHANGED vars
  BY <1>10, <1>b DEF Elapse, Shapes
<1> QED BY <1>1, <1>2, <1>3, <1>4, <1>5, <1>6, <1>7, <1>8, <1>9, <1>10 DEF Next

-------------------------------------------------------------------------------
(* Closing one side or both leaves what fitted fitting.                    *)
LEMMA FitsAfterClose ==
  ASSUME NEW calls, NEW v \in [Sides -> Nat], NEW w \in [Sides -> Nat],
         Fits(calls, v), \A d \in Sides : w[d] <= v[d]
  PROVE  Fits(calls, w)
<1>1. \A d \in Sides : -d \in Sides
  BY DEF Sides
<1>2. ASSUME NEW d \in Sides, NEW usd \in Nat,
             calls = <<CallOf("open", d, usd)>>, v[-d] = 0, v[d] + usd <= Cap
      PROVE  Fits(calls, w)
  <2>1. w[-d] = 0 /\ w[d] + usd <= Cap
    BY <1>1, <1>2, ReconcilerAssumption
  <2> QED BY <2>1, <1>2 DEF Fits
<1>3. ASSUME NEW d \in Sides, NEW usd \in Nat,
             calls = <<CallOf("close", d, 0), CallOf("open", -d, usd)>>,
             v[-d] = 0, usd <= Cap
      PROVE  Fits(calls, w)
  <2>1. w[-d] = 0
    BY <1>1, <1>3
  <2> QED BY <2>1, <1>3 DEF Fits
<1> QED BY <1>2, <1>3 DEF Fits

(* Carrying out the first call of what fits keeps the cap and one side,    *)
(* the rest still fits, and only the last call leaves the mirror behind.   *)
LEMMA FitsAfterCall ==
  ASSUME Shapes, NEW s \in Slots, job[s].calls # <<>>,
         Fits(job[s].calls, venue), OneSided, \A d \in Sides : venue[d] <= Cap,
         Mirror, Possible(Current(s)), NEW w, w = Landed(Current(s))
  PROVE  /\ w \in [Sides -> Nat]
         /\ \A d \in Sides : w[d] <= Cap
         /\ \E d \in Sides : w[d] = 0
         /\ Fits(Tail(job[s].calls), w)
         /\ Tail(job[s].calls) # <<>> => \A d \in Sides : w[d] = 0
<1> DEFINE c == Current(s)
           rest == Tail(job[s].calls)
<1>a. venue \in [Sides -> Nat] /\ Cap \in Nat
  BY ReconcilerAssumption DEF Shapes
<1>b. Fits(<<>>, w)
  BY DEF Fits
<1>c. \A k \in {"open", "close", "replaceStop"}, d \in Sides, u \in Nat :
        /\ CallOf(k, d, u) \in Call
        /\ CallOf(k, d, u).kind = k /\ CallOf(k, d, u).side = d /\ CallOf(k, d, u).usd = u
  BY DEF CallOf, Call
<1>d. \A d \in Sides : -d \in Sides /\ -d # d
  BY DEF Sides
<1>e. Sides = {-1, 1}
  BY DEF Sides
<1>f. c \in Call =>
        /\ w \in [Sides -> Nat]
        /\ \A d \in Sides \ {c.side} : w[d] = venue[d]
        /\ c.kind = "open" => w[c.side] = venue[c.side] + c.usd
        /\ c.kind # "open" => w[c.side] <= venue[c.side]
        /\ c.kind # "open" /\ c.usd = 0 => w[c.side] = 0
  BY LandedType
<1> HIDE DEF c
<1>1. ASSUME NEW d \in Sides, NEW usd \in Nat, NEW k \in {"close", "replaceStop"},
             job[s].calls = <<CallOf(k, d, usd)>>
      PROVE  /\ w \in [Sides -> Nat] /\ \A e \in Sides : w[e] <= venue[e]
             /\ rest = <<>>
  <2>1. c = CallOf(k, d, usd) /\ rest = <<>>
    BY <1>1, OneCall DEF Current, c
  <2>2. c \in Call /\ c.kind = k /\ c.side = d /\ c.usd = usd
    BY <2>1, <1>c
  <2>3. w \in [Sides -> Nat]
    BY <2>2, <1>f
  <2> QED BY <2>1, <2>2, <2>3, <1>a, <1>f
<1>2. ASSUME NEW d \in Sides, NEW usd \in Nat,
             job[s].calls = <<CallOf("open", d, usd)>>,
             venue[-d] = 0, venue[d] + usd <= Cap
      PROVE  /\ w \in [Sides -> Nat] /\ w[-d] = 0 /\ w[d] <= Cap
             /\ rest = <<>>
  <2>1. c = CallOf("open", d, usd) /\ rest = <<>>
    BY <1>2, OneCall DEF Current, c
  <2>2. c \in Call /\ c.kind = "open" /\ c.side = d /\ c.usd = usd
    BY <2>1, <1>c
  <2>3. w \in [Sides -> Nat]
    BY <2>2, <1>f
  <2> QED BY <2>1, <2>2, <2>3, <1>2, <1>a, <1>d, <1>e, <1>f
<1>3. ASSUME NEW d \in Sides, NEW usd \in Nat,
             job[s].calls = <<CallOf("close", d, 0), CallOf("open", -d, usd)>>,
             venue[-d] = 0, usd <= Cap
      PROVE  /\ w \in [Sides -> Nat] /\ w[d] = 0 /\ w[-d] = 0
             /\ rest = <<CallOf("open", -d, usd)>>
  <2>1. c = CallOf("close", d, 0) /\ rest = <<CallOf("open", -d, usd)>>
    BY <1>3, TwoCalls DEF Current, c
  <2>2. c \in Call /\ c.kind = "close" /\ c.side = d /\ c.usd = 0
    BY <2>1, <1>c
  <2>3. w \in [Sides -> Nat]
    BY <2>2, <1>f
  <2> QED BY <2>1, <2>2, <2>3, <1>3, <1>a, <1>d, <1>e, <1>f
<1>4. ASSUME NEW d \in Sides, NEW usd \in Nat, w[d] = 0, w[-d] = 0, usd <= Cap,
             rest = <<CallOf("open", -d, usd)>>
      PROVE  Fits(rest, w)
  <2>1. -d \in Sides /\ w[-(-d)] = 0 /\ w[-d] + usd <= Cap
    BY <1>4, <1>d, <1>a, <1>e
  <2> QED BY <2>1, <1>4 DEF Fits
<1>5. CASE \E d \in Sides, usd \in Nat, k \in {"close", "replaceStop"} :
             job[s].calls = <<CallOf(k, d, usd)>>
  <2>1. w \in [Sides -> Nat] /\ (\A e \in Sides : w[e] <= venue[e]) /\ rest = <<>>
    BY <1>1, <1>5
  <2>2. \E d \in Sides : w[d] = 0
    BY <2>1, <1>a DEF OneSided
  <2>3. \A d \in Sides : w[d] <= Cap
    BY <2>1, <1>a
  <2> QED BY <2>1, <2>2, <2>3, <1>b
<1>6. CASE \E d \in Sides, usd \in Nat :
             /\ job[s].calls = <<CallOf("open", d, usd)>>
             /\ venue[-d] = 0 /\ venue[d] + usd <= Cap
  <2>1. PICK d \in Sides : w \in [Sides -> Nat] /\ w[-d] = 0 /\ w[d] <= Cap /\ rest = <<>>
    BY <1>2, <1>6
  <2> QED BY <2>1, <1>a, <1>b, <1>d, <1>e
<1>7. CASE \E d \in Sides, usd \in Nat :
             /\ job[s].calls = <<CallOf("close", d, 0), CallOf("open", -d, usd)>>
             /\ venue[-d] = 0 /\ usd <= Cap
  <2>1. PICK d \in Sides, usd \in Nat :
               /\ w \in [Sides -> Nat] /\ w[d] = 0 /\ w[-d] = 0 /\ usd <= Cap
               /\ rest = <<CallOf("open", -d, usd)>>
    BY <1>3, <1>7
  <2>2. \A e \in Sides : w[e] = 0
    BY <2>1, <1>e
  <2> QED BY <2>1, <2>2, <1>4, <1>a
<1>8. 0 \in Nat
  OBVIOUS
<1> QED BY <1>5, <1>6, <1>7, <1>8 DEF Fits

(* Under the contract every step keeps the plan under way fitting the      *)
(* venue, and the mirror right or behind a plan not read back.             *)
LEMMA StepKept ==
  ASSUME IInv, [Next]_vars
  PROVE  KeptOrBroken'
<1> SUFFICES ASSUME past' # "broken"
             PROVE  Kept'
  BY DEF KeptOrBroken
<1> USE DEF vars, app
<1>a. Shapes /\ (past # "broken" => Kept)
  BY DEF IInv, KeptOrBroken
<1>b. /\ settled.size \in Int /\ venue \in [Sides -> Nat]
      /\ job \in [Slots -> JobState] /\ pending \in Seq(Call)
      /\ Cap \in Nat
  BY <1>a, ReconcilerAssumption DEF Shapes
<1>c. ~Idle.busy /\ \A calls : Running(calls).busy /\ Running(calls).calls = calls
  BY DEF Idle, Running
<1>d. Sides = {-1, 1}
  BY DEF Sides
<1>1. ASSUME NEW s \in Slots, Observe(s)
      PROVE  Kept'
  <2>1. /\ UNCHANGED <<settled, venue, pending>>
        /\ Quiet /\ Kept /\ Mirror
    <3>1. UNCHANGED <<settled, venue, pending>> /\ Quiet /\ Kept
      BY <1>1, <1>a, ObserveStarts, ExecutorAssumption
    <3> QED BY <3>1 DEF Kept, Quiet, Free
  <2>2. CASE UNCHANGED job
    BY <2>1, <2>2 DEF Kept, Fits, OneSided, Mirror
  <2>3. ASSUME NEW target \in Int, NEW order, Mag(target) <= Cap,
               \/ order = Decide(target, settled.size, settled.stopOk)
               \/ /\ settled.size # 0
                  /\ order = OrderOf("FullClose", SideOf(settled.size), 0),
               order.kind # "NoOp", Apply(s, order)
        PROVE  Kept'
    <3> DEFINE plan == PlanFlashOrder(order, settled.size)
    <3>1. Fits(plan, venue)
      BY <2>1, <2>3, <1>b, PlanFits DEF Kept, Mirror
    <3>2. job'[s] = Running(plan) /\ \A u \in Slots \ {s} : ~job'[u].busy
      BY <2>1, <2>3, <1>b DEF Apply, Quiet, Free
    <3>3. \A u \in Slots : job'[u].busy => u = s /\ job'[u].calls = plan
      BY <3>2, <1>c
    <3> HIDE DEF plan
    <3> QED BY <3>1, <3>3, <2>1 DEF Kept, Fits, OneSided, Mirror
  <2> QED BY <2>2, <2>3, <1>1, ObserveStarts, ExecutorAssumption
<1>2. ASSUME NEW s \in Slots, Confirmed(s)
      PROVE  Kept'
  <2> DEFINE w == Landed(Current(s))
             rest == Tail(job[s].calls)
  <2>1. /\ job[s].busy /\ job[s].calls # <<>> /\ Possible(Current(s))
        /\ venue' = w /\ UNCHANGED <<settled, pending, past>>
    BY <1>2 DEF Confirmed, Calling
  <2>2. Kept
    BY <2>1, <1>a
  <2>3. (\A u \in Slots : job[u].busy => u = s) /\ Mirror
    BY <2>1, <2>2 DEF Kept
  <2>4. /\ w \in [Sides -> Nat]
        /\ \A d \in Sides : w[d] <= Cap
        /\ \E d \in Sides : w[d] = 0
        /\ Fits(rest, w)
        /\ rest # <<>> => \A d \in Sides : w[d] = 0
    BY <2>1, <2>2, <2>3, <1>a, FitsAfterCall DEF Kept
  <2>5. job'[s] = Running(rest) /\ \A u \in Slots \ {s} : job'[u] = job[u]
    BY <1>2, <1>b DEF Confirmed, NextCall
  <2>6. /\ job'[s].busy /\ job'[s].calls = rest
        /\ \A u \in Slots : job'[u].busy => u = s
    BY <2>5, <2>3, <1>c
  <2> HIDE DEF w, rest
  <2>7. \A u \in Slots : job'[u].busy => Fits(job'[u].calls, venue')
    BY <2>6, <2>4, <2>1
  <2>8. OneSided' /\ \A d \in Sides : venue'[d] <= Cap
    BY <2>4, <2>1 DEF OneSided
  <2>9. (\A u \in Slots : job'[u].busy => job'[u].calls # <<>>) => Mirror'
    BY <2>6, <2>4, <2>1 DEF Mirror
  <2>10. pending' = <<>> /\ Mag(settled'.size) <= Cap
    BY <2>1, <2>2 DEF Kept
  <2>11. (\A u \in Slots : job[u].busy => Fits(job[u].calls, venue))'
    BY <2>7 DEF Fits
  <2> QED BY <2>6, <2>8, <2>9, <2>10, <2>11 DEF Kept
<1>3. ASSUME NEW s \in Slots, Sent(s) \/ AnswerLost(s) \/ RereadFails(s)
      PROVE  FALSE
  BY <1>3 DEF Sent, AnswerLost, RereadFails
<1>4. CASE LandPending \/ DropPending
  <2>1. past # "broken" /\ pending # <<>>
    BY <1>4 DEF LandPending, DropPending
  <2> QED BY <2>1, <1>a DEF Kept
<1>5. ASSUME NEW s \in Slots, Rejected(s)
      PROVE  Kept'
  <2>1. /\ job[s].busy /\ job[s].calls # <<>>
        /\ UNCHANGED <<settled, venue, pending, past>>
    BY <1>5 DEF Rejected, Calling
  <2>2. Kept
    BY <2>1, <1>a
  <2>3. (\A u \in Slots : job[u].busy => u = s) /\ Mirror
    BY <2>1, <2>2 DEF Kept
  <2>4. job'[s] = Idle /\ \A u \in Slots \ {s} : job'[u] = job[u]
    BY <1>5, <1>b DEF Rejected, Abandon
  <2>5. \A u \in Slots : ~job'[u].busy
    BY <2>3, <2>4, <1>c
  <2> QED BY <2>1, <2>2, <2>3, <2>5 DEF Kept, OneSided, Mirror
<1>6. ASSUME NEW s \in Slots, Reread(s)
      PROVE  Kept'
  <2>1. job[s].busy /\ UNCHANGED <<venue, pending, past>>
    BY <1>6 DEF Reread
  <2>2. Kept
    BY <2>1, <1>a
  <2>3. \A u \in Slots : job[u].busy => u = s
    BY <2>1, <2>2 DEF Kept
  <2>4. job'[s] = Idle /\ \A u \in Slots \ {s} : job'[u] = job[u]
    BY <1>6, <1>b DEF Reread, Abandon
  <2>5. \A u \in Slots : ~job'[u].busy
    BY <2>3, <2>4, <1>c
  <2>6. PICK size \in (IF Readable = {} THEN {0} ELSE Readable) : settled'.size = size
    BY <1>6 DEF Reread
  <2>7. \A d \in Sides : venue[d] > 0 => size = d * venue[d]
    <3>1. ASSUME NEW d \in Sides, venue[d] > 0
          PROVE  size = d * venue[d]
      <4>1. d * venue[d] \in Readable
        BY <3>1 DEF Readable
      <4>2. PICK e \in Sides : venue[e] > 0 /\ size = e * venue[e]
        BY <4>1, <2>6 DEF Readable
      <4>3. e = d
        BY <4>2, <3>1, <2>2, <1>b, <1>d DEF Kept, OneSided
      <4> QED BY <4>2, <4>3
    <3> QED BY <3>1
  <2>8. Mag(size) <= Cap
    <3>1. CASE Readable = {}
      BY <3>1, <2>6, <1>b DEF Mag
    <3>2. CASE Readable # {}
      <4>1. PICK e \in Sides : venue[e] > 0 /\ size = e * venue[e]
        BY <3>2, <2>6 DEF Readable
      <4>2. venue[e] <= Cap /\ venue[e] \in Nat /\ (e = 1 \/ e = -1)
        BY <2>2, <1>b, <1>d DEF Kept
      <4>3. size = venue[e] \/ size = -venue[e]
        BY <4>1, <4>2
      <4> QED BY <4>2, <4>3, <1>b DEF Mag
    <3> QED BY <3>1, <3>2
  <2> QED BY <2>1, <2>2, <2>5, <2>6, <2>7, <2>8 DEF Kept, OneSided, Mirror
<1>7. ASSUME NEW d \in Sides, StopOut(d)
      PROVE  Kept'
  <2>1. /\ past # "broken" /\ UNCHANGED <<settled, job, pending>>
        /\ venue' = [venue EXCEPT ![d] = 0]
    BY <1>7 DEF StopOut, Clear
  <2>2. Kept
    BY <2>1, <1>a
  <2>3. /\ venue' \in [Sides -> Nat] /\ venue'[d] = 0
        /\ \A e \in Sides : venue'[e] <= venue[e]
        /\ \A e \in Sides : venue'[e] > 0 => venue'[e] = venue[e] /\ venue[e] > 0
    BY <2>1, <1>b
  <2>4. \A u \in Slots : job[u].busy => Fits(job[u].calls, venue')
    BY <2>2, <2>3, <1>b, FitsAfterClose DEF Kept
  <2>5. (\A u \in Slots : job[u].busy => Fits(job[u].calls, venue))'
    BY <2>4, <2>1 DEF Fits
  <2>6. OneSided' /\ \A e \in Sides : venue'[e] <= Cap
    BY <2>2, <2>3, <1>b DEF OneSided, Kept
  <2>7. Mirror => Mirror'
    BY <2>3, <2>1 DEF Mirror
  <2> QED BY <2>1, <2>2, <2>5, <2>6, <2>7 DEF Kept
<1>8. CASE Elapse \/ UNCHANGED vars
  <2>1. UNCHANGED <<settled, job, venue, pending, past>>
    BY <1>8 DEF Elapse
  <2> QED BY <2>1, <1>a DEF Kept, Fits, OneSided, Mirror
<1> QED BY <1>1, <1>2, <1>3, <1>4, <1>5, <1>6, <1>7, <1>8 DEF Next

(* Nothing runs at first.                                                  *)
LEMMA InitInductive == Init => IInv
<1> SUFFICES ASSUME Init
             PROVE  IInv
  OBVIOUS
<1>1. Shapes
  <2>1. <<>> \in Seq(Call) /\ settled.size = 0
    BY DEF Init
  <2>2. venue \in [Sides -> Nat] /\ job \in [Slots -> JobState]
    BY DEF Init, JobState
  <2> QED BY <2>1, <2>2 DEF Init, Shapes
<1>2. Kept
  <2>1. \A s \in Slots : ~job[s].busy
    BY DEF Init, Idle
  <2>2. \A d \in Sides : venue[d] = 0
    BY DEF Init
  <2>3. settled.size = 0 /\ pending = <<>>
    BY DEF Init
  <2> QED BY <2>1, <2>2, <2>3, ReconcilerAssumption DEF Kept, OneSided, Mirror, Mag, Sides
<1> QED BY <1>1, <1>2 DEF IInv, KeptOrBroken

-------------------------------------------------------------------------------
(* The invariant of the executor, its gateway and the venue.               *)
THEOREM ExecutorInductive == Spec => []IInv
<1>1. Init => IInv
  BY InitInductive
<1>2. IInv /\ [Next]_vars => IInv'
  BY StepShapes, StepKept DEF IInv
<1> QED BY <1>1, <1>2, PTL DEF Spec

(* As long as the gateway keeps its contract, the real position never      *)
(* grows past fuel x leverage and both sides are never open, through       *)
(* rejected orders, half-done flips and unseen stop-outs, for every cap,   *)
(* band, size of order and observation.                                    *)
THEOREM NeverOverTheCap == Spec => []FaithfulWithinCap
<1>1. IInv => FaithfulWithinCap
  BY DEF IInv, KeptOrBroken, Kept, FaithfulWithinCap
<1> QED BY <1>1, ExecutorInductive, PTL

(* Under the contract and between two orders, the mirror shows the venue's *)
(* position or one that has since been closed.                             *)
THEOREM MirrorNeverHides == Spec => []MirrorOverstates
<1>1. IInv => MirrorOverstates
  BY DEF IInv, KeptOrBroken, Kept, Mirror, MirrorOverstates, Quiet, Free
<1> QED BY <1>1, ExecutorInductive, PTL

(* If some order is allowed and the dust rule leaves less than one half,   *)
(* every order takes the position strictly closer to what the thumb asks   *)
(* for, in every reachable state, the contract kept or not.                *)
THEOREM EveryOrderApproaches ==
  ASSUME MaxDelta > 0, 2 * RemainingBps <= Bps
  PROVE  Spec => []OrdersApproach
<1>1. IInv => OrdersApproach
  <2> SUFFICES ASSUME IInv, NEW v \in Virtuals,
                      Desired(TargetOf(v)).kind \notin {"NoOp", "ReplaceStop"}
               PROVE  LET order == Desired(TargetOf(v))
                          after == ExpectedAfter(order, settled.size)
                      IN  /\ Mag(after - TargetOf(v)) < Mag(settled.size - TargetOf(v))
                          /\ order.kind # "FullClose" =>
                               Between0(after - settled.size, TargetOf(v) - settled.size)
    BY DEF OrdersApproach
  <2>1. TargetOf(v) \in Int /\ settled.size \in Int
    BY TargetWithinCap, ExecutorAssumption DEF IInv, Shapes
  <2> QED BY <2>1, DecideApproaches DEF Desired
<1> QED BY <1>1, ExecutorInductive, PTL

-------------------------------------------------------------------------------
(* The memory of a stop-out.  The machine's state is one of its five.      *)
FsmShape ==
  \/ fsm = Frozen
  \/ \E pos : fsm = Synced(pos)
  \/ \E age, target : fsm = Drifting(age, target)
  \/ \E age, expected, prior : fsm = Settling(age, expected, prior)
  \/ \E reason : fsm = Degraded(reason)

(* While a plan runs, the machine still knows what the mirror showed when  *)
(* it began.                                                               *)
Knows(size) ==
  \/ fsm = Frozen
  \/ fsm.mode = "Synced" /\ fsm.pos = size
  \/ fsm.mode = "Settling" /\ fsm.prior = size

RunningKnows == past # "broken" /\ ~Quiet => Knows(settled.size)

(* A stop-out that the mirror shows is one the machine can detect.         *)
Detectable ==
  past = "stoppedOut" /\ settled.size = 0 => fsm = Frozen \/ EstablishedIn(fsm)

SInv == IInv /\ FsmShape /\ RunningKnows /\ Detectable

(* The strengthening holds at the start.                                   *)
LEMMA InitStop == Init => SInv
<1> SUFFICES ASSUME Init
             PROVE  SInv
  OBVIOUS
<1>1. FsmShape
  BY DEF Init, FsmShape
<1>2. RunningKnows
  BY DEF Init, RunningKnows, Quiet, Free, Idle
<1>3. Detectable
  BY DEF Init, Detectable
<1> QED BY <1>1, <1>2, <1>3, InitInductive DEF SInv

(* What an observation makes of the machine's state and of a slot.         *)
LEMMA ObserveFsm ==
  ASSUME FsmShape, NEW s \in Slots, Observe(s)
  PROVE  /\ FsmShape'
         /\ UNCHANGED settled
         /\ past' # "broken" => Quiet
         /\ UNCHANGED job \/ ((\E order : Apply(s, order)) /\ Knows(settled.size)')
         /\ past' = "stoppedOut" /\ settled.size = 0
              /\ (fsm = Frozen \/ EstablishedIn(fsm)) =>
            fsm' = Frozen /\ UNCHANGED job /\ past = "stoppedOut"
<1>1. UNCHANGED settled /\ (past' # "broken" => Quiet)
  BY DEF Observe, Witness
<1>2. ASSUME NEW o \in Observations, NEW virtual \in Virtuals,
             ObserveDegraded(o), Witness(TargetOf(virtual), Healthy(o))
      PROVE  FsmShape' /\ UNCHANGED job /\ past' # "stoppedOut"
  <2>1. fsm' \in {Degraded(r) : r \in Reasons} /\ UNCHANGED job
    BY <1>2 DEF ObserveDegraded, ReasonOf, Reasons
  <2>2. past' # "stoppedOut"
    BY <1>2 DEF Witness, ObserveDegraded
  <2> QED BY <2>1, <2>2 DEF FsmShape
<1>3. ASSUME NEW o \in Observations, NEW virtual \in Virtuals,
             ObserveHealthy(s, o, virtual), Witness(TargetOf(virtual), Healthy(o))
      PROVE  /\ FsmShape'
             /\ UNCHANGED job \/ ((\E order : Apply(s, order)) /\ Knows(settled.size)')
             /\ past' = "stoppedOut" /\ settled.size = 0
                  /\ (fsm = Frozen \/ EstablishedIn(fsm)) =>
                fsm' = Frozen /\ UNCHANGED job /\ past = "stoppedOut"
  <2> DEFINE target == TargetOf(virtual)
  <2>1. past' = "stoppedOut" => target # 0 /\ past = "stoppedOut"
    BY <1>3 DEF Witness
  <2> HIDE DEF target
  <2>2. CASE StepFrozen(s, target)
    BY <2>1, <2>2, <1>1 DEF StepFrozen, FsmShape, Knows
  <2>3. CASE StepFreeze(target)
    BY <2>1, <2>3 DEF StepFreeze, FsmShape
  <2>4. CASE StepInSync(s, target)
    <3>1. fsm' = Synced(settled.size) /\ Awake(target)
      BY <2>4 DEF StepInSync
    <3>2. FsmShape' /\ Knows(settled.size)'
      BY <3>1, <1>1 DEF FsmShape, Knows, Synced
    <3>3. UNCHANGED job \/ \E order : Apply(s, order)
      BY <2>4 DEF StepInSync
    <3> QED BY <3>1, <3>2, <3>3, <2>1 DEF Awake, Vanished
  <2>5. CASE StepWait(target)
    BY <2>1, <2>5 DEF StepWait, Drifts, Awake, Vanished, FsmShape
  <2>6. CASE StepDebounce(target)
    BY <2>1, <2>6 DEF StepDebounce, Drifts, Awake, Vanished, FsmShape
  <2>7. CASE StepAct(s, target)
    <3>1. /\ fsm' = Settling(0, ExpectedAfter(Desired(target), settled.size), settled.size)
          /\ Awake(target)
      BY <2>7 DEF StepAct, Drifts
    <3>2. FsmShape' /\ Knows(settled.size)'
      BY <3>1, <1>1 DEF FsmShape, Knows, Settling
    <3>3. \E order : Apply(s, order)
      BY <2>7 DEF StepAct
    <3> QED BY <3>1, <3>2, <3>3, <2>1 DEF Awake, Vanished
  <2> QED BY <1>3, <2>2, <2>3, <2>4, <2>5, <2>6, <2>7 DEF ObserveHealthy, target
<1> QED BY <1>1, <1>2, <1>3 DEF Observe

(* And every step keeps it.                                                *)
LEMMA StepStop ==
  ASSUME SInv, [Next]_vars
  PROVE  FsmShape' /\ RunningKnows' /\ Detectable'
<1> USE DEF vars, app
<1>a. /\ FsmShape /\ IInv
      /\ past # "broken" /\ ~Quiet => Knows(settled.size)
      /\ past = "stoppedOut" /\ settled.size = 0 => fsm = Frozen \/ EstablishedIn(fsm)
  BY DEF SInv, RunningKnows, Detectable
<1>b. job \in [Slots -> JobState]
  BY <1>a DEF IInv, Shapes
<1>c. ~Idle.busy /\ \A calls : Running(calls).busy
  BY DEF Idle, Running
<1>1. ASSUME NEW s \in Slots, Observe(s)
      PROVE  FsmShape' /\ RunningKnows' /\ Detectable'
  <2>1. FsmShape'
    BY <1>1, <1>a, ObserveFsm
  <2>2. Detectable'
    <3> SUFFICES ASSUME past' = "stoppedOut", settled'.size = 0
                 PROVE  (fsm = Frozen \/ EstablishedIn(fsm))'
      BY DEF Detectable
    <3>1. past = "stoppedOut" /\ settled.size = 0
      BY <1>1, <1>a, ObserveFsm DEF Observe, Witness
    <3>2. fsm' = Frozen
      BY <3>1, <1>1, <1>a, ObserveFsm
    <3> QED BY <3>2 DEF Frozen
  <2>3. RunningKnows'
    <3> SUFFICES ASSUME past' # "broken", ~Quiet'
                 PROVE  Knows(settled.size)'
      BY DEF RunningKnows
    <3>1. Quiet
      BY <1>1, <1>a, ObserveFsm
    <3>2. ~(UNCHANGED job)
      BY <3>1 DEF Quiet, Free
    <3> QED BY <3>2, <1>1, <1>a, ObserveFsm
  <2> QED BY <2>1, <2>2, <2>3
<1>2. ASSUME NEW s \in Slots,
             Confirmed(s) \/ Sent(s) \/ Rejected(s) \/ AnswerLost(s) \/ RereadFails(s)
      PROVE  FsmShape' /\ RunningKnows' /\ Detectable'
  <2>1. UNCHANGED <<fsm, settled>> /\ (past' = past \/ past' = "broken")
    BY <1>2 DEF Confirmed, Sent, Rejected, AnswerLost, RereadFails
  <2>2. job[s].busy
    BY <1>2 DEF Confirmed, Sent, Rejected, AnswerLost, RereadFails, Calling
  <2>3. ~Quiet
    BY <2>2 DEF Quiet, Free
  <2> QED BY <2>1, <2>3, <1>a DEF FsmShape, RunningKnows, Detectable, Knows, EstablishedIn
<1>3. ASSUME NEW s \in Slots, Reread(s)
      PROVE  FsmShape' /\ RunningKnows' /\ Detectable'
  <2>1. UNCHANGED <<fsm, past>> /\ job[s].busy
    BY <1>3 DEF Reread
  <2>2. ~Quiet
    BY <2>1 DEF Quiet, Free
  <2>3. Detectable'
    BY <2>1, <2>2, <1>a DEF Detectable, Knows, EstablishedIn
  <2>4. RunningKnows'
    <3> SUFFICES ASSUME past # "broken"
                 PROVE  Quiet'
      BY <2>1 DEF RunningKnows
    <3>1. \A u \in Slots : job[u].busy => u = s
      BY <2>1, <1>a DEF IInv, KeptOrBroken, Kept
    <3>2. job'[s] = Idle /\ \A u \in Slots \ {s} : job'[u] = job[u]
      BY <1>3, <1>b DEF Reread, Abandon
    <3> QED BY <3>1, <3>2, <1>c DEF Quiet, Free
  <2> QED BY <2>1, <2>3, <2>4, <1>a DEF FsmShape
<1>4. CASE LandPending \/ DropPending \/ UNCHANGED vars
  <2>1. UNCHANGED <<fsm, settled, job, past>>
    BY <1>4 DEF LandPending, DropPending
  <2> QED BY <2>1, <1>a DEF FsmShape, RunningKnows, Detectable, Knows, Quiet, Free
<1>5. ASSUME NEW d \in Sides, StopOut(d)
      PROVE  FsmShape' /\ RunningKnows' /\ Detectable'
  <2>1. /\ UNCHANGED <<fsm, settled, job>>
        /\ past' = "broken" => past = "broken"
        /\ past' = "stoppedOut" => past = "stoppedOut" \/ settled.size # 0
    BY <1>5 DEF StopOut, Clear
  <2>2. past' # "broken" => past # "broken"
    BY <1>5 DEF StopOut, Clear
  <2> QED BY <2>1, <2>2, <1>a DEF FsmShape, RunningKnows, Detectable, Knows, Quiet, Free
<1>6. CASE Elapse
  <2>1. UNCHANGED <<settled, job, past>>
    BY <1>6 DEF Elapse
  <2>2. CASE fsm = Frozen \/ (\E pos : fsm = Synced(pos)) \/ (\E r : fsm = Degraded(r))
    <3>1. UNCHANGED fsm
      BY <2>2, <1>6 DEF Elapse, Frozen, Synced, Degraded
    <3> QED BY <3>1, <2>1, <1>a DEF FsmShape, RunningKnows, Detectable, Knows, Quiet, Free
  <2>3. ASSUME NEW age, NEW target, fsm = Drifting(age, target)
        PROVE  FsmShape' /\ RunningKnows' /\ Detectable'
    <3>1. fsm' = Drifting(Older(age), target)
      BY <2>3, <1>6 DEF Elapse, Drifting
    <3>2. ~Knows(settled.size) /\ ~(fsm = Frozen \/ EstablishedIn(fsm))
      BY <2>3 DEF Knows, Drifting, Frozen, EstablishedIn
    <3> QED BY <3>1, <3>2, <2>1, <1>a DEF FsmShape, RunningKnows, Detectable, Quiet, Free
  <2>4. ASSUME NEW age, NEW expected, NEW prior, fsm = Settling(age, expected, prior)
        PROVE  FsmShape' /\ RunningKnows' /\ Detectable'
    <3>1. fsm' = Settling(Older(age), expected, prior)
      BY <2>4, <1>6 DEF Elapse, Settling
    <3>2. /\ Knows(settled.size) => Knows(settled.size)'
          /\ EstablishedIn(fsm) => EstablishedIn(fsm')
          /\ fsm # Frozen
      BY <3>1, <2>1, <2>4 DEF Knows, Settling, Frozen, EstablishedIn
    <3> QED BY <3>1, <3>2, <2>1, <1>a DEF FsmShape, RunningKnows, Detectable, Quiet, Free
  <2> QED BY <2>2, <2>3, <2>4, <1>a DEF FsmShape
<1> QED BY <1>1, <1>2, <1>3, <1>4, <1>5, <1>6 DEF Next

(* Whatever is rejected or stopped out, once the mirror shows an           *)
(* established position gone nothing opens as long as the thumb pulls and  *)
(* no observation degrades the machine.  The second condition is needed:   *)
(* StopOutReleasedByThumb, without it, is false of the code.               *)
THEOREM NeverBackIntoTheMove == Spec => StoppedOutStaysOut
<1>1. Init => SInv
  BY InitStop
<1>2. SInv /\ [Next]_vars => SInv'
  BY StepStop, StepShapes, StepKept DEF SInv, IInv
<1>3. SInv /\ [Next]_vars =>
        [\A s \in Slots :
           (Starts(s) /\ PlansOpen(s) /\ past' = "stoppedOut") => settled.size # 0]_vars
  <2> SUFFICES ASSUME SInv, Next, NEW s \in Slots, Starts(s), past' = "stoppedOut",
                      settled.size = 0
               PROVE  FALSE
    BY DEF PlansOpen
  <2>a. FsmShape /\ job \in [Slots -> JobState]
    BY DEF SInv, IInv, Shapes
  <2>b. ~Idle.busy
    BY DEF Idle
  <2>1. ASSUME NEW u \in Slots, Observe(u)
        PROVE  FALSE
    <3>1. past = "stoppedOut"
      BY <2>1 DEF Observe, Witness
    <3>2. fsm = Frozen \/ EstablishedIn(fsm)
      BY <3>1 DEF SInv, Detectable
    <3>3. UNCHANGED job
      BY <3>2, <2>1, <2>a, ObserveFsm
    <3> QED BY <3>3 DEF Starts, Free
  <2>2. ASSUME NEW u \in Slots,
               Confirmed(u) \/ Sent(u) \/ Rejected(u) \/ AnswerLost(u)
                 \/ Reread(u) \/ RereadFails(u)
        PROVE  FALSE
    <3>1. job[u].busy /\ \A t \in Slots \ {u} : job'[t] = job[t]
      BY <2>2, <2>a DEF Confirmed, Sent, Rejected, AnswerLost, Reread, RereadFails,
         Calling, NextCall, Abandon
    <3> QED BY <3>1 DEF Starts, Free
  <2>3. CASE LandPending \/ DropPending \/ (\E d \in Sides : StopOut(d)) \/ Elapse
    <3>1. UNCHANGED job
      BY <2>3 DEF LandPending, DropPending, StopOut, Elapse, app
    <3> QED BY <3>1 DEF Starts, Free
  <2> QED BY <2>1, <2>2, <2>3 DEF Next
<1> QED BY <1>1, <1>2, <1>3, PTL DEF Spec, StoppedOutStaysOut
===============================================================================
