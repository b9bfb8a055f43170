--------------------------- MODULE ExecutorVenueProofs -------------------------
(***************************************************************************)
(* The executor, the gateway and the venue together are what the app takes *)
(* them for: RideExecutor implements RealPosition.  What is left of a plan *)
(* is solid: carried out, it leaves a position unless it is a full close,  *)
(* so its calls tell which order of RealPosition is under way.             *)
(***************************************************************************)
EXTENDS ExecutorFillProofs

Solid(calls, v) ==
  \/ calls = <<>>
  \/ \E d \in Sides : \/ calls = <<CallOf("replaceStop", d, 0)>>
                      \/ calls = <<CallOf("close", d, 0)>>
  \/ Leaves(calls, v)

SolidPlan ==
  past # "broken" => \A s \in Slots : job[s].busy => Solid(job[s].calls, venue)

VenueInv == IInv /\ SolidPlan

(* The order of RealPosition that some calls make, and that the slots do.  *)
StageOf(calls) ==
  IF \E i \in DOMAIN calls :
       calls[i].kind = "open" \/ (calls[i].kind = "close" /\ calls[i].usd # 0)
    THEN "open"
  ELSE IF \E i \in DOMAIN calls : calls[i].kind = "close" THEN "close"
  ELSE IF calls = <<>> THEN "read"
  ELSE "none"

LeftIn(jobs) == UNION {{jobs[s].calls[i] : i \in DOMAIN jobs[s].calls} : s \in Slots}
Stage(jobs) ==
  IF \E c \in LeftIn(jobs) : c.kind = "open" \/ (c.kind = "close" /\ c.usd # 0)
    THEN "open"
  ELSE IF \E c \in LeftIn(jobs) : c.kind = "close" THEN "close"
  ELSE IF \E s \in Slots : jobs[s].busy /\ jobs[s].calls = <<>> THEN "read"
  ELSE "none"

Real(v) == \E d \in Sides : v[d] > 0

(* An order that an observation starts, decided or, where the machine is   *)
(* frozen, a full close.                                                   *)
OrdersFrom(s, target, order) ==
  /\ Mag(target) <= Cap
  /\ \/ order = Decide(target, settled.size, settled.stopOk)
     \/ settled.size # 0 /\ order = OrderOf("FullClose", SideOf(settled.size), 0)
  /\ order.kind # "NoOp"
  /\ Apply(s, order)

-------------------------------------------------------------------------------
(* The stage of each plan there is.                                        *)
LEMMA CallStages ==
  /\ StageOf(<<>>) = "read"
  /\ \A d : StageOf(<<CallOf("replaceStop", d, 0)>>) = "none"
  /\ \A d : StageOf(<<CallOf("close", d, 0)>>) = "close"
  /\ \A d, usd : usd # 0 => StageOf(<<CallOf("close", d, usd)>>) = "open"
  /\ \A d, usd : StageOf(<<CallOf("open", d, usd)>>) = "open"
  /\ \A d, e, usd :
       StageOf(<<CallOf("close", d, 0), CallOf("open", e, usd)>>) = "open"
<1>1. \A c : DOMAIN <<c>> = {1} /\ <<c>>[1] = c /\ <<c>> # <<>>
  OBVIOUS
<1>2. \A c, d : /\ DOMAIN <<c, d>> = {1, 2} /\ <<c, d>>[1] = c /\ <<c, d>>[2] = d
  OBVIOUS
<1>3. DOMAIN <<>> = {}
  OBVIOUS
<1>4. StageOf(<<>>) = "read"
  BY <1>3 DEF StageOf
<1>5. \A c : StageOf(<<c>>) =
               IF c.kind = "open" \/ (c.kind = "close" /\ c.usd # 0) THEN "open"
               ELSE IF c.kind = "close" THEN "close" ELSE "none"
  BY <1>1 DEF StageOf
<1>6. \A c, d : d.kind = "open" => StageOf(<<c, d>>) = "open"
  BY <1>2 DEF StageOf
<1> QED BY <1>4, <1>5, <1>6 DEF CallOf

(* The slots' stage is that of the one plan that runs.                     *)
LEMMA StageOfOne ==
  ASSUME NEW jobs \in [Slots -> JobState], NEW s \in Slots, jobs[s].busy,
         \A u \in Slots : jobs[u].busy => u = s
  PROVE  Stage(jobs) = StageOf(jobs[s].calls)
<1>1. \A u \in Slots \ {s} : jobs[u].calls = <<>>
  BY DEF JobState, Idle, Running
<1>2. LeftIn(jobs) = {jobs[s].calls[i] : i \in DOMAIN jobs[s].calls}
  <2>1. \A u \in Slots \ {s} : DOMAIN jobs[u].calls = {}
    BY <1>1
  <2>2. \A c : c \in LeftIn(jobs) <=>
               \E u \in Slots : \E i \in DOMAIN jobs[u].calls : c = jobs[u].calls[i]
    BY DEF LeftIn
  <2>3. \A c : c \in LeftIn(jobs) <=> \E i \in DOMAIN jobs[s].calls : c = jobs[s].calls[i]
    BY <2>1, <2>2
  <2> QED BY <2>3
<1>3. (\E u \in Slots : jobs[u].busy /\ jobs[u].calls = <<>>) <=> jobs[s].calls = <<>>
  OBVIOUS
<1> QED BY <1>2, <1>3 DEF Stage, StageOf

(* With every slot free no order is under way.                             *)
LEMMA StageOfNone ==
  ASSUME NEW jobs \in [Slots -> JobState], \A u \in Slots : ~jobs[u].busy
  PROVE  Stage(jobs) = "none"
<1>1. \A u \in Slots : jobs[u].calls = <<>>
  BY DEF JobState, Idle, Running
<1>2. LeftIn(jobs) = {}
  BY <1>1 DEF LeftIn
<1> QED BY <1>2 DEF Stage-------------------------------------------------------------------------------
(* An order that was decided on a right mirror has a solid plan, and is a  *)
(* close only where the mirror shows a position.                           *)
LEMMA PlanSolid ==
  ASSUME MaxDelta > 0,
         NEW pos \in Int, NEW target \in Int, Mag(target) <= Cap,
         NEW stopOk, NEW order,
         \/ order = Decide(target, pos, stopOk)
         \/ pos # 0 /\ order = OrderOf("FullClose", SideOf(pos), 0),
         order.kind # "NoOp",
         NEW v \in [Sides -> Nat], \A d \in Sides : v[d] > 0 => pos = d * v[d]
  PROVE  /\ Solid(PlanFlashOrder(order, pos), v)
         /\ StageOf(PlanFlashOrder(order, pos)) \in {"open", "close", "none"}
         /\ StageOf(PlanFlashOrder(order, pos)) = "close" => pos # 0
<1> DEFINE plan == PlanFlashOrder(order, pos)
<1>1. /\ order.kind \in Kinds \ {"NoOp"} /\ order.side \in Sides /\ order.usd \in Nat
      /\ order.kind = "FullClose" => pos # 0
  <2>1. CASE order = Decide(target, pos, stopOk)
    BY <2>1, DecideBound
  <2>2. CASE pos # 0 /\ order = OrderOf("FullClose", SideOf(pos), 0)
    BY <2>2 DEF OrderOf, SideOf, Sides, Kinds
  <2> QED BY <2>1, <2>2
<1>2. CASE order.kind = "FullClose"
  <2>1. plan = <<CallOf("close", order.side, 0)>>
    BY <1>2 DEF PlanFlashOrder
  <2> QED BY <2>1, <1>1, <1>2, CallStages DEF Solid
<1>3. CASE order.kind = "ReplaceStop"
  <2>1. plan = <<CallOf("replaceStop", order.side, 0)>>
    BY <1>3 DEF PlanFlashOrder
  <2> QED BY <2>1, <1>1, CallStages DEF Solid
<1>4. CASE order.kind \in {"OpenIncrease", "ReducePartial", "Flip"}
  <2>1. order = Decide(target, pos, stopOk)
    BY <1>4 DEF OrderOf
  <2>2. order.usd # 0
    BY <2>1, <1>4, DecideMoves
  <2>3. plan \in {<<CallOf("open", order.side, order.usd)>>,
                  <<CallOf("close", order.side, order.usd)>>,
                  <<CallOf("close", SideOf(pos), 0), CallOf("open", order.side, order.usd)>>}
    BY <1>4 DEF PlanFlashOrder
  <2>4. StageOf(plan) = "open"
    BY <2>2, <2>3, CallStages
  <2>5. Leaves(plan, v)
    BY <2>1, <1>4, PlanLeaves
  <2> QED BY <2>4, <2>5 DEF Solid
<1> QED BY <1>1, <1>2, <1>3, <1>4 DEF Kinds

(* The plan of a call that lands stays solid.                              *)
LEMMA SolidAfterCall ==
  ASSUME Shapes, NEW s \in Slots, job[s].calls # <<>>,
         Solid(job[s].calls, venue), Possible(Current(s)),
         NEW w, w = Landed(Current(s))
  PROVE  Solid(Tail(job[s].calls), w)
<1>1. CASE Leaves(job[s].calls, venue)
  BY <1>1, LeavesAfterCall DEF Solid
<1>2. ASSUME NEW c, job[s].calls = <<c>>
      PROVE  Solid(Tail(job[s].calls), w)
  BY <1>2, OneCall DEF Solid
<1> QED BY <1>1, <1>2 DEF Solid

(* And through a keeper's close.                                           *)
LEMMA SolidAfterStopOut ==
  ASSUME NEW calls, NEW v \in [Sides -> Nat], Solid(calls, v), NEW d \in Sides
  PROVE  Solid(calls, [v EXCEPT ![d] = 0])
<1> DEFINE w == [v EXCEPT ![d] = 0]
<1>1. \A e \in Sides : w[e] = v[e] \/ w[e] = 0
  OBVIOUS
<1>2. ASSUME NEW e \in Sides, NEW usd \in Nat \ {0},
             calls = <<CallOf("close", e, usd)>>, v[e] > 0 => v[e] > usd
      PROVE  Leaves(calls, w)
  <2>1. w[e] > 0 => w[e] > usd
    BY <1>1, <1>2
  <2> QED BY <2>1, <1>2 DEF Leaves
<1>3. Leaves(calls, v) => calls = <<>> \/ Leaves(calls, w)
  BY <1>2 DEF Leaves
<1> QED BY <1>3 DEF Solid

(* The invariant is kept by every step.                                    *)
LEMMA StepSolid ==
  ASSUME MaxDelta > 0, VenueInv, [Next]_vars
  PROVE  VenueInv'
<1>a. IInv /\ Shapes
  BY DEF VenueInv, IInv
<1>b. IInv'
  BY <1>a, StepShapes, StepKept DEF IInv
<1> SUFFICES ASSUME past' # "broken", NEW u \in Slots, job'[u].busy
             PROVE  Solid(job'[u].calls, venue')
  BY <1>b DEF VenueInv, SolidPlan, Solid, Leaves
<1>c. past # "broken" /\ \A s \in Slots : job[s].busy => Solid(job[s].calls, venue)
  BY <1>a, KeepingSteps DEF VenueInv, SolidPlan
<1>d. venue \in [Sides -> Nat] /\ settled.size \in Int
  BY <1>a DEF Shapes
<1>1. ASSUME NEW s \in Slots, Observe(s), Quiet
      PROVE  Solid(job'[u].calls, venue')
  <2>1. UNCHANGED venue /\ Mirror /\ \A t \in Slots : ~job[t].busy
    BY <1>1, <1>a, <1>c, QuietOrOne DEF Observe
  <2>2. ~UNCHANGED job
    BY <2>1
  <2>a. PICK target \in Int : \E order : OrdersFrom(s, target, order)
    BY <2>2, <1>1, <1>a, ExecutorAssumption, ObserveStarts DEF OrdersFrom
  <2>3. PICK order : OrdersFrom(s, target, order)
    BY <2>a
  <2> DEFINE plan == PlanFlashOrder(order, settled.size)
  <2>4. Solid(plan, venue)
    BY <2>1, <2>3, <1>d, PlanSolid DEF Mirror, OrdersFrom
  <2>5. job' = [job EXCEPT ![s] = Running(plan)]
    BY <2>3 DEF Apply, OrdersFrom
  <2> HIDE DEF plan
  <2>6. job'[u].calls = plan
    BY <2>5, <1>1, <1>a, OnlyPlan
  <2> QED BY <2>1, <2>4, <2>6
<1>2. ASSUME NEW s \in Slots, Confirmed(s)
      PROVE  Solid(job'[u].calls, venue')
  <2>1. /\ job[s].busy /\ job[s].calls # <<>>
        /\ Possible(Current(s)) /\ venue' = Landed(Current(s)) /\ NextCall(s)
    BY <1>2 DEF Confirmed, Calling
  <2>2. Solid(Tail(job[s].calls), venue')
    BY <2>1, <1>a, <1>c, SolidAfterCall
  <2> QED BY <2>1, <2>2, <1>a, <1>c, AfterPlan
<1>3. ASSUME NEW s \in Slots, Rejected(s) \/ Reread(s)
      PROVE  FALSE
  <2>1. job[s].busy /\ Abandon(s)
    BY <1>3 DEF Rejected, Reread, Calling
  <2> QED BY <2>1, <1>a, <1>c, AfterPlan
<1>4. ASSUME NEW d \in Sides, StopOut(d)
      PROVE  Solid(job'[u].calls, venue')
  <2>1. UNCHANGED job /\ venue' = [venue EXCEPT ![d] = 0]
    BY <1>4 DEF StopOut, app
  <2> QED BY <2>1, <1>c, <1>d, SolidAfterStopOut
<1>5. CASE Elapse \/ UNCHANGED vars
  <2>1. UNCHANGED <<job, venue>>
    BY <1>5 DEF Elapse, vars, app
  <2> QED BY <2>1, <1>c
<1> QED BY <1>1, <1>2, <1>3, <1>4, <1>5, <1>a, KeepingSteps

(* Nothing runs at the start.                                              *)
LEMMA InitVenue == Init => VenueInv
<1> SUFFICES ASSUME Init
             PROVE  VenueInv
  OBVIOUS
<1>1. \A s \in Slots : ~job[s].busy
  BY DEF Init, Idle
<1> QED BY <1>1, InitInductive DEF VenueInv, SolidPlan-------------------------------------------------------------------------------
(* A call that lands fills the order, or is the first half of a flip.      *)
LEMMA LandedFills ==
  ASSUME Shapes, OneSided, NEW s \in Slots, job[s].calls # <<>>,
         Solid(job[s].calls, venue), Possible(Current(s)),
         NEW w, w = Landed(Current(s))
  PROVE  LET stage == StageOf(job[s].calls)
             rest == Tail(job[s].calls)
         IN  \/ stage = "open" /\ Real(w) /\ rest = <<>>
             \/ stage = "close" /\ ~Real(w) /\ rest = <<>>
             \/ stage = "open" /\ Real(venue) /\ ~Real(w) /\ StageOf(rest) = "open"
<1> DEFINE stage == StageOf(job[s].calls)
           rest == Tail(job[s].calls)
<1>a. venue \in [Sides -> Nat] /\ Sides = {-1, 1}
  BY DEF Shapes, Sides
<1>b. \A d \in Sides : -d \in Sides /\ venue[d] \in Nat /\ \A e \in Sides : e = d \/ e = -d
  BY <1>a
<1>c. \A d \in Sides : venue[d] > 0 => venue[-d] = 0
  BY <1>b DEF OneSided
<1>1. ASSUME NEW d \in Sides, job[s].calls = <<CallOf("replaceStop", d, 0)>>
      PROVE  FALSE
  <2>1. Current(s) = CallOf("replaceStop", d, 0)
    BY <1>1, OneCall DEF Current
  <2> QED BY <2>1 DEF Possible, CallOf
<1>2. ASSUME NEW d \in Sides, job[s].calls = <<CallOf("close", d, 0)>>
      PROVE  stage = "close" /\ ~Real(w) /\ rest = <<>>
  <2>1. /\ Current(s) = CallOf("close", d, 0) /\ rest = <<>> /\ stage = "close"
        /\ w = Landed(CallOf("close", d, 0))
    BY <1>2, OneCall, CallStages DEF Current
  <2>2. venue[-d] = 0
    BY <2>1, <1>c DEF Possible, CallOf
  <2>3. w[d] = 0 /\ w[-d] = 0
    BY <2>1, <2>2, LandedCases
  <2> QED BY <2>1, <2>3, <1>b DEF Real
<1>3. ASSUME NEW d \in Sides, NEW usd \in Nat \ {0},
             job[s].calls = <<CallOf("close", d, usd)>>, venue[d] > 0 => venue[d] > usd
      PROVE  stage = "open" /\ Real(w) /\ rest = <<>>
  <2>1. /\ Current(s) = CallOf("close", d, usd) /\ rest = <<>> /\ stage = "open"
        /\ w = Landed(CallOf("close", d, usd))
    BY <1>3, OneCall, CallStages DEF Current
  <2>2. venue[d] > usd
    BY <2>1, <1>3 DEF Possible, CallOf
  <2>3. w[d] = IF usd = 0 \/ usd >= venue[d] THEN 0 ELSE venue[d] - usd
    BY <2>1, LandedCases
  <2>4. w[d] > 0
    BY <2>2, <2>3, <1>b
  <2> QED BY <2>1, <2>4 DEF Real
<1>4. ASSUME NEW d \in Sides, NEW usd \in Nat \ {0},
             job[s].calls = <<CallOf("open", d, usd)>>
      PROVE  stage = "open" /\ Real(w) /\ rest = <<>>
  <2>1. /\ rest = <<>> /\ stage = "open" /\ w = Landed(CallOf("open", d, usd))
    BY <1>4, OneCall, CallStages DEF Current
  <2>2. w[d] = venue[d] + usd
    BY <2>1, LandedCases
  <2>3. w[d] > 0
    BY <2>2, <1>b
  <2> QED BY <2>1, <2>3 DEF Real
<1>5. ASSUME NEW d \in Sides, NEW usd \in Nat \ {0},
             job[s].calls = <<CallOf("close", d, 0), CallOf("open", -d, usd)>>
      PROVE  stage = "open" /\ Real(venue) /\ ~Real(w) /\ StageOf(rest) = "open"
  <2>1. /\ Current(s) = CallOf("close", d, 0) /\ rest = <<CallOf("open", -d, usd)>>
        /\ w = Landed(CallOf("close", d, 0))
    BY <1>5, TwoCalls DEF Current
  <2>2. stage = "open" /\ StageOf(rest) = "open"
    BY <2>1, <1>5, CallStages
  <2>3. venue[d] > 0 /\ venue[-d] = 0
    BY <2>1, <1>c DEF Possible, CallOf
  <2>4. w[d] = 0 /\ w[-d] = 0
    BY <2>1, <2>3, LandedCases
  <2> QED BY <2>2, <2>3, <2>4, <1>b DEF Real
<1> QED BY <1>1, <1>2, <1>3, <1>4, <1>5 DEF Solid, Leaves

(* Of one plan the calls that are left tell the stage, and a solid one has *)
(* no other stages than these.                                             *)
LEMMA SolidStages ==
  ASSUME NEW calls, NEW v, Solid(calls, v)
  PROVE  /\ StageOf(calls) \in {"open", "close", "read", "none"}
         /\ calls # <<>> => StageOf(calls) # "read"
         /\ calls = <<>> => StageOf(calls) = "read"
BY CallStages DEF StageOf

(* A free slot starts no order but its own, and a plan that ends or goes   *)
(* on is the only one.                                                     *)
LEMMA StageAfter ==
  ASSUME IInv, past # "broken", NEW s \in Slots, job[s].busy
  PROVE  /\ Stage(job) = StageOf(job[s].calls)
         /\ Abandon(s) => Stage(job') = "none"
         /\ NextCall(s) /\ job[s].calls # <<>> =>
              Stage(job') = StageOf(Tail(job[s].calls))
<1>1. job \in [Slots -> JobState] /\ \A u \in Slots : job[u].busy => u = s
  BY QuietOrOne DEF IInv, Shapes
<1>2. Stage(job) = StageOf(job[s].calls)
  BY <1>1, StageOfOne
<1>3. Idle \in JobState /\ \A calls \in Seq(Call) : Running(calls) \in JobState
  BY DEF JobState
<1>4. ASSUME Abandon(s)
      PROVE  Stage(job') = "none"
  <2>1. job' \in [Slots -> JobState] /\ \A u \in Slots : ~job'[u].busy
    BY <1>1, <1>3, <1>4, AfterPlan DEF Abandon
  <2> QED BY <2>1, StageOfNone
<1>5. ASSUME NextCall(s)
      PROVE  /\ job'[s] = Running(Tail(job[s].calls))
             /\ \A u \in Slots \ {s} : job'[u] = job[u]
  BY <1>1, <1>5 DEF NextCall
<1>6. ASSUME NextCall(s), job[s].calls # <<>>
      PROVE  Stage(job') = StageOf(Tail(job[s].calls))
  <2>1. Tail(job[s].calls) \in Seq(Call)
    BY <1>6, JobTypes DEF IInv
  <2>2. job' \in [Slots -> JobState]
    BY <2>1, <1>1, <1>3, <1>6 DEF NextCall
  <2>a. job'[s] = Running(Tail(job[s].calls))
    BY <1>5, <1>6
  <2>3. job'[s].busy /\ job'[s].calls = Tail(job[s].calls)
    BY <2>a DEF Running
  <2>4. \A u \in Slots : job'[u].busy => u = s
    BY <1>1, <1>5, <1>6
  <2> QED BY <2>2, <2>3, <2>4, StageOfOne
<1> QED BY <1>2, <1>4, <1>6-------------------------------------------------------------------------------
(* What RealPosition sees, in the words of the executor.                   *)
LEMMA WhatIsSeen ==
  /\ OrderUnderWay = Stage(job) /\ OrderUnderWay' = Stage(job')
  /\ (\E d \in Sides : venue[d] > 0) <=> Real(venue)
  /\ (\E d \in Sides : venue'[d] > 0) <=> Real(venue')
BY DEF OrderUnderWay, Stage, Left, LeftIn, Real

(* The steps of RealPosition, in the same words.                           *)
LEMMA PositionSteps ==
  LET order == Stage(job)   real == Real(venue)   mirror == (settled.size # 0)
      left == Stage(job')   real2 == Real(venue') mirror2 == (settled'.size # 0)
  IN  /\ (left = order /\ (real2 <=> real) /\ (mirror2 <=> mirror))
           => UNCHANGED (Position!position)
      /\ (order = "none" /\ left \in {"open", "close"} /\ (left = "close" => mirror)
            /\ (real2 <=> real) /\ (mirror2 <=> mirror)) => Position!Next
      /\ (order \in {"open", "close"} /\ (real2 <=> order = "open")
            /\ left \in {"read", "none"} /\ (mirror2 <=> mirror)) => Position!Next
      /\ (order = "open" /\ real /\ ~real2
            /\ left \in {"open", "none"} /\ (mirror2 <=> mirror)) => Position!Next
      /\ (order # "none" /\ left = "none"
            /\ (real2 <=> real) /\ (mirror2 <=> mirror)) => Position!Next
      /\ (order = "read" /\ left = "none"
            /\ (real2 <=> real) /\ (mirror2 <=> real)) => Position!Next
      /\ (real /\ ~real2 /\ left = order /\ (mirror2 <=> mirror)) => Position!Next
BY WhatIsSeen DEF Position!position, Position!Next, Position!Order, Position!Fill,
   Position!FlipHalf, Position!Abandon, Position!ReadBack, Position!StopOut
(* An observation orders one thing at most, and a full close only of what  *)
(* the mirror shows.                                                       *)
LEMMA ObserveMaps ==
  ASSUME MaxDelta > 0, VenueInv, NEW s \in Slots, Observe(s), Confirming
  PROVE  [Position!Next]_(Position!position)
<1>a. IInv /\ Shapes /\ past # "broken" /\ job \in [Slots -> JobState]
  BY DEF VenueInv, IInv, Shapes, Confirming
<1>b. settled.size \in Int /\ venue \in [Sides -> Nat]
  BY <1>a DEF Shapes
<1>1. UNCHANGED <<settled, venue>>
  BY DEF Observe
<1>2. CASE UNCHANGED job
  BY <1>1, <1>2, PositionSteps
<1>3. CASE ~UNCHANGED job
  <2>a. PICK target \in Int : \E order : OrdersFrom(s, target, order)
    BY <1>a, <1>3, ExecutorAssumption, ObserveStarts DEF OrdersFrom
  <2>1. PICK order : OrdersFrom(s, target, order)
    BY <2>a
  <2> DEFINE plan == PlanFlashOrder(order, settled.size)
  <2>2. job' = [job EXCEPT ![s] = Running(plan)]
    BY <2>1 DEF Apply, OrdersFrom
  <2>3. job'[s] = Running(plan) /\ \A u \in Slots \ {s} : job'[u] = job[u]
    BY <2>2, <1>a
  <2>4. job'[s].busy /\ job'[s].calls = plan
    BY <2>3 DEF Running
  <2>5. \A u \in Slots : job'[u].busy => u = s
    BY <2>4 DEF Confirming, Alone
  <2>6. \A u \in Slots : ~job[u].busy
    BY <2>3, <2>5 DEF Observe, Free
  <2>7. Mirror
    BY <2>6, <1>a, QuietOrOne DEF Quiet, Free
  <2>8. /\ StageOf(plan) \in {"open", "close", "none"}
        /\ StageOf(plan) = "close" => settled.size # 0
    BY <2>1, <2>7, <1>b, PlanSolid DEF Mirror, OrdersFrom
  <2>9. job' \in [Slots -> JobState]
    BY <1>a, StepShapes DEF Shapes, Next
  <2> HIDE DEF plan
  <2>10. Stage(job) = "none" /\ Stage(job') = StageOf(plan)
    BY <2>4, <2>5, <2>6, <2>9, <1>a, StageOfNone, StageOfOne
  <2> QED BY <2>8, <2>10, <1>1, PositionSteps
<1> QED BY <1>2, <1>3

(* A call that lands fills the order or is half a flip, its answer lost or *)
(* not.                                                                    *)
LEMMA LandingMaps ==
  ASSUME VenueInv, past # "broken", NEW s \in Slots,
         Confirmed(s) \/ AnswerLost(s)
  PROVE  Position!Next
<1>a. IInv /\ Shapes /\ OneSided
  BY QuietOrOne DEF VenueInv, IInv, Kept
<1>1. /\ job[s].busy /\ job[s].calls # <<>> /\ Possible(Current(s))
      /\ venue' = Landed(Current(s)) /\ UNCHANGED settled
      /\ NextCall(s) \/ Abandon(s)
  BY DEF Confirmed, AnswerLost, Calling
<1>2. Solid(job[s].calls, venue)
  BY <1>1 DEF VenueInv, SolidPlan
<1> DEFINE stage == StageOf(job[s].calls)
           rest == Tail(job[s].calls)
<1>3. /\ Stage(job) = stage
      /\ Stage(job') = "none" \/ Stage(job') = StageOf(rest)
  BY <1>1, <1>a, StageAfter
<1>4. \/ stage = "open" /\ Real(venue') /\ rest = <<>>
      \/ stage = "close" /\ ~Real(venue') /\ rest = <<>>
      \/ stage = "open" /\ Real(venue) /\ ~Real(venue') /\ StageOf(rest) = "open"
  BY <1>1, <1>2, <1>a, LandedFills
<1>5. rest = <<>> => StageOf(rest) = "read"
  BY CallStages
<1> HIDE DEF stage, rest
<1> QED BY <1>1, <1>3, <1>4, <1>5, PositionSteps

(* A plan that is abandoned leaves everything as it is.                    *)
LEMMA AbandonMaps ==
  ASSUME VenueInv, past # "broken", NEW s \in Slots,
         Rejected(s) \/ RereadFails(s)
  PROVE  [Position!Next]_(Position!position)
<1>1. job[s].busy /\ Abandon(s) /\ UNCHANGED <<settled, venue>>
  BY DEF Rejected, RereadFails, Calling
<1>2. Stage(job') = "none"
  BY <1>1, StageAfter DEF VenueInv
<1> QED BY <1>1, <1>2, PositionSteps

(* The read-back makes the mirror show what is there.                      *)
LEMMA RereadMaps ==
  ASSUME VenueInv, past # "broken", NEW s \in Slots, Reread(s)
  PROVE  Position!Next
<1>a. IInv /\ venue \in [Sides -> Nat] /\ Sides = {-1, 1}
  BY DEF VenueInv, IInv, Shapes, Sides
<1>1. /\ job[s].busy /\ job[s].calls = <<>> /\ Abandon(s) /\ UNCHANGED venue
  BY DEF Reread
<1>2. Stage(job) = "read" /\ Stage(job') = "none"
  BY <1>1, <1>a, StageAfter, CallStages
<1>3. PICK size \in (IF Readable = {} THEN {0} ELSE Readable) : settled'.size = size
  BY DEF Reread
<1>4. size # 0 <=> Real(venue)
  <2>1. CASE Readable = {}
    BY <2>1, <1>3 DEF Readable, Real
  <2>2. CASE Readable # {}
    <3>1. PICK d \in Sides : venue[d] > 0 /\ size = d * venue[d]
      BY <2>2, <1>3 DEF Readable
    <3>2. venue[d] \in Nat /\ (d = 1 \/ d = -1)
      BY <1>a
    <3>3. size # 0
      BY <3>1, <3>2
    <3> QED BY <3>1, <3>3 DEF Real
  <2> QED BY <2>1, <2>2
<1> QED BY <1>1, <1>2, <1>3, <1>4, PositionSteps

(* With one side open, the keeper's close leaves nothing.                  *)
LEMMA StopOutMaps ==
  ASSUME VenueInv, past # "broken", NEW d \in Sides, StopOut(d)
  PROVE  Position!Next
<1>a. OneSided /\ venue \in [Sides -> Nat] /\ Sides = {-1, 1}
  BY QuietOrOne DEF VenueInv, IInv, Shapes, Kept, Sides
<1>1. UNCHANGED <<job, settled>> /\ venue[d] > 0 /\ venue' = [venue EXCEPT ![d] = 0]
  BY DEF StopOut, app
<1>2. -d \in Sides /\ -d # d /\ \A e \in Sides : e = d \/ e = -d
  BY <1>a
<1>3. venue[-d] = 0
  BY <1>1, <1>2, <1>a DEF OneSided
<1>4. Real(venue) /\ ~Real(venue')
  BY <1>1, <1>2, <1>3, <1>a DEF Real
<1> QED BY <1>1, <1>4, PositionSteps

(* While calls do not overlap and orders are confirmed, every step of the  *)
(* executor, the gateway, the network and the venue is a step of           *)
(* RealPosition or none.                                                   *)
LEMMA StepMaps ==
  ASSUME MaxDelta > 0, VenueInv, [Next]_vars, Confirming
  PROVE  [Position!Next]_(Position!position)
<1>a. past # "broken" /\ pending' = <<>> /\ pending = <<>> /\ pending \in Seq(Call)
  BY QuietOrOne DEF Confirming, VenueInv, IInv, Kept, Shapes
<1>1. ASSUME NEW s \in Slots, Sent(s)
      PROVE  FALSE
  <2>1. pending' = Append(<<>>, Current(s))
    BY <1>1, <1>a DEF Sent
  <2>2. \A c : Append(<<>>, c) = <<c>> /\ <<c>> # <<>>
    OBVIOUS
  <2> QED BY <2>1, <2>2, <1>a
<1>2. CASE LandPending \/ DropPending
  BY <1>2, <1>a DEF LandPending, DropPending
<1>3. CASE Elapse \/ UNCHANGED vars
  <2>1. UNCHANGED <<job, settled, venue>>
    BY <1>3 DEF Elapse, vars, app
  <2> QED BY <2>1, PositionSteps
<1> QED BY <1>a, <1>1, <1>2, <1>3, ObserveMaps, LandingMaps, AbandonMaps,
           RereadMaps, StopOutMaps DEF Next

(* If some order is allowed, the executor implements RealPosition for      *)
(* every cap, band, size of order and observation.                         *)
THEOREM ExecutorImplementsPosition ==
  ASSUME MaxDelta > 0
  PROVE  Spec => ImplementsPosition
<1>1. Init => VenueInv /\ Position!Init
  <2> SUFFICES ASSUME Init
               PROVE  VenueInv /\ Position!Init
    OBVIOUS
  <2>1. (\A s \in Slots : ~job[s].busy) /\ job \in [Slots -> JobState]
    BY InitVenue DEF Init, Idle, VenueInv, IInv, Shapes
  <2>2. Stage(job) = "none" /\ ~Real(venue) /\ settled.size = 0
    BY <2>1, StageOfNone DEF Init, Real
  <2> QED BY <2>2, InitVenue, WhatIsSeen DEF Position!Init
<1>2. VenueInv /\ [Next]_vars => VenueInv'
  BY StepSolid
<1>3. VenueInv /\ [Next]_vars =>
        [Confirming => [Position!Next]_(Position!position)]_vars
  BY StepMaps
<1> QED BY <1>1, <1>2, <1>3, PTL DEF Spec, ImplementsPosition
===============================================================================
