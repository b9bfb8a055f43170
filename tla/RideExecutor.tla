------------------------------ MODULE RideExecutor ----------------------------
(***************************************************************************)
(* The reconciler at work: the executor feeds it observations of the ride, *)
(* the gateway turns each order into calls on the venue and mirrors the    *)
(* position it reads back, and the venue's keeper closes positions behind  *)
(* the app's back.  One call of onObservation is a slot; its first part,   *)
(* up to the first await, is one step (Observe), every answer of the       *)
(* network another.                                                        *)
(*                                                                         *)
(* The gateway's contract (ports.dart, SignSubmitConfirm): callers await   *)
(* each observation, a submit returns once the order is confirmed, and     *)
(* `settled' is the venue's position after each action.  Nothing enforces  *)
(* it, so the steps that break it are here too, and the history variable   *)
(* `past' records whether one was taken: the contract is "kept" or         *)
(* "broken", or it is kept and a stop-out has not been answered by letting *)
(* go, either unforgotten ("stoppedOut") or with the machine degraded in   *)
(* between ("forgotten").                                                  *)
(***************************************************************************)
EXTENDS Reconciler, Sequences

CONSTANTS
  Slots,                        \* calls of onObservation that may be open
  Observations,                 \* what an observation may carry
  Virtuals,                     \* advisory notionals the rollup may echo
  MaxSize,                      \* bound on a position at the venue
  MaxPending                    \* bound on orders sent and not yet landed

ASSUME ExecutorAssumption ==
  /\ Virtuals \subseteq Int
  /\ \A o \in Observations :
       /\ o.linkOk \in BOOLEAN /\ o.closed \in BOOLEAN /\ o.stale \in BOOLEAN
       /\ o.erMark \in Int /\ o.guardMark \in Int
  /\ MaxSize \in Nat /\ MaxPending \in Nat

VARIABLES
  fsm,                          \* _state of the executor
  settled,                      \* _settled of the gateway
  job,                          \* the apply each slot is running
  venue,                        \* the real position, by side
  pending,                      \* orders sent to the venue and not landed
  past                          \* history: see above

app == <<fsm, settled, job>>
vars == <<app, venue, pending, past>>

Sides == {-1, 1}
Call == [kind: {"open", "close", "replaceStop"}, side: Sides, usd: Nat]
CallOf(kind, side, usd) == [kind |-> kind, side |-> side, usd |-> usd]
Idle == [busy |-> FALSE, calls |-> <<>>]
Running(calls) == [busy |-> TRUE, calls |-> calls]

Init ==
  /\ fsm = Synced(0)
  /\ settled = [size |-> 0, stopOk |-> FALSE]
  /\ job = [s \in Slots |-> Idle]
  /\ venue = [d \in Sides |-> 0]
  /\ pending = <<>>
  /\ past = "kept"

-------------------------------------------------------------------------------
(* Mutant: the flip opens the new side before it closes the old one.       *)
PlanOpensFirst(order, pos) ==
  IF order.kind = "Flip"
    THEN <<CallOf("open", order.side, order.usd), CallOf("close", SideOf(pos), 0)>>
  ELSE IF order.kind = "OpenIncrease"
    THEN <<CallOf("open", order.side, order.usd)>>
  ELSE <<CallOf("close", order.side, order.usd)>>

(* planFlashOrder: the venue calls of one order, a flip being two.  A full *)
(* close is a close of 0.                                                  *)
PlanFlashOrder(order, pos) ==
  IF order.kind = "OpenIncrease"
    THEN <<CallOf("open", order.side, order.usd)>>
  ELSE IF order.kind = "ReducePartial"
    THEN <<CallOf("close", order.side, order.usd)>>
  ELSE IF order.kind = "FullClose"
    THEN <<CallOf("close", order.side, 0)>>
  ELSE IF order.kind = "Flip"
    THEN <<CallOf("close", SideOf(pos), 0), CallOf("open", order.side, order.usd)>>
  ELSE <<CallOf("replaceStop", order.side, 0)>>

Free(s) == ~job[s].busy
Quiet == \A s \in Slots : Free(s)

(* gateway.apply, up to its first await.                                   *)
Apply(s, order) ==
  job' = [job EXCEPT ![s] = Running(PlanFlashOrder(order, settled.size))]

(* The gates, in the order they are tried.                                 *)
Healthy(o) ==
  /\ o.linkOk /\ ~o.closed /\ ~o.stale
  /\ ~PriceDiverged(o.erMark, o.guardMark)
ReasonOf(o) ==
  IF ~o.linkOk THEN "linkLost"
  ELSE IF o.closed THEN "marketClosed"
  ELSE IF o.stale THEN "oracleStale"
  ELSE "priceDivergence"

ObserveDegraded(o) ==
  /\ ~Healthy(o)
  /\ fsm' = Degraded(ReasonOf(o))
  /\ UNCHANGED job

(* Frozen: close what is left, and re-arm only when the thumb lets go.     *)
StepFrozen(s, target) ==
  /\ fsm = Frozen
  /\ \/ /\ settled.size # 0
        /\ Apply(s, OrderOf("FullClose", SideOf(settled.size), 0))
        /\ UNCHANGED fsm
     \/ /\ settled.size = 0
        /\ fsm' = IF target = 0 THEN Synced(0) ELSE Frozen
        /\ UNCHANGED job

(* An established position is gone while the thumb still wants one.        *)
Vanished(target) == settled.size = 0 /\ target # 0 /\ EstablishedIn(fsm)
StepFreeze(target) ==
  /\ fsm # Frozen /\ Vanished(target)
  /\ fsm' = Frozen
  /\ UNCHANGED job

Awake(target) == fsm # Frozen /\ ~Vanished(target)
Desired(target) == Decide(target, settled.size, settled.stopOk)

StepInSync(s, target) ==
  /\ Awake(target)
  /\ fsm' = Synced(settled.size)
  /\ \/ Desired(target) = NoOp /\ UNCHANGED job
     \/ Desired(target).kind = "ReplaceStop" /\ Apply(s, Desired(target))

Drifts(target) ==
  Awake(target) /\ Desired(target).kind \notin {"NoOp", "ReplaceStop"}

(* The settling gate: the order before this one is neither seen nor late.  *)
Waiting ==
  /\ fsm.mode = "Settling"
  /\ ~Reached(settled.size, fsm.expected)
  /\ fsm.age < SettleTimeout
StepWait(target) ==
  /\ Drifts(target) /\ Waiting
  /\ UNCHANGED <<fsm, job>>

(* How long the drift has lasted, when this observation is in.             *)
DriftAge(target) ==
  IF fsm.mode = "Drifting" /\ SameBucket(fsm.target, target) THEN fsm.age ELSE 0
StepDebounce(target) ==
  /\ Drifts(target) /\ fsm.mode # "Settling"
  /\ DriftAge(target) < Debounce
  /\ fsm' = Drifting(DriftAge(target), target)
  /\ UNCHANGED job

StepAct(s, target) ==
  /\ Drifts(target) /\ ~Waiting
  /\ fsm.mode = "Settling" \/ DriftAge(target) >= Debounce
  /\ fsm' = Settling(0, ExpectedAfter(Desired(target), settled.size),
                     settled.size)
  /\ Apply(s, Desired(target))

ObserveHealthy(s, o, virtual) ==
  LET target == TargetOf(virtual) IN
  /\ Healthy(o)
  /\ \/ StepFrozen(s, target) \/ StepFreeze(target) \/ StepInSync(s, target)
     \/ StepWait(target) \/ StepDebounce(target) \/ StepAct(s, target)

(* Overlapping calls break the contract; letting go answers a stop-out; a  *)
(* degraded observation replaces the state that knew of it.                *)
Witness(target, healthy) ==
  past' = IF ~Quiet \/ past = "broken" THEN "broken"
          ELSE IF target = 0 THEN "kept"
          ELSE IF ~healthy /\ past = "stoppedOut" THEN "forgotten"
          ELSE past

(* onObservation: one observation, one step of the machine, at most one    *)
(* order.  It checks that no other call is open by an assertion only, so   *)
(* a release build runs them side by side.                                 *)
Observe(s) ==
  /\ Free(s)
  /\ \E o \in Observations, virtual \in Virtuals :
       /\ ObserveDegraded(o) \/ ObserveHealthy(s, o, virtual)
       /\ Witness(TargetOf(virtual), Healthy(o))
  /\ UNCHANGED <<settled, venue, pending>>

-------------------------------------------------------------------------------
(* What a call does to the venue when it lands.                            *)
Possible(c) ==
  \/ c.kind = "open" /\ venue[c.side] + c.usd <= MaxSize
  \/ c.kind = "close" /\ venue[c.side] > 0
Landed(c) ==
  [venue EXCEPT ![c.side] =
     IF c.kind = "open" THEN @ + c.usd
     ELSE IF c.usd = 0 \/ c.usd >= @ THEN 0
     ELSE @ - c.usd]

Calling(s) == job[s].busy /\ job[s].calls # <<>>
Current(s) == Head(job[s].calls)
NextCall(s) == job' = [job EXCEPT ![s] = Running(Tail(@.calls))]
Abandon(s) == job' = [job EXCEPT ![s] = Idle]

(* The call is built, signed, sent and confirmed.                          *)
Confirmed(s) ==
  /\ Calling(s) /\ Possible(Current(s))
  /\ venue' = Landed(Current(s))
  /\ NextCall(s)
  /\ UNCHANGED <<fsm, settled, pending, past>>

(* The submit the app ships returns as soon as the transaction is sent.    *)
Sent(s) ==
  /\ Calling(s) /\ Current(s).kind # "replaceStop"
  /\ Len(pending) < MaxPending
  /\ pending' = Append(pending, Current(s))
  /\ NextCall(s)
  /\ past' = "broken"
  /\ UNCHANGED <<fsm, settled, venue>>

LandPending ==
  /\ pending # <<>> /\ Possible(Head(pending))
  /\ venue' = Landed(Head(pending))
  /\ pending' = Tail(pending)
  /\ UNCHANGED <<app, past>>

DropPending ==
  /\ pending # <<>>
  /\ pending' = Tail(pending)
  /\ UNCHANGED <<app, venue, past>>

(* The builder or the submit throws: the rest of the plan is abandoned and *)
(* nothing is read back.  A stop cannot be replaced by any call.           *)
Rejected(s) ==
  /\ Calling(s)
  /\ Abandon(s)
  /\ UNCHANGED <<fsm, settled, venue, pending, past>>

(* As Rejected, but the order had landed when its answer was lost.         *)
AnswerLost(s) ==
  /\ Calling(s) /\ Possible(Current(s))
  /\ venue' = Landed(Current(s))
  /\ Abandon(s)
  /\ past' = "broken"
  /\ UNCHANGED <<fsm, settled, pending>>

(* Every call went through: the position is read back from the venue, the  *)
(* stop as far as it can be made out.                                      *)
Readable == {d * venue[d] : d \in {e \in Sides : venue[e] > 0}}
(* Mutant: the gateway forgets to read the position back.                  *)
RereadForgotten(s) ==
  /\ job[s].busy /\ job[s].calls = <<>>
  /\ Abandon(s)
  /\ UNCHANGED <<fsm, settled, venue, pending, past>>

Reread(s) ==
  /\ job[s].busy /\ job[s].calls = <<>>
  /\ \E stopOk \in BOOLEAN, size \in (IF Readable = {} THEN {0} ELSE Readable) :
       settled' = [size |-> size, stopOk |-> stopOk /\ size # 0]
  /\ Abandon(s)
  /\ UNCHANGED <<fsm, venue, pending, past>>

RereadFails(s) ==
  /\ job[s].busy /\ job[s].calls = <<>>
  /\ Abandon(s)
  /\ past' = "broken"
  /\ UNCHANGED <<fsm, settled, venue, pending>>

-------------------------------------------------------------------------------
(* No stop-out is remembered that the thumb has not answered.              *)
Clear == past \in {"kept", "forgotten"}

(* The keeper closes a position whose stop was crossed.                    *)
StopOut(d) ==
  /\ venue[d] > 0
  /\ venue' = [venue EXCEPT ![d] = 0]
  /\ past' = IF Clear /\ settled.size # 0 THEN "stoppedOut" ELSE past
  /\ UNCHANGED <<app, pending>>

(* The clock, seen only through the ages the machine compares.             *)
Elapse ==
  /\ fsm' = IF fsm.mode \in {"Drifting", "Settling"}
            THEN [fsm EXCEPT !.age = Older(@)] ELSE fsm
  /\ UNCHANGED <<settled, job, venue, pending, past>>

Next ==
  \/ \E s \in Slots :
       \/ Observe(s)
       \/ Confirmed(s) \/ Sent(s) \/ Rejected(s) \/ AnswerLost(s)
       \/ Reread(s) \/ RereadFails(s)
  \/ LandPending \/ DropPending
  \/ \E d \in Sides : StopOut(d)
  \/ Elapse

Spec == Init /\ [][Next]_vars

-------------------------------------------------------------------------------
(* The order a step hands to the gateway, seen by the calls it plans.      *)
Starts(s) == Free(s) /\ job'[s].busy
Plan(s) == job'[s].calls
PlansOpen(s) == \E i \in DOMAIN Plan(s) : Plan(s)[i].kind = "open"

TypeOK ==
  /\ fsm \in FsmState
  /\ settled \in [size: Int, stopOk: BOOLEAN]
  /\ job \in [Slots -> [busy: BOOLEAN, calls: Seq(Call)]]
  /\ venue \in [Sides -> Nat]
  /\ pending \in Seq(Call)
  /\ past \in {"kept", "stoppedOut", "forgotten", "broken"}

(* The local cap: whatever the rollup claims, and through rejected orders, *)
(* half-done flips and stop-outs nobody saw, the real position never grows *)
(* past fuel x leverage, nor are both sides ever open, as long as the      *)
(* gateway keeps its contract (_clampTarget, _capDelta, Flip, apply).      *)
OneSided == \E d \in Sides : venue[d] = 0
FaithfulWithinCap ==
  past # "broken" => OneSided /\ \A d \in Sides : venue[d] <= Cap

(* A stale mirror only ever overstates: under the contract, between two    *)
(* orders, the gateway shows the venue's position or one that has since    *)
(* been closed, never flat over an open position (apply's single re-read). *)
MirrorOverstates ==
  (past # "broken" /\ Quiet) =>
    \A d \in Sides : venue[d] > 0 => settled.size = d * venue[d]

(* Once the mirror has shown an established position gone, nothing opens   *)
(* as long as the thumb pulls and no observation has degraded the machine  *)
(* in between (the Frozen branch and its detection by syncedSigned6 and    *)
(* priorSettled6).  What a degraded one does is StopOutReleasedByThumb.    *)
StoppedOutStaysOut ==
  [][\A s \in Slots :
       (Starts(s) /\ PlansOpen(s) /\ past' = "stoppedOut") =>
         settled.size # 0]_vars

(* Under the contract a fill never takes the mirror past what the machine  *)
(* was waiting for, whatever was rejected or stopped out before: the plan  *)
(* of an order and the expectation of its state agree (planFlashOrder      *)
(* against _expectedSettledAfter), so the settling gate cannot overshoot.  *)
Between0(n, m) == (0 <= n /\ n <= m) \/ (m <= n /\ n <= 0)
FillWithinExpectation ==
  [][(settled' # settled /\ past # "broken" /\ fsm.mode = "Settling") =>
       Between0(settled'.size, fsm.expected)]_vars

(* With every order confirmed and no stop-out since the thumb let go or    *)
(* the machine was degraded, it takes a position for stopped out in one    *)
(* case only: it has closed it itself and the thumb wants one again by the *)
(* time the mirror shows it flat (the detection of step does not look at   *)
(* what the close before it expected).                                     *)
FreezeHasCause ==
  [][(fsm' = Frozen /\ fsm # Frozen /\ Clear') =>
       fsm.mode = "Settling" /\ fsm.prior # 0 /\ fsm.expected = 0]_vars

(* Whatever the thumb asks, the order it leads to brings the position      *)
(* strictly closer to it when it fills, and never past it unless it closes *)
(* dust: a thumb held still is reached in finitely many fills and the      *)
(* position does not hunt around it (_decide with its caps, the band and   *)
(* the 97 % rule).                                                         *)
OrdersApproach ==
  \A v \in Virtuals :
    LET target == TargetOf(v)
        order  == Desired(target)
        after  == ExpectedAfter(order, settled.size)
    IN order.kind \notin {"NoOp", "ReplaceStop"} =>
         /\ Mag(after - target) < Mag(settled.size - target)
         /\ order.kind # "FullClose" =>
              Between0(after - settled.size, target - settled.size)

(* What the reconciler says of a stop-out: it refuses to re-open into the  *)
(* adverse move until the thumb lets go.                                   *)
StopOutNeverReopened ==
  [][\A s \in Slots :
       (Starts(s) /\ Plan(s)[1].kind = "open") => past' # "stoppedOut"]_vars

(* What the reconciler says of the frozen state: it refuses to re-open     *)
(* into the adverse move, the user must release the throttle to re-arm.    *)
(* The Degraded state, which replaces it, remembers no stop-out.           *)
StopOutReleasedByThumb ==
  [][\A s \in Slots :
       (Starts(s) /\ PlansOpen(s) /\ past' \in {"stoppedOut", "forgotten"}) =>
         settled.size # 0]_vars

(* What the architecture document says of the local cap: settled size can  *)
(* never exceed the locally known fuel x leverage.                         *)
SizeWithinCap == \A d \in Sides : venue[d] <= Cap

-------------------------------------------------------------------------------
(***************************************************************************)
(* With amounts and sides forgotten the executor is what the app takes it  *)
(* for (module RealPosition).  A running apply is the order its remaining  *)
(* calls make; one that only replaces a stop is none.                      *)
(***************************************************************************)
Left == UNION {{job[s].calls[i] : i \in DOMAIN job[s].calls} : s \in Slots}
OrderUnderWay ==
  IF \E c \in Left : c.kind = "open" \/ (c.kind = "close" /\ c.usd # 0) THEN "open"
  ELSE IF \E c \in Left : c.kind = "close" THEN "close"
  ELSE IF \E s \in Slots : job[s].busy /\ job[s].calls = <<>> THEN "read"
  ELSE "none"

Position == INSTANCE RealPosition WITH
  order <- OrderUnderWay,
  real <- (\E d \in Sides : venue[d] > 0),
  mirror <- (settled.size # 0)

(* While calls do not overlap and every order is confirmed, what happens   *)
(* to the real position, through rejected orders, lost answers, half-done  *)
(* flips and stop-outs, is what the app reckons with (onObservation and    *)
(* apply against the states the controller of a ride can find).            *)
Alone == \A s, u \in Slots : job[s].busy /\ job[u].busy => s = u
Confirming == past # "broken" /\ pending' = <<>> /\ Alone'
ImplementsPosition ==
  /\ Position!Init
  /\ [][Confirming => [Position!Next]_(Position!position)]_vars
===============================================================================
