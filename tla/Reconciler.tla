------------------------------- MODULE Reconciler -----------------------------
(***************************************************************************)
(* The pure half of the reconciler: what one observation of the ride makes *)
(* it want to do to the real position at the venue.  A position is its     *)
(* signed notional (+ long, - short, 0 flat); an order is one bounded      *)
(* action.  Amounts are in any unit of USD the constants agree on.         *)
(***************************************************************************)
EXTENDS Integers

CONSTANTS
  Cap,                          \* RideConfig.maxNotionalAbs6: fuel x leverage
  Bps,                          \* bpsScale
  BandBps, BandFloor,           \* hysteresis band, and its least width
  RemainingBps,                 \* fullCloseRemainingBps
  DivergenceBps,                \* priceDivergenceBps
  MaxDeltaBps,                  \* maxActionDeltaBps
  Debounce, SettleTimeout       \* in units of the clock's grain

ASSUME ReconcilerAssumption ==
  /\ Cap \in Nat \ {0} /\ Bps \in Nat \ {0}
  /\ BandBps \in Nat /\ BandFloor \in Nat \ {0}
  /\ RemainingBps \in 0 .. Bps /\ DivergenceBps \in Nat
  /\ MaxDeltaBps \in 0 .. Bps
  /\ Debounce \in Nat /\ SettleTimeout \in Nat

Larger(a, b) == IF a >= b THEN a ELSE b
Mag(n) == IF n < 0 THEN -n ELSE n
SideOf(n) == IF n > 0 THEN 1 ELSE IF n < 0 THEN -1 ELSE 0

Band == Larger((Cap * BandBps) \div Bps, BandFloor)
MaxDelta == (Cap * MaxDeltaBps) \div Bps
CapDelta(x) == IF x > MaxDelta THEN MaxDelta ELSE x

(* The advisory notional, clamped to the local cap; the bottom dead zone   *)
(* of the throttle snaps to flat.                                          *)
ClampTarget(virtual) ==
  IF virtual > Cap THEN Cap ELSE IF virtual < -Cap THEN -Cap ELSE virtual
TargetOf(virtual) ==
  IF Mag(ClampTarget(virtual)) < BandFloor THEN 0 ELSE ClampTarget(virtual)

PriceDiverged(erMark, guardMark) ==
  \/ guardMark <= 0
  \/ (Mag(erMark - guardMark) * Bps) \div guardMark > DivergenceBps

-------------------------------------------------------------------------------
Kinds == {"NoOp", "OpenIncrease", "ReducePartial", "FullClose", "Flip",
          "ReplaceStop"}
Order == [kind: Kinds, side: {-1, 0, 1}, usd: Nat]
OrderOf(kind, side, usd) == [kind |-> kind, side |-> side, usd |-> usd]
NoOp == OrderOf("NoOp", 0, 0)

(* Mutant: a reduction carries the sign of the difference.                 *)
SameSideSigned(target, pos, stopOk) ==
  LET diff == Mag(target) - Mag(pos) IN
  IF Mag(diff) <= Band
    THEN IF stopOk THEN NoOp ELSE OrderOf("ReplaceStop", SideOf(pos), 0)
  ELSE IF diff > 0
    THEN OrderOf("OpenIncrease", SideOf(pos), CapDelta(diff))
  ELSE IF Mag(target) < Larger(BandFloor, (Mag(pos) * RemainingBps) \div Bps)
    THEN OrderOf("FullClose", SideOf(pos), 0)
  ELSE OrderOf("ReducePartial", SideOf(pos), CapDelta(diff))

(* Mutant: an increase orders the whole target, not what is missing.       *)
SameSideWhole(target, pos, stopOk) ==
  LET diff == Mag(target) - Mag(pos) IN
  IF Mag(diff) <= Band
    THEN IF stopOk THEN NoOp ELSE OrderOf("ReplaceStop", SideOf(pos), 0)
  ELSE IF diff > 0
    THEN OrderOf("OpenIncrease", SideOf(pos), CapDelta(Mag(target)))
  ELSE IF Mag(target) < Larger(BandFloor, (Mag(pos) * RemainingBps) \div Bps)
    THEN OrderOf("FullClose", SideOf(pos), 0)
  ELSE OrderOf("ReducePartial", SideOf(pos), CapDelta(-diff))

(* Same side as the thumb: act outside the band only; a reduction that     *)
(* would leave dust is a full close.  What a reduction leaves is exactly   *)
(* the target, so the 97% rule looks at that.                              *)
SameSide(target, pos, stopOk) ==
  LET diff == Mag(target) - Mag(pos) IN
  IF Mag(diff) <= Band
    THEN IF stopOk THEN NoOp ELSE OrderOf("ReplaceStop", SideOf(pos), 0)
  ELSE IF diff > 0
    THEN OrderOf("OpenIncrease", SideOf(pos), CapDelta(diff))
  ELSE IF Mag(target) < Larger(BandFloor, (Mag(pos) * RemainingBps) \div Bps)
    THEN OrderOf("FullClose", SideOf(pos), 0)
  ELSE OrderOf("ReducePartial", SideOf(pos), CapDelta(-diff))

Decide(target, pos, stopOk) ==
  IF target = 0
    THEN IF pos = 0 THEN NoOp ELSE OrderOf("FullClose", SideOf(pos), 0)
  ELSE IF pos = 0
    THEN OrderOf("OpenIncrease", SideOf(target), CapDelta(Mag(target)))
  ELSE IF SideOf(target) # SideOf(pos)
    THEN OrderOf("Flip", SideOf(target), CapDelta(Mag(target)))
  ELSE SameSide(target, pos, stopOk)

(* Mutant: a flip is expected to net against the position it closes.       *)
ExpectedNetted(order, pos) ==
  IF order.kind \in {"OpenIncrease", "Flip"} THEN pos + order.side * order.usd
  ELSE IF order.kind = "ReducePartial" THEN pos - order.side * order.usd
  ELSE IF order.kind = "FullClose" THEN 0
  ELSE pos

(* The position an order leaves if it fills.                               *)
ExpectedAfter(order, pos) ==
  IF order.kind = "OpenIncrease" THEN pos + order.side * order.usd
  ELSE IF order.kind = "ReducePartial" THEN pos - order.side * order.usd
  ELSE IF order.kind = "Flip" THEN order.side * order.usd
  ELSE IF order.kind = "FullClose" THEN 0
  ELSE pos

Reached(pos, expected) == Mag(pos - expected) <= Band
SameBucket(a, b) == SideOf(a) = SideOf(b) /\ Mag(a - b) <= Band

-------------------------------------------------------------------------------
(***************************************************************************)
(* The states of the machine.  `age' is nowMicros - sinceMicros, kept up   *)
(* to the longest time any guard waits for.                                *)
(***************************************************************************)
OldestAge == Larger(Debounce, SettleTimeout)
Reasons == {"linkLost", "marketClosed", "oracleStale", "priceDivergence"}
Synced(pos) == [mode |-> "Synced", pos |-> pos]
Frozen == [mode |-> "Frozen"]
Drifting(age, target) == [mode |-> "Drifting", age |-> age, target |-> target]
Settling(age, expected, prior) ==
  [mode |-> "Settling", age |-> age, expected |-> expected, prior |-> prior]
Degraded(reason) == [mode |-> "Degraded", reason |-> reason]

FsmState ==
  [mode: {"Synced"}, pos: Int]
    \cup [mode: {"Frozen"}]
    \cup [mode: {"Drifting"}, age: 0 .. OldestAge, target: Int]
    \cup [mode: {"Settling"}, age: 0 .. OldestAge, expected: Int, prior: Int]
    \cup [mode: {"Degraded"}, reason: Reasons]

Older(age) == IF age < OldestAge THEN age + 1 ELSE age

(* Mutant: a position gone while an order settles goes unnoticed.          *)
EstablishedWhenSynced(fsm) == fsm.mode = "Synced" /\ fsm.pos # 0

(* Mutant: every order in flight counts as a position.                     *)
EstablishedWhenSettling(fsm) ==
  \/ fsm.mode = "Synced" /\ fsm.pos # 0
  \/ fsm.mode = "Settling"

(* A position this state knows to have been open.                          *)
EstablishedIn(fsm) ==
  \/ fsm.mode = "Synced" /\ fsm.pos # 0
  \/ fsm.mode = "Settling" /\ fsm.prior # 0
===============================================================================
