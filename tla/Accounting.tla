------------------------------ MODULE Accounting ------------------------------
(***************************************************************************)
(* The fixed-point accounting of a virtual perp position, as written three *)
(* times in the repository: math.rs (both program builds), accounting.dart *)
(* and accounting.ts.  Amounts, prices and exposures are integers; only    *)
(* the basis-point scale and the width of the stored integers matter, so   *)
(* both are parameters.  The i128 intermediates of the code never saturate *)
(* (a 64-bit amount times a 64-bit price fits), the i64 results may.       *)
(***************************************************************************)
EXTENDS Integers

CONSTANTS
  BpsScale,   \* 10_000 in the code: 100 % in basis points
  I64Max      \* 2^63 - 1 in the code: the largest stored signed amount

ASSUME AccountingAssumption ==
  /\ BpsScale \in Nat \ {0}
  /\ I64Max \in Nat \ {0}

I64Min == -I64Max - 1
I64 == I64Min .. I64Max

(***************************************************************************)
(* Integer helpers.  Rust, Dart and JS divide toward zero; \div rounds     *)
(* toward minus infinity.                                                  *)
(***************************************************************************)
AbsOf(x) == IF x >= 0 THEN x ELSE -x
SignOf(x) == IF x > 0 THEN 1 ELSE IF x < 0 THEN -1 ELSE 0
TruncDiv(a, b) == IF a >= 0 THEN a \div b ELSE -((-a) \div b)
Sat(x) == IF x > I64Max THEN I64Max ELSE IF x < I64Min THEN I64Min ELSE x

(***************************************************************************)
(* The money quantities of a ride.                                         *)
(***************************************************************************)
UnrealizedPnl(notional, vwap, mark) ==
  IF vwap = 0 \/ notional = 0 THEN 0
  ELSE Sat(TruncDiv(notional * (mark - vwap), vwap))

EffectiveCollateral(fuel, realized) ==
  IF fuel + realized < 0 THEN 0 ELSE Sat(fuel + realized)

EffectiveEquity(fuel, realized, unrealized) == Sat(fuel + realized + unrealized)

(* Signed notional asked for by an exposure of `exp' basis points.         *)
TargetNotional(collateral, lev, exp) ==
  IF collateral <= 0 \/ exp = 0 \/ lev = 0 THEN 0
  ELSE Sat(TruncDiv(((collateral * lev) \div BpsScale) * exp, BpsScale))

(* The inverse, for display: the code's clamp to i32 is not reached while  *)
(* the notional stays within the leverage cap.                             *)
NotionalToBps(notional, collateral, lev) ==
  IF collateral <= 0 \/ lev = 0 THEN 0
  ELSE TruncDiv(notional * BpsScale * BpsScale, collateral * lev)

(***************************************************************************)
(* Moving a position of `cur' entered at `vwap' to `target' at price       *)
(* `mark'.                                                                 *)
(***************************************************************************)
RealizeClose(ref, vwap, mark, closed) ==
  IF vwap = 0 \/ closed = 0 THEN 0
  ELSE Sat(TruncDiv(closed * (mark - vwap), vwap) * SignOf(ref))

(* Mutant: each amount is weighted with the other's price.                 *)
WeightedVwapCrossed(a0, p0, a1, p1) == (a0 * p1 + a1 * p0) \div (a0 + a1)

WeightedVwap(a0, p0, a1, p1) == (a0 * p0 + a1 * p1) \div (a0 + a1)

Settle(notional, vwap, realized) ==
  [notional |-> notional, vwap |-> vwap, realized |-> realized]

CloseAll(cur, vwap, mark) == RealizeClose(cur, vwap, mark, Sat(AbsOf(cur)))

(* Mutant: a reduction books the profit of the whole position.             *)
ResizeBooksAll(cur, vwap, target, mark) ==
  LET added == AbsOf(target) - AbsOf(cur) IN
  IF added > 0
  THEN Settle(target, WeightedVwap(AbsOf(cur), vwap, added, mark), 0)
  ELSE Settle(target, vwap, CloseAll(cur, vwap, mark))

Resize(cur, vwap, target, mark) ==
  LET added == AbsOf(target) - AbsOf(cur) IN
  IF added > 0
  THEN Settle(target, WeightedVwap(AbsOf(cur), vwap, added, mark), 0)
  ELSE Settle(target, vwap, RealizeClose(cur, vwap, mark, Sat(-added)))

(* Mutant: a close leaves the entry price of the position behind.          *)
SettleKeepsEntry(cur, vwap, target, mark) ==
  IF mark = 0 THEN Settle(cur, vwap, 0)
  ELSE IF cur = 0 THEN Settle(target, IF target = 0 THEN 0 ELSE mark, 0)
  ELSE IF target = 0 THEN Settle(0, vwap, CloseAll(cur, vwap, mark))
  ELSE IF SignOf(target) = SignOf(cur) THEN Resize(cur, vwap, target, mark)
  ELSE Settle(target, mark, CloseAll(cur, vwap, mark))

SettleToTarget(cur, vwap, target, mark) ==
  IF mark = 0 THEN Settle(cur, vwap, 0)
  ELSE IF cur = 0 THEN Settle(target, IF target = 0 THEN 0 ELSE mark, 0)
  ELSE IF target = 0 THEN Settle(0, 0, CloseAll(cur, vwap, mark))
  ELSE IF SignOf(target) = SignOf(cur) THEN Resize(cur, vwap, target, mark)
  ELSE Settle(target, mark, CloseAll(cur, vwap, mark))

(***************************************************************************)
(* The floor predicates, shared by the program's tick and the guardian.    *)
(***************************************************************************)
Equity(fuel, realized, notional, vwap, mark) ==
  EffectiveEquity(fuel, realized, UnrealizedPnl(notional, vwap, mark))

Breached(equity, floor) == equity <= floor
Bankrupt(equity) == equity <= 0
===============================================================================
