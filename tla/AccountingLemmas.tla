--------------------------- MODULE AccountingLemmas ---------------------------
(***************************************************************************)
(* Facts about the accounting operators for every scale and width, cited   *)
(* by the proofs about the ride that uses them.                            *)
(***************************************************************************)
EXTENDS Accounting, TLAPS

(* sat_i64 lands in the stored range and never moves away from zero.       *)
LEMMA SatRange ==
  ASSUME NEW x \in Int
  PROVE  Sat(x) \in I64 /\ AbsOf(Sat(x)) <= AbsOf(x)
BY AccountingAssumption DEF Sat, I64, I64Min, AbsOf

(* Truncating division: an integer whose magnitude the divisor bounds.     *)
LEMMA TruncDivBound ==
  ASSUME NEW a \in Int, NEW b \in Nat \ {0}
  PROVE  /\ TruncDiv(a, b) \in Int
         /\ AbsOf(TruncDiv(a, b)) * b <= AbsOf(a)
<1>1. CASE a >= 0
  <2>1. a \div b \in Nat /\ (a \div b) * b <= a
    BY <1>1
  <2> QED BY <1>1, <2>1 DEF TruncDiv, AbsOf
<1>2. CASE ~(a >= 0)
  <2>1. (-a) \div b \in Nat /\ ((-a) \div b) * b <= -a
    BY <1>2
  <2> QED BY <1>2, <2>1 DEF TruncDiv, AbsOf
<1> QED BY <1>1, <1>2

(* A quotient is at most q when the dividend is at most q times the        *)
(* divisor.                                                                *)
LEMMA TruncDivAtMost ==
  ASSUME NEW a \in Int, NEW b \in Nat \ {0}, NEW q \in Nat, AbsOf(a) <= q * b
  PROVE  AbsOf(TruncDiv(a, b)) <= q
<1> DEFINE t == AbsOf(TruncDiv(a, b))
<1>1. TruncDiv(a, b) \in Int /\ t * b <= AbsOf(a)
  BY TruncDivBound
<1>2. t \in Nat /\ AbsOf(a) \in Nat
  BY <1>1 DEF AbsOf
<1> HIDE DEF t
<1>3. t * b <= q * b
  BY <1>1, <1>2
<1>4. t <= q
  BY <1>2, <1>3
<1> QED BY <1>4 DEF t

(* The magnitude of a product.                                             *)
LEMMA AbsProduct ==
  ASSUME NEW a \in Nat, NEW e \in Int
  PROVE  AbsOf(a * e) = a * AbsOf(e)
<1>1. CASE e >= 0
  <2>1. a * e >= 0
    BY <1>1
  <2> QED BY <1>1, <2>1 DEF AbsOf
<1>2. CASE ~(e >= 0)
  <2>1. a * (-e) >= 0 /\ a * (-e) = -(a * e)
    BY <1>2
  <2>2. a * e \in Int
    OBVIOUS
  <2> QED BY <1>2, <2>1, <2>2 DEF AbsOf
<1> QED BY <1>1, <1>2

(* A magnitude is natural.                                                 *)
LEMMA AbsType ==
  ASSUME NEW x \in Int
  PROVE  AbsOf(x) \in Nat
BY DEF AbsOf

(* Collateral is never negative.                                           *)
LEMMA CollateralType ==
  ASSUME NEW fuel \in Nat, NEW realized \in Int
  PROVE  EffectiveCollateral(fuel, realized) \in Nat
BY AccountingAssumption DEF EffectiveCollateral, Sat, I64Min

(* Unrealized profit is a saturated amount.                                *)
LEMMA UnrealizedType ==
  ASSUME NEW n \in Int, NEW v \in Nat, NEW m \in Nat
  PROVE  UnrealizedPnl(n, v, m) \in I64
<1>1. CASE v = 0 \/ n = 0
  BY <1>1, AccountingAssumption DEF UnrealizedPnl, I64, I64Min
<1>2. CASE ~(v = 0 \/ n = 0)
  <2>1. n * (m - v) \in Int /\ v \in Nat \ {0}
    BY <1>2
  <2>2. TruncDiv(n * (m - v), v) \in Int
    BY <2>1, TruncDivBound
  <2> QED BY <1>2, <2>2, SatRange DEF UnrealizedPnl
<1> QED BY <1>1, <1>2

(* Equity is an integer.                                                   *)
LEMMA EquityType ==
  ASSUME NEW fuel \in Nat, NEW realized \in Int, NEW n \in Int, NEW v \in Nat,
         NEW m \in Nat
  PROVE  Equity(fuel, realized, n, v, m) \in Int
<1>1. UnrealizedPnl(n, v, m) \in Int
  BY UnrealizedType, AccountingAssumption DEF I64, I64Min
<1>2. fuel + realized + UnrealizedPnl(n, v, m) \in Int
  BY <1>1
<1> QED BY <1>2, SatRange, AccountingAssumption
        DEF Equity, EffectiveEquity, I64, I64Min

(* target_notional_6 never asks for more than collateral times leverage.   *)
LEMMA TargetWithinCap ==
  ASSUME NEW coll \in Nat, NEW lev \in Nat, NEW exp \in -BpsScale .. BpsScale
  PROVE  /\ TargetNotional(coll, lev, exp) \in I64
         /\ AbsOf(TargetNotional(coll, lev, exp)) * BpsScale <= coll * lev
<1> DEFINE k == (coll * lev) \div BpsScale
           t == TruncDiv(k * exp, BpsScale)
<1>1. BpsScale \in Nat \ {0}
  BY AccountingAssumption
<1>2. coll * lev \in Nat
  OBVIOUS
<1>3. k \in Nat /\ k * BpsScale <= coll * lev
  BY <1>1, <1>2
<1>4. CASE coll <= 0 \/ exp = 0 \/ lev = 0
  <2>1. TargetNotional(coll, lev, exp) = 0
    BY <1>4 DEF TargetNotional
  <2> QED BY <2>1, <1>1, <1>2, AccountingAssumption DEF AbsOf, I64, I64Min
<1>5. CASE ~(coll <= 0 \/ exp = 0 \/ lev = 0)
  <2>1. TargetNotional(coll, lev, exp) = Sat(t)
    BY <1>5 DEF TargetNotional
  <2>2. k * exp \in Int
    BY <1>1, <1>3
  <2>3. AbsOf(k * exp) <= k * BpsScale
    <3>1. exp \in Int /\ AbsOf(exp) \in Nat /\ AbsOf(exp) <= BpsScale
      BY <1>1 DEF AbsOf
    <3> HIDE DEF k
    <3>2. AbsOf(k * exp) = k * AbsOf(exp)
      BY <3>1, <1>3, AbsProduct
    <3>3. k * AbsOf(exp) <= k * BpsScale
      BY <3>1, <1>1, <1>3
    <3> QED BY <3>2, <3>3
  <2>4. t \in Int /\ AbsOf(t) <= k
    BY <2>2, <2>3, <1>1, <1>3, TruncDivBound, TruncDivAtMost
  <2>5. Sat(t) \in I64 /\ AbsOf(Sat(t)) <= k
    BY <2>4, SatRange, <1>3, AccountingAssumption DEF AbsOf, I64, I64Min
  <2>6. AbsOf(Sat(t)) \in Nat
    BY <2>5, AccountingAssumption DEF AbsOf, I64, I64Min
  <2>7. AbsOf(Sat(t)) * BpsScale <= k * BpsScale
    BY <2>5, <2>6, <1>1, <1>3
  <2> QED BY <2>1, <2>5, <2>6, <2>7, <1>1, <1>2, <1>3
<1> QED BY <1>4, <1>5

(* A notional inside the leverage cap shows as at most full scale.         *)
LEMMA NeedleBound ==
  ASSUME NEW n \in Int, NEW coll \in Nat, NEW lev \in Nat,
         AbsOf(n) * BpsScale <= coll * lev
  PROVE  NotionalToBps(n, coll, lev) \in -BpsScale .. BpsScale
<1> DEFINE d == coll * lev
           a == n * BpsScale * BpsScale
<1>1. BpsScale \in Nat \ {0}
  BY AccountingAssumption
<1>2. CASE coll <= 0 \/ lev = 0
  BY <1>1, <1>2 DEF NotionalToBps
<1>3. CASE ~(coll <= 0 \/ lev = 0)
  <2>1. d \in Nat \ {0}
    BY <1>3
  <2>2. a \in Int
    BY <1>1
  <2>3. AbsOf(a) <= BpsScale * d
    <3>1. BpsScale * BpsScale \in Nat /\ a = (BpsScale * BpsScale) * n
      BY <1>1
    <3>2. AbsOf(a) = (BpsScale * BpsScale) * AbsOf(n)
      BY <3>1, AbsProduct
    <3>3. AbsOf(n) \in Nat
      BY DEF AbsOf
    <3>4. (BpsScale * BpsScale) * AbsOf(n) = BpsScale * (AbsOf(n) * BpsScale)
      BY <3>3, <1>1
    <3>5. BpsScale * (AbsOf(n) * BpsScale) <= BpsScale * d
      BY <3>3, <1>1, <2>1
    <3> QED BY <3>2, <3>4, <3>5
  <2>4. TruncDiv(a, d) \in Int /\ AbsOf(TruncDiv(a, d)) <= BpsScale
    BY <2>1, <2>2, <2>3, <1>1, TruncDivBound, TruncDivAtMost
  <2> QED BY <2>4, <1>1, <1>3 DEF NotionalToBps, AbsOf
<1> QED BY <1>2, <1>3

(* Blending two prices gives a price.                                      *)
LEMMA WeightedVwapPositive ==
  ASSUME NEW a0 \in Nat \ {0}, NEW p0 \in Nat \ {0},
         NEW a1 \in Nat \ {0}, NEW p1 \in Nat \ {0}
  PROVE  WeightedVwap(a0, p0, a1, p1) \in Nat \ {0}
<1>1. a0 * p0 \in Nat /\ a0 * p0 >= a0
  OBVIOUS
<1>2. a1 * p1 \in Nat /\ a1 * p1 >= a1
  OBVIOUS
<1>3. a0 * p0 + a1 * p1 \in Nat /\ a0 * p0 + a1 * p1 >= a0 + a1
  BY <1>1, <1>2
<1> DEFINE s == a0 * p0 + a1 * p1
           w == a0 + a1
<1>4. s \in Nat /\ w \in Nat \ {0} /\ s >= w
  BY <1>3
<1> HIDE DEF s, w
<1>5. s \div w \in Nat \ {0}
  BY <1>4
<1> QED BY <1>5 DEF WeightedVwap, s, w

(* So is what closing a part books.                                        *)
LEMMA RealizeType ==
  ASSUME NEW ref \in Int, NEW v \in Nat, NEW m \in Nat, NEW c \in Int
  PROVE  RealizeClose(ref, v, m, c) \in I64
<1>1. CASE v = 0 \/ c = 0
  BY <1>1, AccountingAssumption DEF RealizeClose, I64, I64Min
<1>2. CASE ~(v = 0 \/ c = 0)
  <2>1. c * (m - v) \in Int /\ v \in Nat \ {0}
    BY <1>2
  <2>2. TruncDiv(c * (m - v), v) \in Int
    BY <2>1, TruncDivBound
  <2>3. TruncDiv(c * (m - v), v) * SignOf(ref) \in Int
    BY <2>2 DEF SignOf
  <2> QED BY <1>2, <2>3, SatRange DEF RealizeClose
<1> QED BY <1>1, <1>2

(* And what a full close books.                                            *)
LEMMA CloseAllType ==
  ASSUME NEW cur \in Int, NEW v \in Nat, NEW m \in Nat
  PROVE  CloseAll(cur, v, m) \in I64
<1>1. AbsOf(cur) \in Int
  BY DEF AbsOf
<1>2. Sat(AbsOf(cur)) \in Int
  BY <1>1, SatRange, AccountingAssumption DEF I64, I64Min
<1> QED BY <1>2, RealizeType DEF CloseAll

(* Resizing on the same side keeps a real entry price.                     *)
LEMMA ResizeReachesTarget ==
  ASSUME NEW cur \in Int, NEW tgt \in Int, NEW v \in Nat \ {0},
         NEW m \in Nat \ {0}, cur # 0
  PROVE  LET s == Resize(cur, v, tgt, m) IN
         s.notional = tgt /\ s.vwap \in Nat \ {0} /\ s.realized \in I64
<1> DEFINE added == AbsOf(tgt) - AbsOf(cur)
<1>1. added \in Int /\ AbsOf(cur) \in Nat \ {0}
  BY DEF AbsOf
<1>2. CASE added > 0
  <2>1. Resize(cur, v, tgt, m)
          = Settle(tgt, WeightedVwap(AbsOf(cur), v, added, m), 0)
    BY <1>2 DEF Resize
  <2>2. WeightedVwap(AbsOf(cur), v, added, m) \in Nat \ {0}
    BY <1>1, <1>2, WeightedVwapPositive
  <2> QED BY <2>1, <2>2, AccountingAssumption DEF Settle, I64, I64Min
<1>3. CASE ~(added > 0)
  <2>1. Resize(cur, v, tgt, m)
          = Settle(tgt, v, RealizeClose(cur, v, m, Sat(-added)))
    BY <1>3 DEF Resize
  <2>2. Sat(-added) \in Int
    BY <1>1, SatRange, AccountingAssumption DEF I64, I64Min
  <2>3. RealizeClose(cur, v, m, Sat(-added)) \in I64
    BY <2>2, RealizeType
  <2> QED BY <2>1, <2>3 DEF Settle
<1> QED BY <1>2, <1>3

(* settle_to_target at a usable price reaches its target exactly, and      *)
(* keeps the entry price in step with the position.                        *)
LEMMA SettleReachesTarget ==
  ASSUME NEW cur \in I64, NEW v \in Nat, NEW tgt \in I64,
         NEW m \in Nat \ {0}, v = 0 <=> cur = 0
  PROVE  LET s == SettleToTarget(cur, v, tgt, m) IN
         /\ s.notional = tgt
         /\ s.vwap \in Nat
         /\ s.vwap = 0 <=> s.notional = 0
         /\ s.realized \in I64
<1> DEFINE s == SettleToTarget(cur, v, tgt, m)
<1>0. I64 \subseteq Int /\ 0 \in I64
  BY AccountingAssumption DEF I64, I64Min
<1>1. CASE cur = 0
  <2>1. s = Settle(tgt, IF tgt = 0 THEN 0 ELSE m, 0)
    BY <1>1 DEF SettleToTarget
  <2> QED BY <2>1, <1>0 DEF Settle
<1>2. CASE cur # 0 /\ tgt = 0
  <2>1. s = Settle(0, 0, CloseAll(cur, v, m))
    BY <1>2 DEF SettleToTarget
  <2> QED BY <2>1, <1>2, <1>0, CloseAllType DEF Settle
<1>3. CASE cur # 0 /\ tgt # 0 /\ SignOf(tgt) = SignOf(cur)
  <2>1. s = Resize(cur, v, tgt, m)
    BY <1>3 DEF SettleToTarget
  <2> QED BY <2>1, <1>3, <1>0, ResizeReachesTarget
<1>4. CASE cur # 0 /\ tgt # 0 /\ SignOf(tgt) # SignOf(cur)
  <2>1. s = Settle(tgt, m, CloseAll(cur, v, m))
    BY <1>4 DEF SettleToTarget
  <2> QED BY <2>1, <1>4, <1>0, CloseAllType DEF Settle
<1> QED BY <1>1, <1>2, <1>3, <1>4
(* A positive factor on both sides can be dropped.                         *)
LEMMA DropFactor ==
  ASSUME NEW x \in Int, NEW y \in Int, NEW b \in Nat \ {0}, x * b < y * b
  PROVE  x < y
<1> SUFFICES ASSUME y <= x
             PROVE  FALSE
  OBVIOUS
<1>0. x - y \in Nat
  OBVIOUS
<1>1. (x - y) * b \in Nat
  BY <1>0
<1>2. (x - y) * b = x * b - y * b
  OBVIOUS
<1> QED BY <1>1, <1>2

(* Dividing two dividends apart loses at most one against dividing their   *)
(* sum.                                                                    *)
LEMMA DivSum ==
  ASSUME NEW a \in Nat, NEW c \in Nat, NEW b \in Nat \ {0}
  PROVE  /\ a \div b \in Nat /\ c \div b \in Nat /\ (a + c) \div b \in Nat
         /\ a \div b + c \div b <= (a + c) \div b
         /\ (a + c) \div b <= a \div b + c \div b + 1
<1> DEFINE x == a \div b
           y == c \div b
           z == (a + c) \div b
<1>1. x \in Nat /\ y \in Nat /\ z \in Nat
  OBVIOUS
<1>2. /\ x * b <= a /\ a < x * b + b
      /\ y * b <= c /\ c < y * b + b
      /\ z * b <= a + c /\ a + c < z * b + b
  OBVIOUS
<1> HIDE DEF x, y, z
<1>3. /\ (x + y) * b = x * b + y * b /\ (z + 1) * b = z * b + b
      /\ (x + y + 2) * b = x * b + y * b + b + b
  BY <1>1
<1>4. /\ x * b \in Int /\ y * b \in Int /\ z * b \in Int
  BY <1>1
<1>5. (x + y) * b < (z + 1) * b
  BY <1>2, <1>3, <1>4
<1>6. z * b < (x + y + 2) * b
  BY <1>2, <1>3, <1>4
<1>7. x + y < z + 1 /\ z < x + y + 2
  BY <1>1, <1>5, <1>6, DropFactor
<1> QED BY <1>1, <1>7 DEF x, y, z

(* Truncating division is odd.                                             *)
LEMMA TruncDivOdd ==
  ASSUME NEW a \in Int, NEW b \in Nat \ {0}
  PROVE  TruncDiv(-a, b) = -TruncDiv(a, b)
<1>1. CASE a = 0
  <2> DEFINE q == 0 \div b
  <2>1. q \in Nat /\ q + q <= (0 + 0) \div b
    BY DivSum
  <2>2. 0 + 0 = 0
    OBVIOUS
  <2>3. q \in Nat /\ q + q <= q
    BY <2>1, <2>2
  <2> HIDE DEF q
  <2>4. q = 0 /\ -q = q
    BY <2>3
  <2> QED BY <1>1, <2>4 DEF TruncDiv, q
<1>2. CASE a > 0
  <2>1. -(-a) = a /\ ~(-a >= 0) /\ a >= 0
    BY <1>2
  <2> QED BY <2>1 DEF TruncDiv
<1>3. CASE a < 0
  <2>1. -a >= 0 /\ ~(a >= 0) /\ (-a) \div b \in Int
    BY <1>3
  <2>2. -(-((-a) \div b)) = (-a) \div b
    BY <2>1
  <2> QED BY <2>1, <2>2 DEF TruncDiv
<1> QED BY <1>1, <1>2, <1>3

(* Two amounts on one side of zero, divided apart or together: the parts   *)
(* lie between zero and the whole and miss it by one at most.              *)
LEMMA TruncDivSplit ==
  ASSUME NEW a \in Int, NEW c \in Int, NEW b \in Nat \ {0},
         (a >= 0 /\ c >= 0) \/ (a <= 0 /\ c <= 0)
  PROVE  LET x == TruncDiv(a, b)
             y == TruncDiv(c, b)
             z == TruncDiv(a + c, b)
         IN /\ x \in Int /\ y \in Int /\ z \in Int
            /\ \/ 0 <= x /\ 0 <= y /\ x + y <= z /\ z <= x + y + 1
               \/ x <= 0 /\ y <= 0 /\ z <= x + y /\ x + y <= z + 1
<1>1. ASSUME NEW i \in Nat, NEW j \in Nat
      PROVE  /\ TruncDiv(i, b) \in Nat /\ TruncDiv(j, b) \in Nat
             /\ TruncDiv(i + j, b) \in Nat
             /\ TruncDiv(i, b) + TruncDiv(j, b) <= TruncDiv(i + j, b)
             /\ TruncDiv(i + j, b) <= TruncDiv(i, b) + TruncDiv(j, b) + 1
  <2>1. TruncDiv(i, b) = i \div b /\ TruncDiv(j, b) = j \div b
    BY DEF TruncDiv
  <2>2. TruncDiv(i + j, b) = (i + j) \div b
    <3>1. i + j >= 0
      OBVIOUS
    <3> QED BY <3>1 DEF TruncDiv
  <2> QED BY <2>1, <2>2, DivSum
<1>2. CASE a >= 0 /\ c >= 0
  BY <1>1, <1>2
<1>3. CASE a <= 0 /\ c <= 0
  <2>1. -a \in Nat /\ -c \in Nat /\ -a + -c = -(a + c)
    BY <1>3
  <2>2. /\ TruncDiv(a, b) \in Int /\ TruncDiv(c, b) \in Int
        /\ TruncDiv(a + c, b) \in Int
    BY TruncDivBound
  <2>3. /\ TruncDiv(-a, b) = -TruncDiv(a, b)
        /\ TruncDiv(-c, b) = -TruncDiv(c, b)
        /\ TruncDiv(-(a + c), b) = -TruncDiv(a + c, b)
    BY TruncDivOdd
  <2>4. /\ TruncDiv(-a, b) \in Nat /\ TruncDiv(-c, b) \in Nat
        /\ TruncDiv(-a, b) + TruncDiv(-c, b) <= TruncDiv(-(a + c), b)
        /\ TruncDiv(-(a + c), b) <= TruncDiv(-a, b) + TruncDiv(-c, b) + 1
    BY <1>1, <2>1
  <2> QED BY <2>2, <2>3, <2>4
<1> QED BY <1>2, <1>3
(***************************************************************************)
(* Moving a position without adding to it.  `whole' is the profit it shows *)
(* before the move, exactly.                                               *)
(***************************************************************************)
Whole(cur, v, m) == TruncDiv(cur * (m - v), v)

(* Fits: the profit shown is not clamped, and banking it would not be.     *)
Fits(cur, v, m, banked) ==
  /\ AbsOf(cur) <= I64Max
  /\ Whole(cur, v, m) \in I64 /\ banked + Whole(cur, v, m) \in I64

(* What fits is left alone by the saturation.                              *)
LEMMA SatInside ==
  ASSUME NEW x \in I64
  PROVE  Sat(x) = x
BY AccountingAssumption DEF Sat, I64, I64Min

(* Closing everything banks exactly the profit shown.                      *)
LEMMA CloseAllBooks ==
  ASSUME NEW cur \in Int, NEW v \in Nat \ {0}, NEW m \in Nat,
         cur # 0, AbsOf(cur) <= I64Max, Whole(cur, v, m) \in I64
  PROVE  /\ CloseAll(cur, v, m) = Whole(cur, v, m)
         /\ UnrealizedPnl(cur, v, m) = Whole(cur, v, m)
<1>1. AbsOf(cur) \in I64 /\ AbsOf(cur) # 0
  BY AccountingAssumption DEF AbsOf, I64, I64Min
<1>2. CloseAll(cur, v, m) = Sat(TruncDiv(AbsOf(cur) * (m - v), v) * SignOf(cur))
  BY <1>1, SatInside DEF CloseAll, RealizeClose
<1>3. cur * (m - v) \in Int /\ TruncDiv(cur * (m - v), v) \in Int
  BY TruncDivBound
<1>4. TruncDiv(AbsOf(cur) * (m - v), v) * SignOf(cur) = Whole(cur, v, m)
  <2>1. CASE cur > 0
    BY <2>1, <1>3 DEF AbsOf, SignOf, Whole
  <2>2. CASE cur < 0
    <3>1. AbsOf(cur) * (m - v) = -(cur * (m - v)) /\ SignOf(cur) = -1
      BY <2>2 DEF AbsOf, SignOf
    <3>2. TruncDiv(-(cur * (m - v)), v) = -TruncDiv(cur * (m - v), v)
      BY <1>3, TruncDivOdd
    <3>3. (-TruncDiv(cur * (m - v), v)) * (-1) = TruncDiv(cur * (m - v), v)
      BY <1>3
    <3> QED BY <3>1, <3>2, <3>3 DEF Whole
  <2> QED BY <2>1, <2>2
<1>5. CloseAll(cur, v, m) = Whole(cur, v, m)
  BY <1>2, <1>4, SatInside
<1>6. UnrealizedPnl(cur, v, m) = Whole(cur, v, m)
  BY SatInside DEF UnrealizedPnl, Whole
<1> QED BY <1>5, <1>6

(* A part that is closed banks its share of the profit, up to rounding,    *)
(* and neither what is banked nor what is still shown is clamped.          *)
LEMMA ReduceBooks ==
  ASSUME NEW cur \in Int, NEW tgt \in Int, NEW v \in Nat \ {0},
         NEW m \in Nat, NEW banked \in I64,
         cur # 0, tgt # 0, SignOf(tgt) = SignOf(cur),
         AbsOf(tgt) <= AbsOf(cur), Fits(cur, v, m, banked)
  PROVE  LET s == Resize(cur, v, tgt, m)
             whole == Whole(cur, v, m)
             after == Sat(banked + s.realized) + UnrealizedPnl(tgt, s.vwap, m)
         IN after - (banked + whole) \in -1 .. 1
<1> DEFINE closed == AbsOf(cur) - AbsOf(tgt)
           part == Whole(cur - tgt, v, m)
           rest == Whole(tgt, v, m)
           whole == Whole(cur, v, m)
<1>1. closed \in Nat /\ closed <= I64Max /\ closed \in I64
  BY AccountingAssumption DEF AbsOf, Fits, I64, I64Min
<1>2. m - v \in Int /\ cur - tgt \in Int
  OBVIOUS
<1>3. /\ part \in Int /\ rest \in Int /\ whole \in Int
      /\ \/ 0 <= part /\ 0 <= rest /\ part + rest <= whole /\ whole <= part + rest + 1
         \/ part <= 0 /\ rest <= 0 /\ whole <= part + rest /\ part + rest <= whole + 1
  <2>1. /\ (cur - tgt) * (m - v) \in Int /\ tgt * (m - v) \in Int
        /\ (cur - tgt) * (m - v) + tgt * (m - v) = cur * (m - v)
    BY <1>2
  <2>2. \/ cur - tgt >= 0 /\ tgt >= 0
        \/ cur - tgt <= 0 /\ tgt <= 0
    BY DEF AbsOf, SignOf
  <2>3. \/ (cur - tgt) * (m - v) >= 0 /\ tgt * (m - v) >= 0
        \/ (cur - tgt) * (m - v) <= 0 /\ tgt * (m - v) <= 0
    BY <1>2, <2>2
  <2> QED BY <2>1, <2>3, TruncDivSplit DEF Whole
<1>4. part \in I64 /\ rest \in I64 /\ banked + part \in I64
  <2>1. banked \in Int /\ whole \in I64 /\ banked + whole \in I64
    BY AccountingAssumption DEF Fits, I64, I64Min
  <2> HIDE DEF part, rest, whole
  <2> QED BY <1>3, <2>1, AccountingAssumption DEF I64, I64Min
<1>5. RealizeClose(cur, v, m, Sat(closed)) = part
  <2>1. CASE closed = 0
    <3>1. cur - tgt = 0 /\ 0 * (m - v) = 0 /\ TruncDiv(0, v) = 0
      BY <2>1, <1>2 DEF AbsOf, SignOf, TruncDiv
    <3> QED BY <3>1, <2>1, <1>1, SatInside DEF RealizeClose, Whole
  <2>2. CASE closed # 0
    <3>1. RealizeClose(cur, v, m, Sat(closed))
            = Sat(TruncDiv(closed * (m - v), v) * SignOf(cur))
      BY <2>2, <1>1, SatInside DEF RealizeClose
    <3>2. closed * (m - v) \in Int /\ (cur - tgt) * (m - v) \in Int
      BY <1>1, <1>2
    <3>3. TruncDiv(closed * (m - v), v) * SignOf(cur) = part
      <4>1. CASE cur > 0
        <5>1. closed = cur - tgt /\ SignOf(cur) = 1
          BY <4>1 DEF AbsOf, SignOf
        <5> QED BY <5>1, <1>3 DEF Whole
      <4>2. CASE cur < 0
        <5>1. closed = -(cur - tgt) /\ SignOf(cur) = -1
          BY <4>2 DEF AbsOf, SignOf
        <5>2. closed * (m - v) = -((cur - tgt) * (m - v))
          BY <5>1, <1>2
        <5>3. TruncDiv(-((cur - tgt) * (m - v)), v)
                = -TruncDiv((cur - tgt) * (m - v), v)
          BY <3>2, TruncDivOdd
        <5>4. TruncDiv(closed * (m - v), v) = -part
          BY <5>2, <5>3 DEF Whole
        <5> HIDE DEF part
        <5>5. (-part) * (-1) = part
          BY <1>3
        <5> QED BY <5>1, <5>4, <5>5
      <4> QED BY <4>1, <4>2
    <3> QED BY <3>1, <3>3, <1>4, SatInside
  <2> QED BY <2>1, <2>2
<1>6. Resize(cur, v, tgt, m) = Settle(tgt, v, part)
  <2>1. ~(AbsOf(tgt) - AbsOf(cur) > 0) /\ -(AbsOf(tgt) - AbsOf(cur)) = closed
    BY DEF AbsOf
  <2> QED BY <2>1, <1>5 DEF Resize
<1>7. UnrealizedPnl(tgt, v, m) = rest /\ Sat(banked + part) = banked + part
  BY <1>4, SatInside DEF UnrealizedPnl, Whole
<1>8. banked \in Int
  BY AccountingAssumption DEF I64, I64Min
<1>9. (banked + part + rest) - (banked + whole) \in -1 .. 1
  <2> HIDE DEF part, rest, whole
  <2> QED BY <1>3, <1>8
<1> QED BY <1>6, <1>7, <1>9 DEF Settle
(* settle_to_target at a usable price, whatever it does but adding to the  *)
(* position: what is banked and what is still shown add up to what they    *)
(* were, up to one unit of rounding.                                       *)
LEMMA SettleConserves ==
  ASSUME NEW cur \in I64, NEW v \in Nat, NEW tgt \in I64,
         NEW m \in Nat \ {0}, NEW banked \in I64, v = 0 <=> cur = 0,
         \/ cur = 0 \/ SignOf(tgt) # SignOf(cur)
         \/ ~(AbsOf(tgt) > AbsOf(cur)),
         cur # 0 => Fits(cur, v, m, banked)
  PROVE  LET s == SettleToTarget(cur, v, tgt, m) IN
         (Sat(banked + s.realized) + UnrealizedPnl(s.notional, s.vwap, m))
           - (banked + UnrealizedPnl(cur, v, m)) \in -1 .. 1
<1> DEFINE s == SettleToTarget(cur, v, tgt, m)
           whole == Whole(cur, v, m)
<1>0. I64 \subseteq Int /\ 0 \in I64 /\ banked \in Int
  BY AccountingAssumption DEF I64, I64Min
<1>1. UnrealizedPnl(tgt, m, m) = 0 /\ UnrealizedPnl(0, 0, m) = 0
  <2>1. TruncDiv(0, m) = 0
    <3>1. TruncDiv(0, m) \in Int /\ AbsOf(TruncDiv(0, m)) * m <= AbsOf(0)
      BY TruncDivBound
    <3>2. AbsOf(TruncDiv(0, m)) <= 0
      BY TruncDivAtMost DEF AbsOf
    <3> QED BY <3>1, <3>2 DEF AbsOf
  <2>2. tgt * (m - m) = 0
    BY <1>0
  <2> QED BY <2>1, <2>2, <1>0, SatInside DEF UnrealizedPnl
<1>2. CASE cur = 0
  <2>1. s = Settle(tgt, IF tgt = 0 THEN 0 ELSE m, 0)
    BY <1>2 DEF SettleToTarget
  <2>2. UnrealizedPnl(s.notional, s.vwap, m) = 0 /\ UnrealizedPnl(cur, v, m) = 0
    BY <2>1, <1>1, <1>2 DEF Settle, UnrealizedPnl
  <2>3. Sat(banked + s.realized) = banked
    BY <2>1, <1>0, SatInside DEF Settle
  <2> QED BY <2>2, <2>3, <1>0
<1>3. CASE cur # 0
  <2>0. /\ v \in Nat \ {0} /\ cur \in Int /\ tgt \in Int
        /\ Fits(cur, v, m, banked)
    BY <1>3, <1>0
  <2>1. /\ CloseAll(cur, v, m) = whole /\ UnrealizedPnl(cur, v, m) = whole
        /\ whole \in Int /\ Sat(banked + whole) = banked + whole
    BY <2>0, <1>0, <1>3, CloseAllBooks, SatInside DEF Fits
  <2>2. CASE tgt = 0 \/ SignOf(tgt) # SignOf(cur)
    <3>1. s = Settle(tgt, IF tgt = 0 THEN 0 ELSE m, whole)
      BY <1>3, <2>1, <2>2 DEF SettleToTarget
    <3>2. UnrealizedPnl(s.notional, s.vwap, m) = 0 /\ s.realized = whole
      BY <3>1, <1>1 DEF Settle
    <3>3. (Sat(banked + s.realized) + UnrealizedPnl(s.notional, s.vwap, m))
             - (banked + UnrealizedPnl(cur, v, m)) = 0
      <4> HIDE DEF s, whole
      <4> QED BY <3>2, <2>1, <1>0
    <3> QED BY <3>3
  <2>3. CASE tgt # 0 /\ SignOf(tgt) = SignOf(cur)
    <3>1. s = Resize(cur, v, tgt, m) /\ s.notional = tgt
      BY <1>3, <2>3, <2>0, SettleReachesTarget DEF SettleToTarget
    <3>2. AbsOf(tgt) <= AbsOf(cur)
      <4>1. AbsOf(tgt) \in Int /\ AbsOf(cur) \in Int
        BY <2>0, AbsType
      <4>2. ~(AbsOf(tgt) > AbsOf(cur))
        BY <1>3, <2>3
      <4> QED BY <4>1, <4>2
    <3>3. LET r == Resize(cur, v, tgt, m) IN
          (Sat(banked + r.realized) + UnrealizedPnl(tgt, r.vwap, m))
             - (banked + whole) \in -1 .. 1
      BY <3>2, <2>0, <2>3, <1>3, ReduceBooks
    <3> QED BY <3>1, <3>3, <2>1
  <2> QED BY <2>2, <2>3
<1> QED BY <1>2, <1>3
(***************************************************************************)
(* Adding to a position.                                                   *)
(***************************************************************************)
(* A quotient below another one by rationals, give or take one, is below   *)
(* it after truncation, give or take one.                                  *)
LEMMA TruncDivNear ==
  ASSUME NEW a \in Int, NEW b \in Nat \ {0}, NEW c \in Int, NEW d \in Nat \ {0},
         a * d <= (c + d) * b
  PROVE  TruncDiv(a, b) <= TruncDiv(c, d) + 1
<1> DEFINE k == TruncDiv(c, d) + 1
           t == TruncDiv(a, b)
<1>1. k \in Int /\ t \in Int
  BY TruncDivBound
<1>2. CASE c >= 0
  <2>1. c < k * d /\ k >= 1
    <3> DEFINE w == c \div d
    <3>1. w \in Nat /\ c < w * d + d /\ TruncDiv(c, d) = w
      BY <1>2 DEF TruncDiv
    <3> HIDE DEF w
    <3>2. (w + 1) * d = w * d + d
      BY <3>1
    <3> QED BY <3>1, <3>2
  <2> HIDE DEF k
  <2>2. (c + d) * b < ((k + 1) * b) * d
    <3>1. c + d < (k + 1) * d
      BY <1>1, <2>1
    <3>2. (c + d) * b < ((k + 1) * d) * b
      BY <1>1, <3>1
    <3>3. ((k + 1) * d) * b = ((k + 1) * b) * d
      BY <1>1
    <3> QED BY <3>2, <3>3
  <2>3. a < (k + 1) * b
    <3>1. (k + 1) * b \in Int /\ a * d < ((k + 1) * b) * d
      BY <1>1, <2>2
    <3> QED BY <3>1, DropFactor
  <2>4. CASE a >= 0
    <3> DEFINE w == a \div b
    <3>1. w \in Nat /\ w * b <= a /\ t = w
      BY <2>4 DEF TruncDiv
    <3> HIDE DEF w, t
    <3>2. w * b < (k + 1) * b
      BY <3>1, <2>3, <1>1
    <3>3. w < k + 1
      BY <3>1, <3>2, <1>1, DropFactor
    <3> QED BY <3>1, <3>3, <1>1 DEF t, k
  <2>5. CASE a < 0
    <3>1. t <= 0
      BY <2>5 DEF TruncDiv
    <3> HIDE DEF t
    <3> QED BY <3>1, <2>1, <1>1 DEF t, k
  <2> QED BY <2>4, <2>5
<1>3. CASE c < 0
  <2>1. c + d <= k * d
    <3> DEFINE w == (-c) \div d
    <3>1. w \in Nat /\ w * d <= -c /\ TruncDiv(c, d) = -w
      BY <1>3 DEF TruncDiv
    <3> HIDE DEF w
    <3>2. (1 - w) * d = d - w * d
      BY <3>1
    <3> QED BY <3>1, <3>2
  <2> HIDE DEF k
  <2>2. a <= k * b
    <3>1. (c + d) * b <= (k * d) * b
      BY <1>1, <2>1
    <3>2. (k * d) * b = (k * b) * d /\ k * b \in Int
      BY <1>1
    <3>3. a * d <= (k * b) * d
      BY <3>1, <3>2
    <3>4. a * d < (k * b + 1) * d
      BY <3>2, <3>3
    <3>5. a < k * b + 1
      BY <3>2, <3>4, DropFactor
    <3> QED BY <3>2, <3>5
  <2>3. t * b < (k + 1) * b
    <3>1. (k + 1) * b = k * b + b /\ k * b \in Int
      BY <1>1
    <3>2. CASE a >= 0
      <4>1. t * b <= a
        BY <3>2 DEF TruncDiv
      <4> HIDE DEF t
      <4> QED BY <4>1, <3>1, <2>2, <1>1
    <3>3. CASE a < 0
      <4> DEFINE w == (-a) \div b
      <4>1. w \in Nat /\ -a < w * b + b /\ t = -w
        BY <3>3 DEF TruncDiv
      <4> HIDE DEF t, w
      <4>2. t * b = -(w * b) /\ w * b \in Int
        BY <4>1
      <4> QED BY <4>1, <4>2, <3>1, <2>2, <1>1
    <3> QED BY <3>2, <3>3
  <2> HIDE DEF t
  <2>4. t < k + 1
    BY <2>3, <1>1, DropFactor
  <2> QED BY <2>4, <1>1 DEF t, k
<1> QED BY <1>2, <1>3

(* Saturation brings no two amounts further apart.                         *)
LEMMA SatNear ==
  ASSUME NEW x \in Int, NEW y \in Int, x <= y + 1
  PROVE  Sat(x) <= Sat(y) + 1
BY AccountingAssumption DEF Sat, I64Min

(* The mean of two prices, weighted one way and the other: the product of  *)
(* the two means is at least that of the prices.                           *)
LEMMA MeansProduct ==
  ASSUME NEW n \in Nat, NEW a \in Nat, NEW v \in Nat, NEW m \in Nat
  PROVE  (n + a) * ((n + a) * (m * v)) <= (n * v + a * m) * (n * m + a * v)
<1> DEFINE gap == (n * a) * ((m - v) * (m - v))
<1>1. (n * v + a * m) * (n * m + a * v)
        = (n + a) * ((n + a) * (m * v)) + gap
  OBVIOUS
<1>2. gap >= 0
  <2>1. n * a >= 0 /\ (m - v) * (m - v) >= 0
    OBVIOUS
  <2> QED BY <2>1
<1>3. gap \in Int /\ (n + a) * ((n + a) * (m * v)) \in Int
  OBVIOUS
<1> HIDE DEF gap
<1> QED BY <1>1, <1>2, <1>3
(* The entry price an addition leaves lies between the two prices it       *)
(* averages, rounded down.                                                 *)
LEMMA WeightedVwapBetween ==
  ASSUME NEW n \in Nat \ {0}, NEW a \in Nat \ {0}, NEW v \in Nat \ {0},
         NEW m \in Nat \ {0}
  PROVE  LET q == WeightedVwap(n, v, a, m) IN
         /\ q \in Nat \ {0}
         /\ v <= q \/ m <= q
         /\ n * v + a * m <= q * (n + a) + (n + a)
<1> DEFINE q == WeightedVwap(n, v, a, m)
           s == n * v + a * m
<1>1. n + a \in Nat \ {0} /\ s \in Nat
  OBVIOUS
<1>2. q = s \div (n + a)
  BY DEF WeightedVwap
<1>3. q \in Nat \ {0}
  BY WeightedVwapPositive
<1>4. s < q * (n + a) + (n + a)
  <2> DEFINE N == n + a
  <2>1. N \in Nat \ {0} /\ q = s \div N
    BY <1>1, <1>2
  <2> HIDE DEF s, q, N
  <2>2. s < q * N + N
    BY <1>1, <2>1
  <2> QED BY <2>2 DEF N
<1>5. ASSUME NEW low \in Nat \ {0}, low <= v, low <= m
      PROVE  low <= q
  <2>1. n * low <= n * v /\ a * low <= a * m
    BY <1>5
  <2>2. low * (n + a) = n * low + a * low /\ low * (n + a) \in Int
    OBVIOUS
  <2>3. low * (n + a) <= s
    BY <2>1, <2>2
  <2> HIDE DEF s, q
  <2>4. (q + 1) * (n + a) = q * (n + a) + (n + a)
    BY <1>1, <1>3
  <2>5. low * (n + a) < (q + 1) * (n + a)
    BY <2>3, <2>4, <1>1, <1>3, <1>4, <2>2
  <2>6. low < q + 1
    BY <2>5, <1>1, <1>3, DropFactor
  <2> QED BY <2>6, <1>3
<1>6. v <= q \/ m <= q
  BY <1>3, <1>5
<1>7. q * (n + a) \in Int
  BY <1>1, <1>3
<1> HIDE DEF q
<1> QED BY <1>1, <1>3, <1>4, <1>6, <1>7 DEF q

(* Where the position is worth less than the grain of the prices, adding   *)
(* to it leaves its magnitude's profit at most one higher.                 *)
LEMMA AddedProfit ==
  ASSUME NEW n \in Nat \ {0}, NEW a \in Nat \ {0}, NEW v \in Nat \ {0},
         NEW m \in Nat \ {0},
         \A p, q \in {v, m} : (n + a) * p <= q * q
  PROVE  LET q == WeightedVwap(n, v, a, m) IN
         TruncDiv((n + a) * (m - q), q) <= TruncDiv(n * (m - v), v) + 1
<1> DEFINE q == WeightedVwap(n, v, a, m)
           s == n * v + a * m
           b == n * m + a * v
           N == n + a
<1>1. /\ q \in Nat \ {0}
      /\ v <= q \/ m <= q
      /\ s <= q * N + N
  BY WeightedVwapBetween
<1> HIDE DEF q
<1>2. q \in Nat \ {0} /\ s \in Nat /\ b \in Nat /\ N \in Nat \ {0}
  BY <1>1
<1>3. b <= q * v
  <2>1. CASE v <= m
    <3>1. n * m + a * v <= N * m
      <4>1. a * v <= a * m
        BY <2>1
      <4> QED BY <4>1
    <3>2. N * m <= v * v
      OBVIOUS
    <3>3. v <= q
      BY <1>1, <1>2, <2>1
    <3>4. v * v <= q * v
      BY <3>3, <1>2
    <3> QED BY <3>1, <3>2, <3>4, <1>2
  <2>2. CASE m <= v
    <3>1. n * m + a * v <= N * v
      <4>1. n * m <= n * v
        BY <2>2
      <4> QED BY <4>1
    <3>2. N * v <= m * m
      OBVIOUS
    <3>3. m <= q
      BY <1>1, <1>2, <2>2
    <3>4. m * m <= q * v
      <4>1. m * m <= q * m
        BY <3>3, <1>2
      <4>2. q * m <= q * v
        BY <2>2, <1>2
      <4> QED BY <4>1, <4>2, <1>2
    <3> QED BY <3>1, <3>2, <3>4, <1>2
  <2> QED BY <2>1, <2>2
<1>4. N * (N * (m * v)) <= N * (q * b + b)
  <2>1. N * (N * (m * v)) <= s * b
    BY MeansProduct
  <2> HIDE DEF s, b, N
  <2>2. s * b <= (q * N + N) * b
    BY <1>1, <1>2
  <2>3. (q * N + N) * b = N * (q * b + b)
    BY <1>2
  <2>4. m * v \in Int
    OBVIOUS
  <2> QED BY <2>1, <2>2, <2>3, <2>4, <1>2
<1>5. N * (m * v) <= q * b + b
  <2> HIDE DEF s, b, N
  <2>1. N * (m * v) \in Int /\ q * b + b \in Int
    BY <1>2
  <2>2. (N * (m * v)) * N < (q * b + b + 1) * N
    BY <2>1, <1>2, <1>4
  <2>3. N * (m * v) < q * b + b + 1
    BY <2>1, <2>2, <1>2, DropFactor
  <2> QED BY <2>1, <2>3
<1>6. (N * (m - q)) * v <= (n * (m - v) + v) * q
  <2>1. (N * (m - q)) * v = N * (m * v) - N * (q * v)
    BY <1>2
  <2>2. (n * (m - v) + v) * q = (q * b + q * v) - N * (q * v)
    BY <1>2
  <2>3. /\ N * (m * v) \in Int /\ N * (q * v) \in Int /\ q * b \in Int
        /\ q * v \in Int
    BY <1>2
  <2>4. N * (m * v) - N * (q * v) <= (q * b + q * v) - N * (q * v)
    <3> HIDE DEF s, b, N
    <3>1. N * (m * v) <= q * b + q * v
      BY <2>3, <1>2, <1>3, <1>5
    <3> DEFINE w == N * (q * v)
               x == N * (m * v)
               y == q * b + q * v
    <3>2. w \in Int /\ x \in Int /\ y \in Int /\ x <= y
      BY <3>1, <2>3
    <3> HIDE DEF w, x, y
    <3>3. x - w <= y - w
      BY <3>2
    <3> QED BY <3>3 DEF w, x, y
  <2> QED BY <2>1, <2>2, <2>4
<1>7. N * (m - q) \in Int /\ n * (m - v) \in Int
  BY <1>2
<1>8. TruncDiv(N * (m - q), q) <= TruncDiv(n * (m - v), v) + 1
  BY <1>2, <1>6, <1>7, TruncDivNear
<1> QED BY <1>8 DEF q
(* Adding to a position banks nothing and flatters nobody: a long shows no *)
(* more, a short no less than before, but for one unit of rounding.        *)
LEMMA ResizeAdds ==
  ASSUME NEW cur \in Int, NEW tgt \in Int, NEW v \in Nat \ {0},
         NEW m \in Nat \ {0}, cur # 0, SignOf(tgt) = SignOf(cur),
         AbsOf(tgt) > AbsOf(cur),
         \A p, q \in {v, m} : AbsOf(tgt) * p <= q * q
  PROVE  LET s == Resize(cur, v, tgt, m)
             before == UnrealizedPnl(cur, v, m)
             after == UnrealizedPnl(tgt, s.vwap, m)
         IN /\ s.realized = 0
            /\ IF cur > 0 THEN after <= before + 1 ELSE before <= after + 1
<1> DEFINE n == AbsOf(cur)
           a == AbsOf(tgt) - AbsOf(cur)
           q == WeightedVwap(n, v, a, m)
           more == TruncDiv((n + a) * (m - q), q)
           less == TruncDiv(n * (m - v), v)
<1>1. /\ n \in Nat \ {0} /\ a \in Nat \ {0} /\ n + a = AbsOf(tgt)
      /\ tgt # 0
  BY DEF AbsOf, SignOf
<1>2. Resize(cur, v, tgt, m) = Settle(tgt, q, 0)
  BY <1>1 DEF Resize
<1>3. q \in Nat \ {0} /\ more <= less + 1
  <2> HIDE DEF n, a
  <2> QED BY <1>1, AddedProfit, WeightedVwapBetween
<1>4. /\ (n + a) * (m - q) \in Int /\ n * (m - v) \in Int
      /\ more \in Int /\ less \in Int
  <2>1. (n + a) * (m - q) \in Int /\ n * (m - v) \in Int
    BY <1>1, <1>3
  <2> QED BY <2>1, <1>3, TruncDivBound
<1>5. CASE cur > 0
  <2>1. cur = n /\ tgt = n + a
    BY <1>5, <1>1 DEF AbsOf, SignOf
  <2>2. /\ UnrealizedPnl(tgt, q, m) = Sat(more)
        /\ UnrealizedPnl(cur, v, m) = Sat(less)
    BY <2>1, <1>1, <1>3 DEF UnrealizedPnl
  <2>3. Sat(more) <= Sat(less) + 1
    BY <1>3, <1>4, SatNear
  <2> QED BY <2>2, <2>3, <1>2, <1>5 DEF Settle
<1>6. CASE cur < 0
  <2>1. cur = -n /\ tgt = -(n + a)
    BY <1>6, <1>1 DEF AbsOf, SignOf
  <2>2. /\ tgt * (m - q) = -((n + a) * (m - q))
        /\ cur * (m - v) = -(n * (m - v))
    <3>1. \A i, j \in Int : (-i) * j = -(i * j)
      OBVIOUS
    <3>2. n + a \in Int /\ n \in Int /\ m - q \in Int /\ m - v \in Int
      BY <1>1, <1>3
    <3> QED BY <2>1, <3>1, <3>2
  <2>3. /\ TruncDiv(-((n + a) * (m - q)), q) = -more
        /\ TruncDiv(-(n * (m - v)), v) = -less
    BY <1>3, <1>4, TruncDivOdd
  <2>4. /\ UnrealizedPnl(tgt, q, m) = Sat(-more)
        /\ UnrealizedPnl(cur, v, m) = Sat(-less)
    BY <2>2, <2>3, <1>1, <1>3 DEF UnrealizedPnl
  <2>5. Sat(-less) <= Sat(-more) + 1
    <3>1. -less \in Int /\ -more \in Int /\ -less <= -more + 1
      BY <1>3, <1>4
    <3> QED BY <3>1, SatNear
  <2> QED BY <2>4, <2>5, <1>2, <1>6 DEF Settle
<1> QED BY <1>5, <1>6
(* A magnitude on its side of zero.                                        *)
LEMMA AbsSide ==
  ASSUME NEW x \in Int, NEW y \in Int, AbsOf(x) <= AbsOf(y),
         (x >= 0 /\ y >= 0) \/ (x <= 0 /\ y <= 0)
  PROVE  (0 <= x /\ x <= y) \/ (y <= x /\ x <= 0)
BY DEF AbsOf

(* Truncating division keeps the side of zero.                             *)
LEMMA TruncDivSide ==
  ASSUME NEW a \in Int, NEW b \in Nat \ {0}
  PROVE  /\ a >= 0 => TruncDiv(a, b) >= 0
         /\ a <= 0 => TruncDiv(a, b) <= 0
<1>1. a >= 0 => TruncDiv(a, b) >= 0
  BY DEF TruncDiv
<1>2. ASSUME a <= 0
      PROVE  TruncDiv(a, b) <= 0
  <2>1. -a >= 0 /\ TruncDiv(-a, b) >= 0
    BY <1>2 DEF TruncDiv
  <2>2. TruncDiv(-a, b) = -TruncDiv(a, b) /\ TruncDiv(a, b) \in Int
    BY TruncDivOdd, TruncDivBound
  <2> QED BY <2>1, <2>2
<1> QED BY <1>1, <1>2

(* From the thumb to the notional and back to the needle, each rounded     *)
(* toward zero and the first saturated: the needle lies between rest and   *)
(* the thumb.                                                              *)
LEMMA NeedleBehindThumb ==
  ASSUME NEW coll \in Nat, NEW lev \in Nat, NEW exp \in -BpsScale .. BpsScale
  PROVE  LET needle == NotionalToBps(TargetNotional(coll, lev, exp), coll, lev) IN
         \/ 0 <= needle /\ needle <= exp
         \/ exp <= needle /\ needle <= 0
<1> DEFINE d == coll * lev
           k == d \div BpsScale
           t == TruncDiv(k * exp, BpsScale)
           n == TargetNotional(coll, lev, exp)
           x == n * BpsScale * BpsScale
           e == AbsOf(exp)
<1>1. BpsScale \in Nat \ {0} /\ exp \in Int /\ e \in Nat
  BY AccountingAssumption DEF AbsOf
<1>2. CASE coll <= 0 \/ lev = 0
  BY <1>1, <1>2 DEF NotionalToBps
<1>3. CASE ~(coll <= 0 \/ lev = 0)
  <2>1. d \in Nat \ {0}
    BY <1>3
  <2>2. k \in Nat /\ k * BpsScale <= d
    BY <1>1, <2>1
  <2>3. CASE exp = 0
    <3>1. n = 0 /\ 0 * BpsScale * BpsScale = 0
      BY <1>1, <2>3 DEF TargetNotional
    <3>2. TruncDiv(0, d) >= 0 /\ TruncDiv(0, d) <= 0
      BY <2>1, TruncDivSide
    <3>3. TruncDiv(0, d) \in Int
      BY <2>1, TruncDivBound
    <3> QED BY <3>1, <3>2, <3>3, <2>3, <1>3 DEF NotionalToBps
  <2>4. CASE exp # 0
    <3>1. n = Sat(t)
      BY <2>4, <1>3 DEF TargetNotional
    <3>2. k * exp \in Int /\ t \in Int /\ AbsOf(t) * BpsScale <= AbsOf(k * exp)
      <4> HIDE DEF k
      <4>1. k * exp \in Int
        BY <1>1, <2>2
      <4> QED BY <4>1, <1>1, TruncDivBound
    <3>3. AbsOf(k * exp) = k * e
      BY <1>1, <2>2, AbsProduct
    <3>4. /\ exp >= 0 => k * exp >= 0 /\ t >= 0
          /\ exp <= 0 => k * exp <= 0 /\ t <= 0
      <4> HIDE DEF k
      <4>1. /\ exp >= 0 => k * exp >= 0
            /\ exp <= 0 => k * exp <= 0
        BY <1>1, <2>2
      <4> QED BY <4>1, <3>2, <1>1, TruncDivSide
    <3>5. n \in Int /\ AbsOf(n) <= AbsOf(t) /\ AbsOf(n) \in Nat /\ AbsOf(t) \in Nat
      BY <3>1, <3>2, SatRange, AbsType, AccountingAssumption DEF I64, I64Min
    <3>6. /\ exp >= 0 => n >= 0
          /\ exp <= 0 => n <= 0
      BY <3>1, <3>2, <3>4, AccountingAssumption DEF Sat, I64Min
    <3> HIDE DEF n, t, k, d
    <3>7. AbsOf(n) * BpsScale <= k * e
      BY <3>2, <3>3, <3>5, <1>1, <2>2
    <3>8. x \in Int /\ AbsOf(x) <= e * d
      <4>1. BpsScale * BpsScale \in Nat /\ x = (BpsScale * BpsScale) * n
        BY <1>1, <3>5
      <4>2. AbsOf(x) = (BpsScale * BpsScale) * AbsOf(n)
        BY <4>1, <3>5, AbsProduct
      <4>3. (BpsScale * BpsScale) * AbsOf(n) = BpsScale * (AbsOf(n) * BpsScale)
        BY <1>1, <3>5
      <4>4. BpsScale * (AbsOf(n) * BpsScale) <= BpsScale * (k * e)
        BY <3>7, <3>5, <1>1, <2>2
      <4>5. BpsScale * (k * e) = e * (k * BpsScale)
        BY <1>1, <2>2
      <4>6. e * (k * BpsScale) <= e * d
        BY <1>1, <2>1, <2>2
      <4>7. /\ BpsScale * (AbsOf(n) * BpsScale) \in Int
            /\ e * (k * BpsScale) \in Int /\ e * d \in Int
        BY <1>1, <2>1, <2>2, <3>5
      <4>8. x \in Int
        BY <4>1, <3>5
      <4> QED BY <4>2, <4>3, <4>4, <4>5, <4>6, <4>7, <4>8
    <3>9. /\ exp >= 0 => x >= 0
          /\ exp <= 0 => x <= 0
      BY <1>1, <3>5, <3>6
    <3> HIDE DEF x
    <3> DEFINE needle == TruncDiv(x, d)
    <3>10. needle \in Int /\ AbsOf(needle) <= e
      BY <3>8, <2>1, <1>1, TruncDivBound, TruncDivAtMost
    <3>11. /\ exp >= 0 => needle >= 0
           /\ exp <= 0 => needle <= 0
      BY <3>8, <3>9, <2>1, TruncDivSide
    <3> HIDE DEF needle
    <3>12. \/ 0 <= needle /\ needle <= exp
           \/ exp <= needle /\ needle <= 0
      BY <3>10, <3>11, <1>1, AbsSide
    <3>13. NotionalToBps(n, coll, lev) = needle
      BY <1>3 DEF NotionalToBps, needle, x, d
    <3> QED BY <3>12, <3>13 DEF n
  <2> QED BY <2>3, <2>4
<1> QED BY <1>2, <1>3
(***************************************************************************)
(* The floor against the mark.                                             *)
(***************************************************************************)

(* Truncating division by a positive number is monotone.                   *)
LEMMA TruncDivMonotone ==
  ASSUME NEW a \in Int, NEW c \in Int, NEW b \in Nat \ {0}, a <= c
  PROVE  TruncDiv(a, b) <= TruncDiv(c, b)
<1>1. ASSUME NEW i \in Nat, NEW j \in Nat, i <= j
      PROVE  TruncDiv(i, b) <= TruncDiv(j, b)
  <2> DEFINE x == i \div b
             y == j \div b
  <2>1. x \in Nat /\ y \in Nat /\ x * b <= i /\ j < y * b + b
    OBVIOUS
  <2>2. TruncDiv(i, b) = x /\ TruncDiv(j, b) = y
    BY DEF TruncDiv
  <2> HIDE DEF x, y
  <2>3. (y + 1) * b = y * b + b /\ x * b \in Int /\ y * b \in Int
    BY <2>1
  <2>4. x * b < (y + 1) * b
    BY <1>1, <2>1, <2>3
  <2>5. x < y + 1
    BY <2>1, <2>4, DropFactor
  <2> QED BY <2>1, <2>2, <2>5
<1>2. TruncDiv(a, b) \in Int /\ TruncDiv(c, b) \in Int
  BY TruncDivBound
<1>3. CASE a >= 0
  BY <1>1, <1>3
<1>4. CASE a <= 0 /\ c >= 0
  BY <1>2, <1>4, TruncDivSide
<1>5. CASE c <= 0
  <2>1. -a \in Nat /\ -c \in Nat /\ -c <= -a
    BY <1>5
  <2>2. TruncDiv(-c, b) <= TruncDiv(-a, b)
    BY <1>1, <2>1
  <2> QED BY <1>2, <2>2, TruncDivOdd
<1> QED BY <1>3, <1>4, <1>5

(* Saturation keeps the order.                                             *)
LEMMA SatMonotone ==
  ASSUME NEW x \in Int, NEW y \in Int, x <= y
  PROVE  Sat(x) <= Sat(y)
BY AccountingAssumption DEF Sat, I64Min

(* The profit of a long rises with the mark, that of a short falls.        *)
LEMMA ProfitFollowsMark ==
  ASSUME NEW n \in Int, NEW v \in Nat, NEW worse \in Nat, NEW better \in Nat,
         \/ n >= 0 /\ worse <= better
         \/ n <= 0 /\ better <= worse
  PROVE  UnrealizedPnl(n, v, worse) <= UnrealizedPnl(n, v, better)
<1>1. CASE v = 0 \/ n = 0
  BY <1>1 DEF UnrealizedPnl
<1>2. CASE ~(v = 0 \/ n = 0)
  <2>1. /\ n * (worse - v) \in Int /\ n * (better - v) \in Int
        /\ n * (worse - v) <= n * (better - v)
    <3>1. n * (better - v) - n * (worse - v) = n * (better - worse)
      OBVIOUS
    <3>2. n * (better - worse) >= 0
      <4>1. \/ n >= 0 /\ better - worse >= 0
            \/ n <= 0 /\ better - worse <= 0
        OBVIOUS
      <4> DEFINE w == better - worse
      <4>2. w \in Int
        OBVIOUS
      <4> HIDE DEF w
      <4>3. \/ n >= 0 /\ w >= 0
            \/ n <= 0 /\ w <= 0
        BY <4>1 DEF w
      <4>4. n * w >= 0
        BY <4>2, <4>3
      <4> QED BY <4>4 DEF w
    <3> QED BY <3>1, <3>2
  <2>2. TruncDiv(n * (worse - v), v) <= TruncDiv(n * (better - v), v)
    BY <1>2, <2>1, TruncDivMonotone
  <2>3. TruncDiv(n * (worse - v), v) \in Int /\ TruncDiv(n * (better - v), v) \in Int
    BY <1>2, <2>1, TruncDivBound
  <2> QED BY <1>2, <2>2, <2>3, SatMonotone DEF UnrealizedPnl
<1> QED BY <1>1, <1>2

(* Two observers of one account who differ on the price differ on its      *)
(* floor one way only: where the more favourable mark shows a breach or a  *)
(* bankruptcy, so does the other.  This is what the program's tick and the *)
(* guardian's check of an independent price owe each other, through        *)
(* rounding and saturation (effective_equity_6, checkFloor).               *)
THEOREM BreachHoldsAtWorseMarks ==
  ASSUME NEW fuel \in Nat, NEW realized \in Int, NEW n \in Int, NEW v \in Nat,
         NEW worse \in Nat, NEW better \in Nat, NEW floor \in Int,
         \/ n >= 0 /\ worse <= better
         \/ n <= 0 /\ better <= worse
  PROVE  /\ Breached(Equity(fuel, realized, n, v, better), floor)
              => Breached(Equity(fuel, realized, n, v, worse), floor)
         /\ Bankrupt(Equity(fuel, realized, n, v, better))
              => Bankrupt(Equity(fuel, realized, n, v, worse))
<1> DEFINE low == UnrealizedPnl(n, v, worse)
           high == UnrealizedPnl(n, v, better)
<1>1. low \in Int /\ high \in Int /\ low <= high
  <2>1. low \in I64 /\ high \in I64
    BY UnrealizedType
  <2>2. low <= high
    BY ProfitFollowsMark
  <2>3. I64 \subseteq Int
    BY AccountingAssumption DEF I64, I64Min
  <2> HIDE DEF low, high
  <2> QED BY <2>1, <2>2, <2>3
<1>2. /\ Equity(fuel, realized, n, v, worse) \in Int
      /\ Equity(fuel, realized, n, v, better) \in Int
  BY EquityType
<1> HIDE DEF low, high
<1>3. Sat(fuel + realized + low) <= Sat(fuel + realized + high)
  BY <1>1, SatMonotone
<1>4. Equity(fuel, realized, n, v, worse) <= Equity(fuel, realized, n, v, better)
  BY <1>3 DEF Equity, EffectiveEquity, low, high
<1> QED BY <1>2, <1>4 DEF Breached, Bankrupt
===============================================================================
