--------------------------- MODULE RideSessionProofs --------------------------
(***************************************************************************)
(* What the on-chain ride guarantees for every scale, width, price set and *)
(* bound.  The inductive invariant is the conjunction of four of the       *)
(* checked invariants: a tick needs the entry price to match the position  *)
(* (EntryIffOpen) to keep its own result well formed (TypeOK), and the     *)
(* lifecycle needs the unmarked ride to be flat.                           *)
(***************************************************************************)
EXTENDS RideSession, AccountingLemmas

IInv == TypeOK /\ EntryIffOpen /\ NeedleWithinScale /\ LifecycleConsistent

-------------------------------------------------------------------------------
(* Saturated amounts are integers.                                         *)
LEMMA I64Facts == I64 \subseteq Int /\ 0 \in I64
BY AccountingAssumption DEF I64, I64Min

(* Full scale is positive and contains rest.                               *)
LEMMA ScaleFacts == BpsScale \in Nat \ {0} /\ 0 \in -BpsScale .. BpsScale
BY AccountingAssumption

(* The target the floor gate lets through is the thumb's own, or a smaller *)
(* position kept as it is: either way the collateral backs it, and a       *)
(* breach lets nothing grow.                                               *)
LEMMA GatedWithinCap ==
  ASSUME TypeOK, NEW eq \in Int, NEW exp \in -BpsScale .. BpsScale
  PROVE  LET coll == EffectiveCollateral(fuel, realized)
             g    == GatedTarget(eq, coll, exp)
         IN /\ g \in I64
            /\ AbsOf(g) * BpsScale <= coll * lev
            /\ (Breached(eq, floor) \/ Bankrupt(eq)) => AbsOf(g) <= AbsOf(notional)
<1> DEFINE coll == EffectiveCollateral(fuel, realized)
           asked == TargetNotional(coll, lev, exp)
           g == GatedTarget(eq, coll, exp)
           gate == Breached(eq, floor) \/ Bankrupt(eq)
<1>1. coll \in Nat /\ lev \in Nat
  BY CollateralType, I64Facts DEF TypeOK
<1>2. notional \in I64
  BY DEF TypeOK
<1> HIDE DEF coll
<1>3. asked \in I64 /\ AbsOf(asked) * BpsScale <= coll * lev
  BY <1>1, TargetWithinCap
<1>4. AbsOf(asked) \in Nat /\ AbsOf(notional) \in Nat
  <2>1. asked \in Int /\ notional \in Int
    BY <1>2, <1>3, I64Facts
  <2> QED BY <2>1, AbsType
<1>5. CASE gate /\ AbsOf(asked) > AbsOf(notional)
  <2>1. g = notional
    BY <1>5 DEF GatedTarget
  <2>2. AbsOf(notional) * BpsScale <= AbsOf(asked) * BpsScale
    BY <1>4, <1>5, ScaleFacts
  <2>3. AbsOf(notional) * BpsScale <= coll * lev
    BY <2>2, <1>1, <1>3, <1>4, ScaleFacts
  <2> QED BY <2>1, <2>3, <1>2, <1>4 DEF coll
<1>6. CASE ~(gate /\ AbsOf(asked) > AbsOf(notional))
  <2>1. g = asked
    BY <1>6 DEF GatedTarget
  <2>2. gate => AbsOf(g) <= AbsOf(notional)
    BY <1>4, <1>6, <2>1
  <2> QED BY <2>1, <2>2, <1>3 DEF coll
<1> QED BY <1>5, <1>6

(* What a marking tick leaves behind.                                      *)
LEMMA MarkTickResult ==
  ASSUME TypeOK, EntryIffOpen, NEW signer, NEW exp, MarkTick(signer, exp)
  PROVE  LET eq == Equity(fuel, realized, notional, vwap, Price) IN
         /\ notional' \in I64 /\ vwap' \in Nat /\ realized' \in I64
         /\ vwap' = 0 <=> notional' = 0
         /\ virt' \in -BpsScale .. BpsScale
         /\ AbsOf(notional') * BpsScale
              <= EffectiveCollateral(fuel, realized) * lev
         /\ (Breached(eq, floor) \/ Bankrupt(eq))
              => AbsOf(notional') <= AbsOf(notional)
<1> DEFINE p == Price
           eq == Equity(fuel, realized, notional, vwap, p)
           coll == EffectiveCollateral(fuel, realized)
           g == GatedTarget(eq, coll, exp)
           s == SettleToTarget(notional, vwap, g, p)
<1>1. p \in Nat \ {0} /\ exp \in -BpsScale .. BpsScale
  BY OracleAssumption DEF MarkTick, OracleFresh, Priced, Price
<1>2. /\ fuel \in Nat /\ lev \in Nat /\ realized \in Int
      /\ notional \in I64 /\ vwap \in Nat
  BY I64Facts DEF TypeOK
<1>3. eq \in Int /\ coll \in Nat
  BY <1>1, <1>2, EquityType, CollateralType, I64Facts
<1>4. /\ g \in I64
      /\ AbsOf(g) * BpsScale <= coll * lev
      /\ (Breached(eq, floor) \/ Bankrupt(eq)) => AbsOf(g) <= AbsOf(notional)
  BY <1>1, <1>3, GatedWithinCap
<1>5. /\ notional' = s.notional /\ vwap' = s.vwap
      /\ realized' = Sat(realized + s.realized)
      /\ virt' = NotionalToBps(s.notional, coll, lev)
  BY DEF MarkTick
<1> HIDE DEF p, eq, coll, g
<1>6. /\ s.notional = g /\ s.vwap \in Nat
      /\ s.vwap = 0 <=> s.notional = 0
      /\ s.realized \in I64
  BY <1>1, <1>2, <1>4, SettleReachesTarget DEF EntryIffOpen
<1> HIDE DEF s
<1>7. realized' \in I64
  <2>1. realized \in Int /\ s.realized \in Int
    BY <1>2, <1>6, I64Facts
  <2>2. realized + s.realized \in Int
    BY <2>1
  <2> QED BY <2>2, <1>5, SatRange
<1>8. virt' \in -BpsScale .. BpsScale
  BY <1>2, <1>3, <1>4, <1>5, <1>6, NeedleBound, I64Facts
<1> QED BY <1>4, <1>5, <1>6, <1>7, <1>8 DEF p, eq, coll

-------------------------------------------------------------------------------
(* The invariant holds of a chain without the account.                     *)
LEMMA InitInv == Init => IInv
BY I64Facts, ScaleFacts
   DEF Init, IInv, TypeOK, EntryIffOpen, NeedleWithinScale, LifecycleConsistent,
       Status, NoFeed, FeedAccount

(* And every step keeps it.                                                *)
LEMMA StepInv ==
  ASSUME IInv, [Next]_vars
  PROVE  IInv'
<1> USE I64Facts, ScaleFacts
<1> USE DEF IInv, EntryIffOpen, NeedleWithinScale, LifecycleConsistent
<1>1. CASE CallInit
  <2>1. PICK f \in FuelArgs, l \in LevArgs, fl \in FloorArgs,
             exp \in 0 .. MaxTime : InitRide(f, l, fl, exp)
    BY <1>1 DEF CallInit
  <2>2. f \in Nat /\ l \in Nat /\ fl \in Int /\ exp \in Nat
    BY RideAssumption
  <2> QED BY <2>1, <2>2 DEF InitRide, Zeroed, TypeOK, Status
<1>2. CASE DelegateRide
  BY <1>2 DEF DelegateRide, TypeOK, config, position, view
<1>3. ASSUME NEW signer \in Signers, NEW exp, StaleTick(signer, exp)
      PROVE  IInv'
  BY <1>3 DEF StaleTick, TickAllowed, TypeOK, Flag, config, position
<1>4. ASSUME NEW signer \in Signers, NEW exp, MarkTick(signer, exp)
      PROVE  IInv'
  <2>1. /\ notional' \in I64 /\ vwap' \in Nat /\ realized' \in I64
        /\ vwap' = 0 <=> notional' = 0
        /\ virt' \in -BpsScale .. BpsScale
    BY <1>4, MarkTickResult
  <2>2. /\ status \in {"ARMED", "RIDING"} /\ loc \in {"base", "er"}
        /\ status' = "RIDING" /\ ticks' = ticks + 1 /\ target' = exp
        /\ exp \in -BpsScale .. BpsScale
        /\ mark' \in Nat \ {0}
        /\ UNCHANGED <<loc, config, now, oracle>>
    BY <1>4, OracleAssumption
       DEF MarkTick, TickAllowed, Loadable, OracleFresh, Priced, Price
  <2>3. flags' \subseteq Flag
    BY <1>4 DEF MarkTick, TypeOK, Flag
  <2>4. TypeOK'
    BY <2>1, <2>2, <2>3 DEF TypeOK, Status, config
  <2> QED BY <2>1, <2>2, <2>4 DEF TypeOK
<1>5. CASE CallTick
  BY <1>5, <1>3, <1>4 DEF CallTick, Tick
<1>6. CASE CallFlatten
  BY <1>6, <1>3, <1>4 DEF CallFlatten, Flatten, Tick
<1>7. CASE CallFreeze
  BY <1>7 DEF CallFreeze, Freeze, Loadable, TypeOK, Status, Flag, config, position
<1>8. CASE CallSettle
  BY <1>8 DEF CallSettle, RequestSettle, TypeOK, Status, config, position, view
<1>9. CASE ProcessUndelegation
  BY <1>9 DEF ProcessUndelegation, TypeOK, config, position, view
<1>10. CASE CallClose
  BY <1>10 DEF CallClose, CloseRide, Zeroed, TypeOK, Status
<1>11. CASE AdvanceClock
  BY <1>11 DEF AdvanceClock, TypeOK, account, config, position, view
<1>12. CASE CallPublish
  <2>1. PICK q \in Feeds, skew \in 0 .. 1 : Publish(q, skew)
    BY <1>12 DEF CallPublish
  <2>2. q \in FeedAccount /\ now + skew \in Nat
    BY RideAssumption DEF TypeOK
  <2> QED BY <2>1, <2>2 DEF Publish, TypeOK, account, config, position, view
<1>13. CASE UNCHANGED vars
  BY <1>13 DEF vars, account, config, position, view, TypeOK
<1> QED
  BY <1>1, <1>2, <1>5, <1>6, <1>7, <1>8, <1>9, <1>10, <1>11, <1>12, <1>13
     DEF Next

(* The inductive invariant holds in every reachable state.                 *)
THEOREM Inductive == Spec => []IInv
<1>1. Init => IInv
  BY InitInv
<1>2. IInv /\ [Next]_vars => IInv'
  BY StepInv
<1> QED BY <1>1, <1>2, PTL DEF Spec

(* Every field keeps the type its account layout gives it.                 *)
THEOREM TypeCorrect == Spec => []TypeOK
<1>1. IInv => TypeOK
  BY DEF IInv
<1> QED BY <1>1, Inductive, PTL

(* No open position without an entry price: its loss is always visible to  *)
(* the floor check.                                                        *)
THEOREM EntryAlways == Spec => []EntryIffOpen
<1>1. IInv => EntryIffOpen
  BY DEF IInv
<1> QED BY <1>1, Inductive, PTL

(* The needle stays on its scale whatever losses are banked.               *)
THEOREM NeedleAlways == Spec => []NeedleWithinScale
<1>1. IInv => NeedleWithinScale
  BY DEF IInv
<1> QED BY <1>1, Inductive, PTL

(* The account's whereabouts and its status never disagree.                *)
THEOREM LifecycleAlways == Spec => []LifecycleConsistent
<1>1. IInv => LifecycleConsistent
  BY DEF IInv
<1> QED BY <1>1, Inductive, PTL

-------------------------------------------------------------------------------
(* Which step may move the position: a marking tick, a close, or an init.  *)
LEMMA PositionMovers ==
  ASSUME IInv, [Next]_vars, position' # position
  PROVE  \/ \E signer \in Signers, exp \in Int : MarkTick(signer, exp)
         \/ \E signer \in Signers : CloseRide(signer)
<1>1. CASE CallInit
  BY <1>1 DEF CallInit, InitRide, Zeroed, IInv, LifecycleConsistent,
              EntryIffOpen, position
<1>2. CASE CallTick
  <2>1. PICK s \in Signers, exp \in ExpArgs : Tick(s, exp)
    BY <1>2 DEF CallTick
  <2>2. exp \in Int
    BY RideAssumption
  <2> QED BY <2>1, <2>2 DEF Tick, StaleTick, position
<1>3. CASE CallFlatten
  BY <1>3 DEF CallFlatten, Flatten, Tick, StaleTick, position
<1>4. CASE CallClose
  BY <1>4 DEF CallClose
<1>5. CASE DelegateRide \/ CallFreeze \/ CallSettle \/ ProcessUndelegation
  BY <1>5 DEF DelegateRide, CallFreeze, Freeze, CallSettle, RequestSettle,
              ProcessUndelegation, position
<1>6. CASE AdvanceClock \/ CallPublish \/ UNCHANGED vars
  BY <1>6 DEF AdvanceClock, CallPublish, Publish, vars, account, position
<1> QED BY <1>1, <1>2, <1>3, <1>4, <1>5, <1>6 DEF Next

(* A ride is resized only to what its collateral then backs.               *)
THEOREM ResizeAlwaysBacked == Spec => ResizeWithinCollateral
<1> DEFINE Backed == notional' # notional =>
       AbsOf(notional') * BpsScale <= EffectiveCollateral(fuel, realized) * lev
<1>1. IInv /\ [Next]_vars => Backed
  <2> SUFFICES ASSUME IInv, [Next]_vars, notional' # notional
               PROVE  AbsOf(notional') * BpsScale
                        <= EffectiveCollateral(fuel, realized) * lev
    OBVIOUS
  <2>1. position' # position
    BY DEF position
  <2>2. CASE \E signer \in Signers, exp \in Int : MarkTick(signer, exp)
    BY <2>2, MarkTickResult DEF IInv
  <2>3. CASE \E signer \in Signers : CloseRide(signer)
    <3>1. notional' = 0
      BY <2>3 DEF CloseRide, Zeroed
    <3>2. EffectiveCollateral(fuel, realized) \in Nat /\ lev \in Nat
      BY CollateralType, I64Facts DEF IInv, TypeOK
    <3>3. EffectiveCollateral(fuel, realized) * lev \in Nat
      BY <3>2
    <3> QED BY <3>1, <3>3, ScaleFacts DEF AbsOf
  <2> QED BY <2>1, <2>2, <2>3, PositionMovers
<1> QED BY <1>1, Inductive, PTL DEF Spec, ResizeWithinCollateral

(* A step that finds the ride at or under its floor never enlarges it.     *)
THEOREM BreachAlwaysCapped == Spec => BreachNeverGrows
<1> DEFINE Capped ==
      LET eq == Equity(fuel, realized, notional, vwap, Price) IN
      (Breached(eq, floor) \/ Bankrupt(eq)) => AbsOf(notional') <= AbsOf(notional)
<1>1. IInv /\ [Next]_vars => Capped
  <2> SUFFICES ASSUME IInv, [Next]_vars
               PROVE  Capped
    OBVIOUS
  <2>1. AbsOf(notional) \in Nat
    BY AbsType, I64Facts DEF IInv, TypeOK
  <2>2. CASE position' = position
    BY <2>1, <2>2 DEF position
  <2>3. CASE \E signer \in Signers, exp \in Int : MarkTick(signer, exp)
    BY <2>3, MarkTickResult DEF IInv
  <2>4. CASE \E signer \in Signers : CloseRide(signer)
    <3>1. notional' = 0
      BY <2>4 DEF CloseRide, Zeroed
    <3> QED BY <2>1, <3>1 DEF AbsOf
  <2> QED BY <2>2, <2>3, <2>4, PositionMovers
<1> QED BY <1>1, Inductive, PTL DEF Spec, BreachNeverGrows

(* A tick that closes, reduces, turns or opens a position banks its profit *)
(* once: what it banks and what it still shows add up to what was there,   *)
(* whatever the prices, the leverage and the losses before.                *)
THEOREM ReductionsBookOnce == Spec => ReductionBooksOnce
<1>1. IInv /\ [Next]_vars =>
        ((notional' # notional /\ loc' # "none" /\ ~Grows /\ ProfitFits) =>
           Gain \in -1 .. 1)
  <2> SUFFICES ASSUME IInv, [Next]_vars, notional' # notional, loc' # "none",
                      ~Grows, ProfitFits
               PROVE  Gain \in -1 .. 1
    OBVIOUS
  <2>1. PICK signer \in Signers, exp \in Int : MarkTick(signer, exp)
    <3>1. position' # position
      BY DEF position
    <3>2. \A signer \in Signers : ~CloseRide(signer)
      BY DEF CloseRide
    <3> QED BY <3>1, <3>2, PositionMovers
  <2> DEFINE p == Price
             eq == Equity(fuel, realized, notional, vwap, p)
             coll == EffectiveCollateral(fuel, realized)
             g == GatedTarget(eq, coll, exp)
             s == SettleToTarget(notional, vwap, g, p)
  <2>2. /\ notional' = s.notional /\ vwap' = s.vwap
        /\ realized' = Sat(realized + s.realized)
        /\ exp \in -BpsScale .. BpsScale
    BY <2>1 DEF MarkTick
  <2>3. p \in Nat \ {0} /\ Price' = p
    BY <2>1, OracleAssumption DEF MarkTick, OracleFresh, Priced, Price
  <2>4. /\ fuel \in Nat /\ notional \in I64 /\ vwap \in Nat /\ realized \in I64
        /\ vwap = 0 <=> notional = 0
    BY DEF IInv, TypeOK, EntryIffOpen
  <2>5. g \in I64
    <3>1. eq \in Int
      BY <2>3, <2>4, EquityType, I64Facts
    <3> QED BY <3>1, <2>2, GatedWithinCap DEF IInv
  <2>6. s.notional = g
    BY <2>3, <2>4, <2>5, SettleReachesTarget
  <2>7. \/ notional = 0 \/ SignOf(g) # SignOf(notional)
        \/ ~(AbsOf(g) > AbsOf(notional))
    BY <2>2, <2>6 DEF Grows
  <2>8. notional # 0 => Fits(notional, vwap, p, realized)
    BY DEF ProfitFits, Fits, Whole
  <2>9. (Sat(realized + s.realized) + UnrealizedPnl(s.notional, s.vwap, p))
           - (realized + UnrealizedPnl(notional, vwap, p)) \in -1 .. 1
    <3> HIDE DEF p, g
    <3> QED BY <2>3, <2>4, <2>5, <2>7, <2>8, SettleConserves
  <2>10. EquityAt(Price)' = realized' + UnrealizedPnl(notional', vwap', p)
    BY <2>3 DEF EquityAt
  <2> HIDE DEF s
  <2> QED BY <2>2, <2>9, <2>10 DEF Gain, EquityAt
<1> QED BY <1>1, Inductive, PTL DEF Spec, ReductionBooksOnce

(* Adding to a position never shows a long more, nor a short less, than it *)
(* showed before, as long as prices are finer than the position is large.  *)
THEOREM AdditionsNeverFlatter == Spec => AdditionNeverFlatters
<1>1. IInv /\ [Next]_vars =>
        (Grows /\ GrainIsFine =>
           IF notional > 0 THEN Gain <= 1 ELSE Gain >= -1)
  <2> SUFFICES ASSUME IInv, [Next]_vars, Grows, GrainIsFine
               PROVE  IF notional > 0 THEN Gain <= 1 ELSE Gain >= -1
    OBVIOUS
  <2>1. PICK signer \in Signers, exp \in Int : MarkTick(signer, exp)
    <3>1. notional \in Int
      BY I64Facts DEF IInv, TypeOK
    <3>2. notional' # notional
      BY <3>1, AbsType DEF Grows
    <3>3. notional' # 0
      BY <3>1 DEF Grows, SignOf
    <3>4. \A signer \in Signers : ~CloseRide(signer)
      BY <3>3 DEF CloseRide, Zeroed
    <3> QED BY <3>2, <3>4, PositionMovers DEF position
  <2> DEFINE p == Price
             eq == Equity(fuel, realized, notional, vwap, p)
             coll == EffectiveCollateral(fuel, realized)
             g == GatedTarget(eq, coll, exp)
             s == SettleToTarget(notional, vwap, g, p)
  <2>2. /\ notional' = s.notional /\ vwap' = s.vwap
        /\ realized' = Sat(realized + s.realized)
        /\ exp \in -BpsScale .. BpsScale
    BY <2>1 DEF MarkTick
  <2>3. p \in Nat \ {0} /\ Price' = p
    BY <2>1, OracleAssumption DEF MarkTick, OracleFresh, Priced, Price
  <2>4. /\ fuel \in Nat /\ notional \in I64 /\ realized \in I64
        /\ vwap \in Nat \ {0} /\ notional \in Int /\ realized \in Int
    BY I64Facts DEF IInv, TypeOK, EntryIffOpen, Grows
  <2>5. g \in I64 /\ g \in Int
    <3>1. eq \in Int
      BY <2>3, <2>4, EquityType, I64Facts
    <3> QED BY <3>1, <2>2, GatedWithinCap, I64Facts DEF IInv
  <2>6. s.notional = g
    BY <2>3, <2>4, <2>5, SettleReachesTarget DEF Grows
  <2>7. /\ notional # 0 /\ g # 0 /\ SignOf(g) = SignOf(notional)
        /\ AbsOf(g) > AbsOf(notional)
    BY <2>2, <2>4, <2>5, <2>6 DEF Grows, SignOf
  <2>8. s = Resize(notional, vwap, g, p)
    BY <2>3, <2>7 DEF SettleToTarget
  <2>9. \A x, y \in {vwap, p} : AbsOf(g) * x <= y * y
    BY <2>2, <2>6 DEF GrainIsFine
  <2> DEFINE before == UnrealizedPnl(notional, vwap, p)
             after == UnrealizedPnl(g, s.vwap, p)
  <2>10. /\ s.realized = 0
         /\ IF notional > 0 THEN after <= before + 1 ELSE before <= after + 1
    <3> HIDE DEF p, g
    <3> QED BY <2>3, <2>4, <2>5, <2>7, <2>8, <2>9, ResizeAdds
  <2>11. Sat(realized + s.realized) = realized
    BY <2>10, <2>4, SatInside
  <2>12. before \in Int /\ after \in Int
    <3>1. s.vwap \in Nat
      BY <2>3, <2>4, <2>5, <2>7, SettleReachesTarget
    <3> QED BY <3>1, <2>3, <2>4, <2>5, UnrealizedType, I64Facts
  <2>13. Gain = (realized + after) - (realized + before)
    BY <2>2, <2>3, <2>6, <2>11 DEF Gain, EquityAt
  <2> HIDE DEF before, after, s, p, g
  <2> QED BY <2>4, <2>10, <2>12, <2>13
<1> QED BY <1>1, Inductive, PTL DEF Spec, AdditionNeverFlatters

(* While the floor holds, the needle a tick sets lies between rest and the *)
(* thumb.                                                                  *)
THEOREM NeedleStaysBehind == Spec => NeedleNeverLeads
<1> DEFINE p == Price
           eq == Equity(fuel, realized, notional, vwap, p)
           Led == (ticks' > ticks /\ OracleFresh /\ ~Breached(eq, floor)
                     /\ ~Bankrupt(eq)) =>
                    \/ 0 <= virt' /\ virt' <= target'
                    \/ target' <= virt' /\ virt' <= 0
<1>1. IInv /\ [Next]_vars => Led
  <2> SUFFICES ASSUME IInv, [Next]_vars, ticks' > ticks, OracleFresh,
                      ~Breached(eq, floor), ~Bankrupt(eq)
               PROVE  \/ 0 <= virt' /\ virt' <= target'
                      \/ target' <= virt' /\ virt' <= 0
    OBVIOUS
  <2>1. PICK signer \in Signers, exp \in Int : MarkTick(signer, exp)
    <3>1. ticks \in Nat
      BY DEF IInv, TypeOK
    <3>2. \A signer, exp : ~StaleTick(signer, exp)
      BY DEF StaleTick
    <3>3. ~CallInit /\ ~CallClose
      BY <3>1 DEF CallInit, InitRide, CallClose, CloseRide, Zeroed
    <3>4. ~DelegateRide /\ ~CallFreeze /\ ~CallSettle /\ ~ProcessUndelegation
      BY <3>1 DEF DelegateRide, CallFreeze, Freeze, CallSettle, RequestSettle,
                  ProcessUndelegation, view
    <3>5. ~AdvanceClock /\ ~CallPublish /\ ~UNCHANGED vars
      BY <3>1 DEF AdvanceClock, CallPublish, Publish, vars, account, view
    <3>6. CallTick \/ CallFlatten
      BY <3>3, <3>4, <3>5 DEF Next
    <3> QED BY <3>2, <3>6, RideAssumption DEF CallTick, CallFlatten, Flatten, Tick
  <2> DEFINE coll == EffectiveCollateral(fuel, realized)
             g == GatedTarget(eq, coll, exp)
             s == SettleToTarget(notional, vwap, g, p)
  <2>2. /\ virt' = NotionalToBps(s.notional, coll, lev) /\ target' = exp
        /\ exp \in -BpsScale .. BpsScale
    BY <2>1 DEF MarkTick
  <2>3. p \in Nat \ {0}
    BY OracleAssumption DEF OracleFresh, Priced, Price
  <2>4. /\ fuel \in Nat /\ lev \in Nat /\ notional \in I64 /\ vwap \in Nat
        /\ realized \in Int
        /\ vwap = 0 <=> notional = 0
    BY I64Facts DEF IInv, TypeOK, EntryIffOpen
  <2>5. eq \in Int /\ coll \in Nat
    <3>1. notional \in Int
      BY <2>4, I64Facts
    <3> HIDE DEF p
    <3>2. eq \in Int
      BY <2>3, <2>4, <3>1, EquityType
    <3>3. coll \in Nat
      BY <2>4, CollateralType
    <3> QED BY <3>2, <3>3
  <2> HIDE DEF coll, eq
  <2>6. g = TargetNotional(coll, lev, exp)
    BY DEF GatedTarget
  <2>7. s.notional = g
    <3>1. g \in I64
      BY <2>2, <2>4, <2>5, <2>6, TargetWithinCap
    <3> HIDE DEF g, p
    <3> QED BY <3>1, <2>3, <2>4, SettleReachesTarget
  <2> QED BY <2>2, <2>4, <2>5, <2>6, <2>7, NeedleBehindThumb
<1> QED BY <1>1, Inductive, PTL DEF Spec, NeedleNeverLeads

(* Position and profit move only under a live thumb at a fresh price.      *)
THEOREM MoneyMovesOnlyLive == Spec => MoneyMovesOnlyInLiveTick
<1> DEFINE Live == position' # position =>
      \/ loc' = "none" /\ status = "SETTLING"
      \/ /\ ticks' = ticks + 1 /\ mark' = Price
         /\ OracleFresh /\ now < expires
         /\ status \in {"ARMED", "RIDING"}
<1>1. IInv /\ [Next]_vars => Live
  <2> SUFFICES ASSUME IInv, [Next]_vars, position' # position
               PROVE  Live
    OBVIOUS
  <2>1. CASE \E signer \in Signers, exp \in Int : MarkTick(signer, exp)
    BY <2>1 DEF MarkTick, TickAllowed
  <2>2. CASE \E signer \in Signers : CloseRide(signer)
    BY <2>2 DEF CloseRide, IInv, LifecycleConsistent
  <2> QED BY <2>1, <2>2, PositionMovers
<1> QED BY <1>1, Inductive, PTL DEF Spec, MoneyMovesOnlyInLiveTick

(* The lifecycle never runs backwards and the terms of a ride never change.*)
THEOREM AlwaysForward == Spec => ForwardOnly
<1> DEFINE Forward == loc # "none" /\ loc' # "none" =>
      /\ status' = "ARMED" => status = "ARMED"
      /\ status' = "RIDING" => status \in {"ARMED", "RIDING"}
      /\ status' = "FROZEN" => status # "SETTLING"
      /\ config' = config
<1>1. [Next]_vars => Forward
  <2> SUFFICES ASSUME [Next]_vars
               PROVE  Forward
    OBVIOUS
  <2>1. CASE CallInit \/ CallClose
    BY <2>1 DEF CallInit, InitRide, CallClose, CloseRide
  <2>2. CASE CallTick \/ CallFlatten
    <3>1. PICK s \in Signers, exp \in ExpArgs \cup {0} : Tick(s, exp)
      BY <2>2 DEF CallTick, CallFlatten, Flatten
    <3> QED BY <3>1 DEF Tick, StaleTick, MarkTick, TickAllowed
  <2>3. CASE CallFreeze \/ CallSettle
    BY <2>3 DEF CallFreeze, Freeze, CallSettle, RequestSettle
  <2>4. CASE DelegateRide \/ ProcessUndelegation
    BY <2>4 DEF DelegateRide, ProcessUndelegation
  <2>5. CASE AdvanceClock \/ CallPublish \/ UNCHANGED vars
    BY <2>5 DEF AdvanceClock, CallPublish, Publish, vars, account
  <2> QED BY <2>1, <2>2, <2>3, <2>4, <2>5 DEF Next
<1> QED BY <1>1, PTL DEF Spec, ForwardOnly

-------------------------------------------------------------------------------
(* A flatten at a usable price leaves the position flat whatever the gate. *)
LEMMA FlattenIsFlat ==
  ASSUME TypeOK, NEW signer, MarkTick(signer, 0)
  PROVE  notional' = 0
<1> DEFINE p == Price
           eq == Equity(fuel, realized, notional, vwap, p)
           coll == EffectiveCollateral(fuel, realized)
<1>1. p \in Nat \ {0}
  BY OracleAssumption DEF MarkTick, OracleFresh, Priced, Price
<1>2. notional \in Int
  BY I64Facts DEF TypeOK
<1>3. GatedTarget(eq, coll, 0) = 0
  <2>1. TargetNotional(coll, lev, 0) = 0
    BY DEF TargetNotional
  <2>2. AbsOf(0) = 0 /\ AbsOf(notional) \in Nat
    BY <1>2, AbsType DEF AbsOf
  <2>3. ~(AbsOf(0) > AbsOf(notional))
    BY <2>2
  <2> QED BY <2>1, <2>3 DEF GatedTarget
<1>4. notional' = SettleToTarget(notional, vwap, GatedTarget(eq, coll, 0), p).notional
  BY DEF MarkTick
<1> HIDE DEF p, eq, coll
<1> QED BY <1>1, <1>3, <1>4 DEF SettleToTarget, Settle

(* Every step of the engine is a step of the lifecycle it promises.        *)
LEMMA StepLife ==
  ASSUME IInv, [Next]_vars
  PROVE  [Life!Next]_(Life!lifecycle)
<1> USE DEF Life!Next, Life!lifecycle
<1>1. CASE CallInit
  <2>1. PICK f \in FuelArgs, l \in LevArgs, fl \in FloorArgs, exp \in 0 .. MaxTime :
          InitRide(f, l, fl, exp)
    BY <1>1 DEF CallInit
  <2>2. now \in Nat /\ exp \in Int /\ exp > now /\ expires' = exp /\ now' = now
    BY <2>1 DEF InitRide, IInv, TypeOK
  <2>3. /\ (status' \in {"ARMED", "RIDING"} /\ now' >= expires') = FALSE
        /\ (status \in {"ARMED", "RIDING"} /\ now >= expires) \in BOOLEAN
    BY <2>2
  <2> QED BY <2>1, <2>3 DEF InitRide, Zeroed, Life!Create
<1>2. CASE DelegateRide
  BY <1>2 DEF DelegateRide, config, position, view, Life!Delegate
<1>3. ASSUME NEW signer \in Signers, NEW exp, StaleTick(signer, exp)
      PROVE  Life!Record(exp # 0)
  <2>1. "ORACLE_STALE" \in flags'
    BY <1>3 DEF StaleTick
  <2>2. /\ loc' = loc /\ loc \in {"base", "er"} /\ target' = exp
        /\ status' = status /\ status \in {"ARMED", "RIDING"} /\ notional' = notional
    BY <1>3 DEF StaleTick, TickAllowed, Loadable, position
  <2>3. now < expires /\ UNCHANGED <<now, expires>> /\ now \in Nat /\ expires \in Nat
    BY <1>3 DEF StaleTick, TickAllowed, config, IInv, TypeOK
  <2>4. /\ (status \in {"ARMED", "RIDING"} /\ now >= expires) = FALSE
        /\ (status \in {"ARMED", "RIDING"} /\ now >= expires)' = FALSE
    BY <2>3
  <2> QED BY <2>1, <2>2, <2>4 DEF Life!Record, Life!TakesTicks, Life!InPlay
<1>4. ASSUME NEW signer \in Signers, NEW exp, MarkTick(signer, exp)
      PROVE  Life!Mark(exp # 0)
  <2>1. ~("ORACLE_STALE" \in flags')
    BY <1>4 DEF MarkTick
  <2>2. exp = 0 => notional' = 0
    BY <1>4, FlattenIsFlat DEF IInv
  <2>3. /\ loc' = loc /\ loc \in {"base", "er"}
        /\ status \in {"ARMED", "RIDING"} /\ status' = "RIDING" /\ target' = exp
    BY <1>4 DEF MarkTick, TickAllowed, Loadable
  <2>4. ("ORACLE_STALE" \in flags') = FALSE
    BY <2>1
  <2>5. (notional' # 0) \in (IF exp # 0 THEN BOOLEAN ELSE {FALSE})
    BY <2>2
  <2>6. now < expires /\ UNCHANGED <<now, expires>> /\ now \in Nat /\ expires \in Nat
    BY <1>4 DEF MarkTick, TickAllowed, config, IInv, TypeOK
  <2>7. /\ (status \in {"ARMED", "RIDING"} /\ now >= expires) = FALSE
        /\ (status \in {"ARMED", "RIDING"} /\ now >= expires)' = FALSE
    BY <2>6
  <2> QED BY <2>3, <2>4, <2>5, <2>7 DEF Life!Mark, Life!TakesTicks, Life!InPlay
<1>5. ASSUME NEW signer \in Signers, NEW exp, Tick(signer, exp)
      PROVE  Life!Next
  BY <1>3, <1>4, <1>5 DEF Tick
<1>6. CASE CallTick \/ CallFlatten
  BY <1>5, <1>6 DEF CallTick, CallFlatten, Flatten
<1>7. CASE CallFreeze
  BY <1>7 DEF CallFreeze, Freeze, Loadable, position, Life!Freeze, Life!InPlay
<1>8. CASE CallSettle
  BY <1>8 DEF CallSettle, RequestSettle, position, view, Life!RequestSettle
<1>9. CASE ProcessUndelegation
  BY <1>9 DEF ProcessUndelegation, config, position, view, Life!Return
<1>10. CASE CallClose
  BY <1>10 DEF CallClose, CloseRide, Zeroed, IInv, LifecycleConsistent, Life!Close
<1>11. CASE CallPublish \/ UNCHANGED vars
  BY <1>11 DEF CallPublish, Publish, vars, account, config, position, view
<1>12. CASE AdvanceClock
  BY <1>12 DEF AdvanceClock, account, config, position, view, Life!Expire, Life!InPlay,
     IInv, LifecycleConsistent, TypeOK
<1> QED BY <1>1, <1>2, <1>6, <1>7, <1>8, <1>9, <1>10, <1>11, <1>12 DEF Next

(* The engine implements the lifecycle the app is composed with.           *)
THEOREM EngineImplementsLifecycle == Spec => ImplementsLifecycle
<1>1. Init => Life!Init
  BY DEF Init, Life!Init
<1>2. IInv /\ [Next]_vars => [Life!Next]_(Life!lifecycle)
  BY StepLife
<1> QED BY <1>1, <1>2, Inductive, PTL DEF Spec, ImplementsLifecycle, Life!Spec

-------------------------------------------------------------------------------
(* Both builds carry the same accounting and the same price check, under   *)
(* their own names.                                                        *)
LEMMA AnchorHelpers ==
  /\ \A x : /\ Anchor!AbsOf(x) = AbsOf(x) /\ Anchor!SignOf(x) = SignOf(x)
            /\ Anchor!Sat(x) = Sat(x)
  /\ \A a, b : Anchor!TruncDiv(a, b) = TruncDiv(a, b)
BY DEF Anchor!AbsOf, AbsOf, Anchor!SignOf, SignOf, Anchor!Sat, Sat, Anchor!I64Min,
   I64Min, Anchor!TruncDiv, TruncDiv

(* The same for the accounting a tick calls.                               *)
LEMMA AnchorAccounting ==
  /\ \A f, r, n, v, m : Anchor!Equity(f, r, n, v, m) = Equity(f, r, n, v, m)
  /\ \A f, r : Anchor!EffectiveCollateral(f, r) = EffectiveCollateral(f, r)
  /\ \A c, l, e : Anchor!TargetNotional(c, l, e) = TargetNotional(c, l, e)
  /\ \A n, v, t, m : Anchor!SettleToTarget(n, v, t, m) = SettleToTarget(n, v, t, m)
  /\ \A n, c, l : Anchor!NotionalToBps(n, c, l) = NotionalToBps(n, c, l)
  /\ \A e, f : Anchor!Breached(e, f) = Breached(e, f) /\ Anchor!Bankrupt(e) = Bankrupt(e)
<1>1. \A n, v, m : Anchor!UnrealizedPnl(n, v, m) = UnrealizedPnl(n, v, m)
  BY AnchorHelpers DEF Anchor!UnrealizedPnl, UnrealizedPnl
<1>2. \A f, r, n, v, m : Anchor!Equity(f, r, n, v, m) = Equity(f, r, n, v, m)
  BY <1>1, AnchorHelpers DEF Anchor!Equity, Equity, Anchor!EffectiveEquity, EffectiveEquity
<1>3. \A f, r : Anchor!EffectiveCollateral(f, r) = EffectiveCollateral(f, r)
  BY AnchorHelpers DEF Anchor!EffectiveCollateral, EffectiveCollateral
<1>4. \A c, l, e : Anchor!TargetNotional(c, l, e) = TargetNotional(c, l, e)
  BY AnchorHelpers DEF Anchor!TargetNotional, TargetNotional
<1>5. \A n, v, t, m : Anchor!SettleToTarget(n, v, t, m) = SettleToTarget(n, v, t, m)
  BY AnchorHelpers DEF Anchor!SettleToTarget, SettleToTarget, Anchor!Resize, Resize,
     Anchor!CloseAll, CloseAll, Anchor!RealizeClose, RealizeClose,
     Anchor!WeightedVwap, WeightedVwap, Anchor!Settle, Settle
<1>6. \A n, c, l : Anchor!NotionalToBps(n, c, l) = NotionalToBps(n, c, l)
  BY AnchorHelpers DEF Anchor!NotionalToBps, NotionalToBps
<1>7. \A e, f : Anchor!Breached(e, f) = Breached(e, f) /\ Anchor!Bankrupt(e) = Bankrupt(e)
  BY DEF Anchor!Breached, Breached, Anchor!Bankrupt, Bankrupt
<1> QED BY <1>2, <1>3, <1>4, <1>5, <1>6, <1>7

(* The same for the price account.                                         *)
LEMMA AnchorFeed ==
  /\ Anchor!NoFeed = NoFeed
  /\ \A f : /\ Anchor!Genuine(f) = Genuine(f) /\ Anchor!Priced(f) = Priced(f)
            /\ Anchor!MarkOf(f) = MarkOf(f)
BY DEF Anchor!NoFeed, NoFeed, Anchor!Genuine, Genuine, Anchor!MarkOf, MarkOf,
   Anchor!NormalizeToE9, NormalizeToE9, Anchor!Priced, Priced

(* The account as the Anchor build's record, and the form of such a record *)
(* that the provers can compare field by field.                            *)
RideOf(s, f, fu, l, fl, e, n, v, re, t, vi, m, ti) ==
  [status |-> s, flags |-> f, fuel |-> fu, max_lev |-> l, floor |-> fl,
   expires_at |-> e, notional |-> n, entry_vwap |-> v, realized |-> re,
   target_exp |-> t, virt_exp |-> vi, last_mark |-> m, tick_count |-> ti]
Record ==
  [status |-> status, flags |-> flags, fuel |-> fuel, max_lev |-> lev,
   floor |-> floor, expires_at |-> expires, notional |-> notional,
   entry_vwap |-> vwap, realized |-> realized, target_exp |-> target,
   virt_exp |-> virt, last_mark |-> mark, tick_count |-> ticks]
Fields ==
  {"status", "flags", "fuel", "max_lev", "floor", "expires_at", "notional",
   "entry_vwap", "realized", "target_exp", "virt_exp", "last_mark", "tick_count"}
IsRide(r) == r = [x \in Fields |-> r[x]]

(* Such a record is its thirteen fields.                                   *)
LEMMA RideEta ==
  ASSUME NEW q, IsRide(q)
  PROVE  q = RideOf(q.status, q.flags, q.fuel, q.max_lev, q.floor, q.expires_at,
                    q.notional, q.entry_vwap, q.realized, q.target_exp,
                    q.virt_exp, q.last_mark, q.tick_count)
BY DEF Fields, IsRide, RideOf

(* The account is one.                                                     *)
LEMMA RecordIsRide ==
  /\ IsRide(Record)
  /\ Record.status = status /\ Record.flags = flags /\ Record.fuel = fuel
  /\ Record.max_lev = lev /\ Record.floor = floor /\ Record.expires_at = expires
  /\ Record.notional = notional /\ Record.entry_vwap = vwap
  /\ Record.realized = realized /\ Record.target_exp = target
  /\ Record.virt_exp = virt /\ Record.last_mark = mark /\ Record.tick_count = ticks
BY DEF Record, Fields, IsRide

(* What an unmarked tick makes of it.                                      *)
UnmarkedOf(r, b, c, d) ==
  [r EXCEPT !.flags = b, !.target_exp = c, !.tick_count = d]
(* Field by field, this is that record.                                    *)
LEMMA UnmarkedForm ==
  ASSUME NEW r, IsRide(r), NEW b, NEW c, NEW d
  PROVE  UnmarkedOf(r, b, c, d) =
           RideOf(r.status, b, r.fuel, r.max_lev, r.floor, r.expires_at,
                  r.notional, r.entry_vwap, r.realized, c,
                  r.virt_exp, r.last_mark, d)
<1>1. PICK q : q = UnmarkedOf(r, b, c, d)
  OBVIOUS
<1>2. /\ IsRide(q) /\ q.status = r.status /\ q.flags = b /\ q.fuel = r.fuel
      /\ q.max_lev = r.max_lev /\ q.floor = r.floor
      /\ q.expires_at = r.expires_at /\ q.notional = r.notional
      /\ q.entry_vwap = r.entry_vwap /\ q.realized = r.realized
      /\ q.target_exp = c /\ q.virt_exp = r.virt_exp
      /\ q.last_mark = r.last_mark /\ q.tick_count = d
  BY <1>1 DEF IsRide, Fields, UnmarkedOf
<1> QED BY <1>1, <1>2, RideEta

(* What a freeze makes of it.                                              *)
FrozenOf(r, b, c, d) ==
  [r EXCEPT !.status = b, !.target_exp = c, !.flags = d]
(* Field by field, this is that record.                                    *)
LEMMA FrozenForm ==
  ASSUME NEW r, IsRide(r), NEW b, NEW c, NEW d
  PROVE  FrozenOf(r, b, c, d) =
           RideOf(b, d, r.fuel, r.max_lev, r.floor, r.expires_at,
                  r.notional, r.entry_vwap, r.realized, c,
                  r.virt_exp, r.last_mark, r.tick_count)
<1>1. PICK q : q = FrozenOf(r, b, c, d)
  OBVIOUS
<1>2. /\ IsRide(q) /\ q.status = b /\ q.flags = d /\ q.fuel = r.fuel
      /\ q.max_lev = r.max_lev /\ q.floor = r.floor
      /\ q.expires_at = r.expires_at /\ q.notional = r.notional
      /\ q.entry_vwap = r.entry_vwap /\ q.realized = r.realized
      /\ q.target_exp = c /\ q.virt_exp = r.virt_exp
      /\ q.last_mark = r.last_mark /\ q.tick_count = r.tick_count
  BY <1>1 DEF IsRide, Fields, FrozenOf
<1> QED BY <1>1, <1>2, RideEta

(* What a creation makes of it.                                            *)
CreatedOf(r, a, b, c, d, e) ==
  [r EXCEPT !.status = a, !.fuel = b, !.max_lev = c, !.floor =
                  d, !.expires_at = e]
(* Field by field, this is that record.                                    *)
LEMMA CreatedForm ==
  ASSUME NEW r, IsRide(r), NEW a, NEW b, NEW c, NEW d, NEW e
  PROVE  CreatedOf(r, a, b, c, d, e) =
           RideOf(a, r.flags, b, c, d, e, r.notional, r.entry_vwap,
                  r.realized, r.target_exp, r.virt_exp,
                  r.last_mark, r.tick_count)
<1>1. PICK q : q = CreatedOf(r, a, b, c, d, e)
  OBVIOUS
<1>2. /\ IsRide(q) /\ q.status = a /\ q.flags = r.flags /\ q.fuel = b
      /\ q.max_lev = c /\ q.floor = d /\ q.expires_at = e
      /\ q.notional = r.notional /\ q.entry_vwap = r.entry_vwap
      /\ q.realized = r.realized /\ q.target_exp = r.target_exp
      /\ q.virt_exp = r.virt_exp /\ q.last_mark = r.last_mark
      /\ q.tick_count = r.tick_count
  BY <1>1 DEF IsRide, Fields, CreatedOf
<1> QED BY <1>1, <1>2, RideEta

(* What a marked tick makes of it.                                         *)
MarkedOf(r, a, b, c, d, e, f, g, h, i) ==
  [r EXCEPT !.flags = a, !.realized = b, !.notional = c,
                  !.entry_vwap = d, !.target_exp = e,
                  !.virt_exp = f, !.last_mark = g,
                  !.tick_count = h, !.status = i]
(* Field by field, this is that record.                                    *)
LEMMA MarkedForm ==
  ASSUME NEW r, IsRide(r), NEW a, NEW b, NEW c, NEW d, NEW e, NEW f, NEW g, NEW h, NEW i
  PROVE  MarkedOf(r, a, b, c, d, e, f, g, h, i) =
           RideOf(i, a, r.fuel, r.max_lev, r.floor, r.expires_at, c, d, b,
                  e, f, g, h)
<1>1. PICK q : q = MarkedOf(r, a, b, c, d, e, f, g, h, i)
  OBVIOUS
<1>2. /\ IsRide(q) /\ q.status = i /\ q.flags = a /\ q.fuel = r.fuel
      /\ q.max_lev = r.max_lev /\ q.floor = r.floor
      /\ q.expires_at = r.expires_at /\ q.notional = c /\ q.entry_vwap = d
      /\ q.realized = b /\ q.target_exp = e /\ q.virt_exp = f
      /\ q.last_mark = g /\ q.tick_count = h
  BY <1>1 DEF IsRide, Fields, MarkedOf
<1> QED BY <1>1, <1>2, RideEta

(* A tick of the deployed build, at a price not stamped ahead of the clock,*)
(* is one of the Anchor build: the same freshness, the same gate, the same *)
(* settlement, every field.                                                *)
LEMMA TickAgrees ==
  ASSUME IInv, NEW signer, NEW exp \in ExpArgs \cup {0}, Tick(signer, exp),
         oracle.ts <= now
  PROVE  Anchor!Tick(signer, exp)
<1>a. now \in Nat /\ oracle.ts \in Nat /\ MaxStaleness \in Nat
  BY OracleAssumption DEF IInv, TypeOK
<1>1. Anchor!ReadOracle <=> OracleFresh
  BY <1>a, AnchorFeed DEF Anchor!ReadOracle, OracleFresh
<1>2. /\ exp \in -BpsScale .. BpsScale /\ signer = "session"
      /\ Anchor!Loads /\ status \in {"ARMED", "RIDING"} /\ now < expires
      /\ UNCHANGED <<loc, now, oracle>>
  BY DEF Tick, StaleTick, MarkTick, TickAllowed, Loadable, Anchor!Loads
<1>3. CASE StaleTick(signer, exp)
  <2>a. Anchor!Unmarked(exp) =
          UnmarkedOf(Record, flags \cup {"ORACLE_STALE"}, exp, ticks + 1)
    BY DEF Record, UnmarkedOf, Anchor!Unmarked
  <2>b. Anchor!Unmarked(exp) =
          RideOf(status, flags \cup {"ORACLE_STALE"}, fuel, lev, floor, expires,
                 notional, vwap, realized, exp, virt, mark, ticks + 1)
    BY <2>a, RecordIsRide, UnmarkedForm
  <2>1. Record' = Anchor!Unmarked(exp)
    BY <1>3, <2>b DEF StaleTick, Record, RideOf, config, position
  <2>2. ~Anchor!ReadOracle
    BY <1>1, <1>3 DEF StaleTick
  <2> QED BY <1>2, <2>1, <2>2 DEF Anchor!Tick, Anchor!Put, Anchor!world, Record
<1>4. CASE MarkTick(signer, exp)
  <2> DEFINE p == Price
             eq == Equity(fuel, realized, notional, vwap, p)
             coll == EffectiveCollateral(fuel, realized)
             g == GatedTarget(eq, coll, exp)
             s == SettleToTarget(notional, vwap, g, p)
  <2>1. Anchor!ReadOracle /\ Anchor!MarkOf(oracle.feed) = p
    BY <1>1, <1>4, AnchorFeed DEF MarkTick, Price
  <2>2. Anchor!Aim(eq, coll, exp) = g
    BY AnchorAccounting, AnchorHelpers DEF Anchor!Aim, GatedTarget
  <2>3. Anchor!Raised(eq) = (IF Breached(eq, floor) THEN {"FLOOR_BREACHED"} ELSE {})
                              \cup (IF Bankrupt(eq) THEN {"BANKRUPT"} ELSE {})
    BY AnchorAccounting DEF Anchor!Raised
  <2> DEFINE flags2 == (flags \ {"ORACLE_STALE"}) \cup Anchor!Raised(eq)
  <2>4. /\ status' = "RIDING" /\ flags' = flags2
        /\ notional' = s.notional /\ vwap' = s.vwap /\ realized' = Sat(realized + s.realized)
        /\ target' = exp /\ virt' = NotionalToBps(s.notional, coll, lev)
        /\ mark' = p /\ ticks' = ticks + 1
        /\ UNCHANGED <<fuel, lev, floor, expires>>
    BY <1>4, <2>3 DEF MarkTick, config
  <2>5. Anchor!Marked(exp, p) =
          MarkedOf(Record, flags2, Sat(realized + s.realized), s.notional, s.vwap,
                   exp, NotionalToBps(s.notional, coll, lev), p, ticks + 1, "RIDING")
    BY <2>2, AnchorAccounting, AnchorHelpers DEF Anchor!Marked, MarkedOf, Record
  <2> HIDE DEF p, eq, coll, g, s, flags2
  <2>b. Anchor!Marked(exp, p) =
          RideOf("RIDING", flags2, fuel, lev, floor, expires, s.notional, s.vwap,
                 Sat(realized + s.realized), exp,
                 NotionalToBps(s.notional, coll, lev), p, ticks + 1)
    BY <2>5, RecordIsRide, MarkedForm
  <2>6. Record' = Anchor!Marked(exp, p)
    BY <2>4, <2>b DEF Record, RideOf
  <2> QED BY <1>2, <2>1, <2>6 DEF Anchor!Tick, Anchor!Put, Anchor!world, Record
<1> QED BY <1>3, <1>4 DEF Tick

(* Every step of the deployed build is one of the Anchor build, unless the *)
(* price is stamped ahead of the clock.                                    *)
LEMMA StepAgrees ==
  ASSUME IInv, Next, oracle.ts <= now
  PROVE  Anchor!Next
<1> USE DEF Anchor!Next, Anchor!Instruction, Anchor!world, Anchor!Callers, Signers
<1>1. CASE CallInit
  <2>1. PICK f \in FuelArgs, l \in LevArgs, fl \in FloorArgs, e \in 0 .. MaxTime :
           InitRide(f, l, fl, e)
    BY <1>1 DEF CallInit
  <2>2. /\ IsRide(Anchor!Blank)
        /\ Anchor!Blank.flags = {} /\ Anchor!Blank.notional = 0
        /\ Anchor!Blank.entry_vwap = 0 /\ Anchor!Blank.realized = 0
        /\ Anchor!Blank.target_exp = 0 /\ Anchor!Blank.virt_exp = 0
        /\ Anchor!Blank.last_mark = 0 /\ Anchor!Blank.tick_count = 0
    BY DEF Anchor!Blank, IsRide, Fields
  <2>3. CreatedOf(Anchor!Blank, "ARMED", f, l, fl, e) =
          RideOf("ARMED", {}, f, l, fl, e, 0, 0, 0, 0, 0, 0, 0)
    BY <2>2, CreatedForm
  <2>4. Record' = CreatedOf(Anchor!Blank, "ARMED", f, l, fl, e)
    BY <2>1, <2>3 DEF InitRide, Zeroed, Record, RideOf
  <2>5. Anchor!InitRide(f, l, fl, e)
    <3>1. Record' = [Anchor!Blank EXCEPT !.status = "ARMED", !.fuel = f,
                       !.max_lev = l, !.floor = fl, !.expires_at = e]
      BY <2>4 DEF CreatedOf
    <3>2. /\ loc = "none" /\ f > 0 /\ fl < 0 /\ e > now /\ loc' = "base"
          /\ UNCHANGED Anchor!world
      BY <2>1 DEF InitRide
    <3>3. l \in MinLev .. MaxLev
      BY <2>1, RideAssumption DEF InitRide
    <3> QED BY <3>1, <3>2, <3>3, Zenon DEF Anchor!InitRide, Record
  <2> QED BY <2>1, <2>5
<1>2. CASE DelegateRide
  BY <1>2 DEF DelegateRide, config, position, view, Anchor!DelegateRide
<1>3. CASE CallTick \/ CallFlatten
  <2>1. PICK signer \in Signers, exp \in ExpArgs \cup {0} : Tick(signer, exp)
    BY <1>3 DEF CallTick, CallFlatten, Flatten
  <2> QED BY <2>1, TickAgrees
<1>4. CASE CallFreeze
  <2>0. PICK signer \in Signers : Freeze(signer)
    BY <1>4 DEF CallFreeze
  <2>1. FrozenOf(Record, "FROZEN", 0, flags \cup {"FLOOR_BREACHED"}) =
          RideOf("FROZEN", flags \cup {"FLOOR_BREACHED"}, fuel, lev, floor, expires,
                 notional, vwap, realized, 0, virt, mark, ticks)
    BY RecordIsRide, FrozenForm
  <2>2. Record' = FrozenOf(Record, "FROZEN", 0, flags \cup {"FLOOR_BREACHED"})
    BY <2>0, <2>1 DEF Freeze, Record, RideOf, config, position
  <2>3. Anchor!Put(FrozenOf(Record, "FROZEN", 0, flags \cup {"FLOOR_BREACHED"}))
    BY <2>0, <2>2 DEF Freeze, Anchor!Put, Record
  <2>4. Anchor!Freeze(signer)
    BY <2>0, <2>3 DEF Freeze, Loadable, Anchor!Freeze, Anchor!Loads,
       FrozenOf, Record
  <2> QED BY <2>4
<1>5. CASE CallSettle
  BY <1>5 DEF CallSettle, RequestSettle, config, position, view, Anchor!RequestSettle
<1>6. CASE ProcessUndelegation
  BY <1>6 DEF ProcessUndelegation, config, position, view, Anchor!ProcessUndelegation
<1>7. CASE CallClose
  BY <1>7 DEF CallClose, CloseRide, Zeroed, Anchor!CloseRide, Anchor!Blank
<1>8. CASE AdvanceClock \/ CallPublish
  BY <1>8 DEF AdvanceClock, CallPublish, Publish, account, config, position, view,
     Anchor!World
<1> QED BY <1>1, <1>2, <1>3, <1>4, <1>5, <1>6, <1>7, <1>8 DEF Next

(* The rewritten build does nothing the Anchor build would not do, except  *)
(* at a price stamped ahead of the clock.                                  *)
THEOREM RewriteAgrees == Spec => AgreesWithAnchor
<1>1. Init => Anchor!Init
  BY AnchorFeed DEF Init, Anchor!Init, Anchor!Blank
<1>2. IInv /\ [Next]_vars => [oracle.ts <= now => Anchor!Next]_vars
  BY StepAgrees
<1> QED BY <1>1, <1>2, Inductive, PTL DEF Spec, AgreesWithAnchor
===============================================================================
