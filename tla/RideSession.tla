------------------------------ MODULE RideSession -----------------------------
(***************************************************************************)
(* The on-chain engine: one RideSession account, the instructions of       *)
(* throtl-engine that act on it, the clock and the price oracle they read. *)
(* An instruction whose check fails aborts its transaction and changes     *)
(* nothing, so every `require!' is a conjunct of the action's guard.       *)
(*                                                                         *)
(* `loc' says where the account is: it does not exist, it is on the base   *)
(* chain owned by the program, it is delegated to the rollup (where the    *)
(* program owns a writable clone), or its commit-and-undelegate has been   *)
(* scheduled and neither side can load it until the delegation program     *)
(* hands it back.                                                          *)
(***************************************************************************)
EXTENDS Accounting, OraclePrice

CONSTANTS
  FuelArgs, LevArgs, FloorArgs,  \* arguments init_ride may be called with
  ExpArgs,                       \* exposures (bps) tick may be called with
  Feeds,                         \* price accounts a tick may be handed
  MinLev, MaxLev,                \* MIN_LEV_BPS, MAX_LEV_BPS_CEILING
  MaxTtl,                        \* MAX_SESSION_TTL_SECS
  MaxTime,                       \* bound on the clock
  MaxTicks                       \* bound on the ticks of one ride

ASSUME RideAssumption ==
  /\ FuelArgs \subseteq Nat
  /\ LevArgs \subseteq Nat
  /\ FloorArgs \subseteq Int
  /\ ExpArgs \subseteq Int
  /\ Feeds \subseteq FeedAccount
  /\ MinLev \in Nat \ {0} /\ MaxLev \in Nat
  /\ MaxTtl \in Nat
  /\ MaxTime \in Nat /\ MaxTicks \in Nat

Signers == {"owner", "session", "other"}
Status == {"none", "ARMED", "RIDING", "FROZEN", "SETTLING", "CLOSED"}
Flag == {"FLOOR_BREACHED", "ORACLE_STALE", "BANKRUPT"}

VARIABLES
  loc,                          \* where the account is
  status, flags,
  fuel, lev, floor, expires,    \* written once, by init_ride
  notional, vwap, realized,     \* the virtual position and its banked PnL
  target, virt,                 \* target_exp_bps, virt_exp_bps
  mark, ticks,                  \* last_mark_e9, tick_count
  now,                          \* the chain's clock
  oracle                        \* the price account and its publish time

config == <<fuel, lev, floor, expires>>
position == <<notional, vwap, realized>>
view == <<target, virt, mark, ticks>>
account == <<loc, status, flags, config, position, view>>
vars == <<account, now, oracle>>

-------------------------------------------------------------------------------
(***************************************************************************)
(* The account's states.  Create and close both leave the zeroed account   *)
(* of `Zeroed' behind, up to the fields init_ride writes.                  *)
(***************************************************************************)
Zeroed ==
  /\ flags' = {}
  /\ notional' = 0 /\ vwap' = 0 /\ realized' = 0
  /\ target' = 0 /\ virt' = 0 /\ mark' = 0 /\ ticks' = 0

Init ==
  /\ loc = "none" /\ status = "none" /\ flags = {}
  /\ fuel = 0 /\ lev = 0 /\ floor = 0 /\ expires = 0
  /\ notional = 0 /\ vwap = 0 /\ realized = 0
  /\ target = 0 /\ virt = 0 /\ mark = 0 /\ ticks = 0
  /\ now = 0
  /\ oracle = [feed |-> NoFeed, ts |-> 0]

(* RideSession::check: only a program-owned account can be loaded.         *)
Loadable == loc \in {"base", "er"}

-------------------------------------------------------------------------------
(* Mutant: the account of a live ride may be initialised again.            *)
InitRideAgain(f, l, fl, exp) ==
  /\ loc \in {"none", "base"}
  /\ f > 0
  /\ l <= MaxLev /\ l >= MinLev
  /\ fl < 0
  /\ exp > now /\ exp <= now + MaxTtl
  /\ loc' = "base" /\ status' = "ARMED"
  /\ fuel' = f /\ lev' = l /\ floor' = fl /\ expires' = exp
  /\ Zeroed
  /\ UNCHANGED <<now, oracle>>

(* init_ride: signed by the owner whose key seeds the address.             *)
InitRide(f, l, fl, exp) ==
  /\ loc = "none"
  /\ f > 0
  /\ l <= MaxLev /\ l >= MinLev
  /\ fl < 0
  /\ exp > now /\ exp <= now + MaxTtl
  /\ loc' = "base" /\ status' = "ARMED"
  /\ fuel' = f /\ lev' = l /\ floor' = fl /\ expires' = exp
  /\ Zeroed
  /\ UNCHANGED <<now, oracle>>

(* delegate_ride looks at the seeds and the owner, never at the status.    *)
DelegateRide ==
  /\ loc = "base"
  /\ loc' = "er"
  /\ UNCHANGED <<status, flags, config, position, view, now, oracle>>

(* read_oracle: a usable price that is neither stale nor future-dated.     *)
Price == MarkOf(oracle.feed)
OracleFresh ==
  /\ Genuine(oracle.feed) /\ Priced(oracle.feed)
  /\ now - oracle.ts >= 0 /\ now - oracle.ts <= MaxStaleness

(* Mutant: the session key outlives the session.                           *)
TickNeverExpires(signer) ==
  /\ Loadable
  /\ signer = "session"
  /\ status \in {"ARMED", "RIDING"}
  /\ ticks < MaxTicks

TickAllowed(signer) ==
  /\ Loadable
  /\ signer = "session"
  /\ status \in {"ARMED", "RIDING"}
  /\ now < expires
  /\ ticks < MaxTicks

(* Mutant: a stale tick records an exposure it never validated.            *)
StaleTickUnchecked(signer, exp) ==
  /\ TickAllowed(signer)
  /\ ~OracleFresh
  /\ flags' = flags \cup {"ORACLE_STALE"}
  /\ target' = exp
  /\ ticks' = ticks + 1
  /\ UNCHANGED <<loc, status, config, position, virt, mark, now, oracle>>

(* The needle freezes: the target is recorded, nothing is marked.          *)
StaleTick(signer, exp) ==
  /\ TickAllowed(signer)
  /\ exp \in -BpsScale .. BpsScale
  /\ ~OracleFresh
  /\ flags' = flags \cup {"ORACLE_STALE"}
  /\ target' = exp
  /\ ticks' = ticks + 1
  /\ UNCHANGED <<loc, status, config, position, virt, mark, now, oracle>>

(* Mutants of the floor gate: it also refuses reductions, the collateral   *)
(* is the fuel put in, bankruptcy alone does not close it.                 *)
GateHolds(eq, coll, exp) ==
  IF Breached(eq, floor) \/ Bankrupt(eq)
  THEN notional
  ELSE TargetNotional(coll, lev, exp)
GateOnFuel(eq, coll, exp) ==
  LET asked == TargetNotional(fuel, lev, exp) IN
  IF (Breached(eq, floor) \/ Bankrupt(eq)) /\ AbsOf(asked) > AbsOf(notional)
  THEN notional
  ELSE asked
GateOnFloorOnly(eq, coll, exp) ==
  LET asked == TargetNotional(coll, lev, exp) IN
  IF Breached(eq, floor) /\ AbsOf(asked) > AbsOf(notional)
  THEN notional
  ELSE asked

(* What the floor gate lets a tick aim for.                                *)
GatedTarget(eq, coll, exp) ==
  LET asked == TargetNotional(coll, lev, exp) IN
  IF (Breached(eq, floor) \/ Bankrupt(eq)) /\ AbsOf(asked) > AbsOf(notional)
  THEN notional
  ELSE asked

MarkTick(signer, exp) ==
  LET p    == Price
      eq   == Equity(fuel, realized, notional, vwap, p)
      coll == EffectiveCollateral(fuel, realized)
      s    == SettleToTarget(notional, vwap, GatedTarget(eq, coll, exp), p)
  IN
  /\ TickAllowed(signer)
  /\ exp \in -BpsScale .. BpsScale
  /\ OracleFresh
  /\ flags' = (flags \ {"ORACLE_STALE"})
                \cup (IF Breached(eq, floor) THEN {"FLOOR_BREACHED"} ELSE {})
                \cup (IF Bankrupt(eq) THEN {"BANKRUPT"} ELSE {})
  /\ notional' = s.notional /\ vwap' = s.vwap
  /\ realized' = Sat(realized + s.realized)
  /\ target' = exp
  /\ virt' = NotionalToBps(s.notional, coll, lev)
  /\ mark' = p
  /\ ticks' = ticks + 1
  /\ status' = "RIDING"
  /\ UNCHANGED <<loc, config, now, oracle>>

Tick(signer, exp) == StaleTick(signer, exp) \/ MarkTick(signer, exp)
Flatten(signer) == Tick(signer, 0)

Freeze(signer) ==
  /\ Loadable
  /\ signer \in {"owner", "session"}
  /\ status \in {"RIDING", "ARMED"}
  /\ status' = "FROZEN"
  /\ target' = 0
  /\ flags' = flags \cup {"FLOOR_BREACHED"}
  /\ UNCHANGED <<loc, config, position, virt, mark, ticks, now, oracle>>

(* Mutants of the settlement: the status is not written, a frozen ride is  *)
(* refused.                                                                *)
SettleForgetsStatus(signer) ==
  /\ loc = "er"
  /\ signer \in {"owner", "session"}
  /\ loc' = "undelegating"
  /\ UNCHANGED <<status, flags, config, position, view, now, oracle>>
SettleUnlessFrozen(signer) ==
  /\ loc = "er" /\ status # "FROZEN"
  /\ signer \in {"owner", "session"}
  /\ status' = "SETTLING"
  /\ loc' = "undelegating"
  /\ UNCHANGED <<flags, config, position, view, now, oracle>>

(* The commit-and-undelegate call only exists on the rollup: on the base   *)
(* chain it fails and takes the status change with it.                     *)
RequestSettle(signer) ==
  /\ loc = "er"
  /\ signer \in {"owner", "session"}
  /\ status' = "SETTLING"
  /\ loc' = "undelegating"
  /\ UNCHANGED <<flags, config, position, view, now, oracle>>

(* Driven by the delegation program: the committed bytes come back.        *)
ProcessUndelegation ==
  /\ loc = "undelegating"
  /\ loc' = "base"
  /\ UNCHANGED <<status, flags, config, position, view, now, oracle>>

CloseRide(signer) ==
  /\ loc = "base"
  /\ signer = "owner"
  /\ status \in {"SETTLING", "CLOSED"}
  /\ loc' = "none" /\ status' = "none"
  /\ fuel' = 0 /\ lev' = 0 /\ floor' = 0 /\ expires' = 0
  /\ Zeroed
  /\ UNCHANGED <<now, oracle>>

-------------------------------------------------------------------------------
(* The environment: time passes, and the feed is republished with a stamp  *)
(* that may run ahead of the chain's clock by one second.                  *)
AdvanceClock ==
  /\ now < MaxTime
  /\ now' = now + 1
  /\ UNCHANGED <<account, oracle>>

Publish(f, skew) ==
  /\ oracle' = [feed |-> f, ts |-> now + skew]
  /\ UNCHANGED <<account, now>>

-------------------------------------------------------------------------------
CallInit ==
  \E f \in FuelArgs, l \in LevArgs, fl \in FloorArgs, exp \in 0 .. MaxTime :
    InitRide(f, l, fl, exp)
CallTick == \E s \in Signers, exp \in ExpArgs : Tick(s, exp)
CallFlatten == \E s \in Signers : Flatten(s)
CallFreeze == \E s \in Signers : Freeze(s)
CallSettle == \E s \in Signers : RequestSettle(s)
CallClose == \E s \in Signers : CloseRide(s)
CallPublish == \E f \in Feeds, skew \in 0 .. 1 : Publish(f, skew)

Next ==
  \/ CallInit \/ DelegateRide \/ CallTick \/ CallFlatten \/ CallFreeze
  \/ CallSettle \/ ProcessUndelegation \/ CallClose
  \/ AdvanceClock \/ CallPublish

Spec == Init /\ [][Next]_vars

(***************************************************************************)
(* Fairness of an owner who wants the rent back: the ride is handed to the *)
(* rollup, settled there, returned by the delegation program and closed.   *)
(* Only the last is the app's own persistence: it keeps the ride in its    *)
(* reclaim list and closes again for as long as it takes, hence strong     *)
(* fairness.  That somebody delegates a ride the arming left on the base   *)
(* chain, and asks for the settlement, is assumed of the owner: the app    *)
(* tries each once.  The return is the delegation program's.  No fairness  *)
(* is asked of the session key, the clock or the oracle.                   *)
(***************************************************************************)
OwnerRetries == SF_vars(CloseRide("owner"))

OwnerExit ==
  /\ WF_vars(DelegateRide /\ status # "SETTLING")
  /\ WF_vars(RequestSettle("owner"))
  /\ WF_vars(ProcessUndelegation)
  /\ OwnerRetries

FairSpec == Spec /\ OwnerExit

-------------------------------------------------------------------------------
(* Every field stays in the range its on-chain type can hold.              *)
TypeOK ==
  /\ loc \in {"none", "base", "er", "undelegating"}
  /\ status \in Status
  /\ flags \subseteq Flag
  /\ fuel \in Nat /\ lev \in Nat /\ floor \in Int /\ expires \in Nat
  /\ notional \in I64 /\ vwap \in Nat /\ realized \in I64
  /\ target \in -BpsScale .. BpsScale /\ virt \in Int
  /\ mark \in Nat /\ ticks \in Nat
  /\ now \in Nat
  /\ oracle \in [feed: FeedAccount, ts: Nat]

(* A position has an entry price exactly when it is open: a zero entry     *)
(* would make unrealized_pnl_6 answer 0 and hide the loss of an open       *)
(* position from the floor check (tick, settle_to_target, close_ride).     *)
EntryIffOpen == vwap = 0 <=> notional = 0

(* The account and its lifecycle agree: it is unloadable only while it is  *)
(* settling, an unmarked ride is flat, and nothing survives a close, so    *)
(* that a session id can be used again; the status CLOSED its readers look *)
(* for is never stored (init_ride, request_settle, close_ride).            *)
LifecycleConsistent ==
  /\ loc = "none" <=> status = "none"
  /\ status # "CLOSED"
  /\ loc = "undelegating" => status = "SETTLING"
  /\ status \in {"none", "ARMED"} => notional = 0 /\ realized = 0
  /\ mark = 0 => notional = 0 /\ realized = 0

(* The needle never shows more than the thumb can ask for, whatever the    *)
(* losses banked since did to the collateral (virt_exp_bps against the     *)
(* clamp of GatedTarget).                                                  *)
NeedleWithinScale == virt \in -BpsScale .. BpsScale

(* At a price that leaves the floor alone, the needle a tick sets never    *)
(* runs ahead of the thumb nor to its other side, through the rounding     *)
(* there and back (target_notional_6 and notional_to_bps, both with the    *)
(* collateral from before the tick).                                       *)
NeedleNeverLeads ==
  [][LET eq == Equity(fuel, realized, notional, vwap, Price) IN
     (ticks' > ticks /\ OracleFresh /\ ~Breached(eq, floor) /\ ~Bankrupt(eq)) =>
        \/ 0 <= virt' /\ virt' <= target'
        \/ target' <= virt' /\ virt' <= 0]_vars

(* A tick resizes only to what the collateral then backs: losses already   *)
(* banked shrink the largest position the thumb can reach (tick_inner with *)
(* effective_collateral_6).  Unrealized profit is left out of the size on  *)
(* purpose, as the comment of that function says (math.rs:46-48).  The     *)
(* architecture document (2.2) disagrees: it sizes by the effective        *)
(* equity once realized profit is negative.  The code does not: with an    *)
(* open loss beside a banked one the bound below allows more than that.    *)
ResizeWithinCollateral ==
  [][notional' # notional =>
       AbsOf(notional') * BpsScale <= EffectiveCollateral(fuel, realized) * lev]_vars

(* No step that finds the equity at or under the floor, or gone, leaves a  *)
(* larger position than it found (the breach clamp of tick_inner).         *)
BreachNeverGrows ==
  [][LET eq == Equity(fuel, realized, notional, vwap, Price) IN
     (Breached(eq, floor) \/ Bankrupt(eq)) =>
        AbsOf(notional') <= AbsOf(notional)]_vars

(* Reducing, closing or crossing through zero at a mark books the profit   *)
(* of what is closed exactly once: equity moves from unrealized to         *)
(* realized and changes by one unit of rounding at most, as long as the    *)
(* amounts fit the stored integers (settle_to_target, realize_close).      *)
EquityAt(p) == realized + UnrealizedPnl(notional, vwap, p)
Gain == EquityAt(Price)' - EquityAt(Price)
Grows ==
  /\ notional # 0 /\ SignOf(notional') = SignOf(notional)
  /\ AbsOf(notional') > AbsOf(notional)
ProfitFits ==
  notional # 0 =>
    LET profit == TruncDiv(notional * (Price - vwap), vwap) IN
    AbsOf(notional) <= I64Max /\ profit \in I64 /\ realized + profit \in I64
ReductionBooksOnce ==
  [][(notional' # notional /\ loc' # "none" /\ ~Grows /\ ProfitFits) =>
       Gain \in -1 .. 1]_vars

(* Adding to a position never enriches a long nor impoverishes a short by  *)
(* more than one unit: the entry price moves toward the mark by the share  *)
(* that was added, and books nothing (weighted_vwap).  It is stored as an  *)
(* integer, so this takes a position small beside the grain of the prices. *)
GrainIsFine ==
  \A p, q \in {vwap, Price} : AbsOf(notional') * p <= q * q
AdditionNeverFlatters ==
  [][Grows /\ GrainIsFine =>
       IF notional > 0 THEN Gain <= 1 ELSE Gain >= -1]_vars

(* Money moves only under the thumb: the position and its profit change    *)
(* only in a tick of the unexpired session key at a fresh price, in a ride *)
(* that is neither frozen nor settling, or vanish with the closed account. *)
MoneyMovesOnlyInLiveTick ==
  [][position' # position =>
       \/ loc' = "none" /\ status = "SETTLING"
       \/ /\ ticks' = ticks + 1 /\ mark' = Price
          /\ OracleFresh /\ now < expires
          /\ status \in {"ARMED", "RIDING"}]_vars

(* The lifecycle only goes forward, and the configuration the thumb rides  *)
(* under is fixed from init to close (init_ride against a re-init, freeze, *)
(* request_settle).                                                        *)
ForwardOnly ==
  [][loc # "none" /\ loc' # "none" =>
       /\ status' = "ARMED" => status = "ARMED"
       /\ status' = "RIDING" => status \in {"ARMED", "RIDING"}
       /\ status' = "FROZEN" => status # "SETTLING"
       /\ config' = config]_vars

(* An owner who keeps asking always gets the rent back: no freeze, expiry, *)
(* dead oracle, spent session key or repeated delegation can strand the    *)
(* account (request_settle takes any status; close_ride after it).         *)
RentComesBack == loc # "none" ~> loc = "none"

(***************************************************************************)
(* Forgetting amounts, prices and what time it is, the engine is the       *)
(* lifecycle the app is composed with: in particular a marked tick that    *)
(* asks for nothing leaves the position flat in whatever state the floor   *)
(* is, no instruction but a tick opens or closes it, and none does once    *)
(* the session is over.                                                    *)
(***************************************************************************)
Life == INSTANCE RideLifecycle WITH
  asked <- target # 0, open <- notional # 0, stale <- "ORACLE_STALE" \in flags,
  expired <- status \in {"ARMED", "RIDING"} /\ now >= expires
ImplementsLifecycle == Life!Spec

(***************************************************************************)
(* The deployed build was rewritten by hand so that "the accounting is     *)
(* identical to the Anchor build" (instructions.rs): every step it takes   *)
(* is one the Anchor build takes, field by field, except at a price        *)
(* stamped ahead of the clock, which only the deployed build takes for     *)
(* stale.  The converse fails on purpose: it also caps the time to live of *)
(* a session.                                                              *)
(***************************************************************************)
Anchor == INSTANCE AnchorEngine WITH
  MinLevBps <- MinLev, MaxLevBps <- MaxLev,
  Fuels <- FuelArgs, Levs <- LevArgs, Floors <- FloorArgs,
  Expiries <- 0 .. MaxTime, Exps <- ExpArgs,
  place <- loc,
  ride <- [status |-> status, flags |-> flags, fuel |-> fuel, max_lev |-> lev,
           floor |-> floor, expires_at |-> expires, notional |-> notional,
           entry_vwap |-> vwap, realized |-> realized, target_exp |-> target,
           virt_exp |-> virt, last_mark |-> mark, tick_count |-> ticks],
  clock <- now, price_feed <- oracle.feed, publish_time <- oracle.ts
AgreesWithAnchor ==
  Anchor!Init /\ [][oracle.ts <= now => Anchor!Next]_vars
===============================================================================
