------------------------------ MODULE AnchorEngine -----------------------------
(***************************************************************************)
(* The engine as the Anchor build writes it: the account is one record,    *)
(* absent or in one of the places the framework can find it, and every     *)
(* handler a function of it.  The deployed build (RideSession) was         *)
(* rewritten by hand from this one and is checked against it.              *)
(***************************************************************************)
EXTENDS Accounting, OraclePrice

CONSTANTS
  MinLevBps, MaxLevBps,         \* MIN_LEV_BPS, MAX_LEV_BPS_CEILING
  Fuels, Levs, Floors, Expiries, Exps   \* arguments of the calls

VARIABLES
  place,                        \* who owns the account, "none" if nobody
  ride,                         \* its RideSession, Blank if absent
  clock,
  price_feed, publish_time      \* the account a tick is handed

engine == <<place, ride, clock, price_feed, publish_time>>
world == <<clock, price_feed, publish_time>>

Callers == {"owner", "session", "other"}

Blank ==
  [status |-> "none", flags |-> {}, fuel |-> 0, max_lev |-> 0, floor |-> 0,
   expires_at |-> 0, notional |-> 0, entry_vwap |-> 0, realized |-> 0,
   target_exp |-> 0, virt_exp |-> 0, last_mark |-> 0, tick_count |-> 0]

Init ==
  /\ place = "none" /\ ride = Blank
  /\ clock = 0 /\ price_feed = NoFeed /\ publish_time = 0

(* AccountLoader: the account must exist and be owned by the program.      *)
Loads == place \in {"base", "er"}
Put(r) == ride' = r /\ UNCHANGED <<place, world>>

InitRide(fuel, lev, floor, expires) ==
  /\ place = "none"
  /\ fuel > 0 /\ lev \in MinLevBps .. MaxLevBps
  /\ floor < 0 /\ expires > clock
  /\ place' = "base"
  /\ ride' = [Blank EXCEPT !.status = "ARMED", !.fuel = fuel, !.max_lev = lev,
                           !.floor = floor, !.expires_at = expires]
  /\ UNCHANGED world

DelegateRide ==
  /\ place = "base"
  /\ place' = "er"
  /\ UNCHANGED <<ride, world>>

-------------------------------------------------------------------------------
(* oracle::read_oracle: only an upper bound on the age, so that a price    *)
(* stamped ahead of the clock is fresh.                                    *)
ReadOracle ==
  /\ Genuine(price_feed) /\ Priced(price_feed)
  /\ clock - publish_time <= MaxStaleness

(* What a tick leaves behind when no price can be read.                    *)
Unmarked(exp) ==
  [ride EXCEPT !.flags = @ \cup {"ORACLE_STALE"},
               !.target_exp = exp, !.tick_count = @ + 1]

(* The target after the floor gate, for a ride of this equity.             *)
Aim(equity, collateral, exp) ==
  LET wanted == TargetNotional(collateral, ride.max_lev, exp)
      gated  == Breached(equity, ride.floor) \/ Bankrupt(equity)
  IN IF gated /\ AbsOf(wanted) > AbsOf(ride.notional) THEN ride.notional
     ELSE wanted

Raised(equity) ==
  {f \in {"FLOOR_BREACHED", "BANKRUPT"} :
     IF f = "BANKRUPT" THEN Bankrupt(equity) ELSE Breached(equity, ride.floor)}

Marked(exp, mark) ==
  LET equity == Equity(ride.fuel, ride.realized, ride.notional,
                       ride.entry_vwap, mark)
      collateral == EffectiveCollateral(ride.fuel, ride.realized)
      s == SettleToTarget(ride.notional, ride.entry_vwap,
                          Aim(equity, collateral, exp), mark)
  IN [ride EXCEPT
        !.flags = (@ \ {"ORACLE_STALE"}) \cup Raised(equity),
        !.realized = Sat(@ + s.realized),
        !.notional = s.notional, !.entry_vwap = s.vwap,
        !.target_exp = exp,
        !.virt_exp = NotionalToBps(s.notional, collateral, ride.max_lev),
        !.last_mark = mark, !.tick_count = @ + 1, !.status = "RIDING"]

Tick(signer, exp) ==
  /\ signer = "session"
  /\ exp \in -BpsScale .. BpsScale
  /\ Loads /\ ride.status \in {"ARMED", "RIDING"} /\ clock < ride.expires_at
  /\ Put(IF ReadOracle THEN Marked(exp, MarkOf(price_feed)) ELSE Unmarked(exp))

-------------------------------------------------------------------------------
Freeze(signer) ==
  /\ signer \in {"owner", "session"}
  /\ Loads /\ ride.status \in {"ARMED", "RIDING"}
  /\ Put([ride EXCEPT !.status = "FROZEN", !.target_exp = 0,
                      !.flags = @ \cup {"FLOOR_BREACHED"}])

RequestSettle(signer) ==
  /\ signer \in {"owner", "session"}
  /\ place = "er"
  /\ place' = "undelegating"
  /\ ride' = [ride EXCEPT !.status = "SETTLING"]
  /\ UNCHANGED world

(* The handler the `ephemeral' attribute adds.                             *)
ProcessUndelegation ==
  /\ place = "undelegating"
  /\ place' = "base"
  /\ UNCHANGED <<ride, world>>

(* Closing an account clears it.                                           *)
CloseRide(signer) ==
  /\ signer = "owner"
  /\ place = "base" /\ ride.status \in {"SETTLING", "CLOSED"}
  /\ place' = "none" /\ ride' = Blank
  /\ UNCHANGED world

(* The program's entry points; flatten is a tick of 0.                     *)
Instruction ==
  \/ \E fuel \in Fuels, lev \in Levs, floor \in Floors, expires \in Expiries :
       InitRide(fuel, lev, floor, expires)
  \/ DelegateRide \/ ProcessUndelegation
  \/ \E signer \in Callers :
       Freeze(signer) \/ RequestSettle(signer) \/ CloseRide(signer)
  \/ \E signer \in Callers, exp \in Exps \cup {0} : Tick(signer, exp)

(* The chain's clock and the feed change as they like.                     *)
World == UNCHANGED <<place, ride>>

Next == Instruction \/ World
===============================================================================
