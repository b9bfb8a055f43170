------------------------------ MODULE OraclePrice ------------------------------
(***************************************************************************)
(* The price account a tick is handed, and what both builds of the program *)
(* make of it.  The account is chosen by whoever sends the tick, so its    *)
(* owner, its length and its feed are checked; the price is a mantissa and *)
(* a positive number of decimals, normalized to the scale of `mark'.  The  *)
(* two builds differ only in the ages they accept: see RideSession and     *)
(* AnchorEngine.                                                           *)
(***************************************************************************)
EXTENDS Integers

CONSTANTS
  Decimals,                     \* 9 in the code: decimals of a stored price
  U64Max,                       \* 2^64 - 1 in the code
  MaxStaleness                  \* MAX_ORACLE_STALENESS_SECS

ASSUME OracleAssumption ==
  Decimals \in Nat /\ U64Max \in Nat /\ MaxStaleness \in Nat

FeedAccount ==
  [owner: {"oracle", "other"}, complete: BOOLEAN, id: {"ours", "other"},
   raw: Int, expo: Int]

(* An account that is not a price feed at all.                             *)
NoFeed ==
  [owner |-> "other", complete |-> FALSE, id |-> "other", raw |-> 0, expo |-> 0]

Genuine(feed) == feed.owner = "oracle" /\ feed.complete /\ feed.id = "ours"

(* The mantissa at the program's scale, rounded down.                      *)
NormalizeToE9(raw, expo) ==
  IF expo <= Decimals THEN raw * 10 ^ (Decimals - expo)
  ELSE raw \div 10 ^ (expo - Decimals)

(* A mark must be positive before and after rounding, and fit its field.   *)
MarkOf(feed) == NormalizeToE9(feed.raw, feed.expo)
Priced(feed) == feed.raw > 0 /\ MarkOf(feed) \in 1 .. U64Max
===============================================================================
