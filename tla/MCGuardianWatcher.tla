-------------------------- MODULE MCGuardianWatcher ---------------------------
(* A ride with 10 of fuel and a floor of -5: flat, long 40 from 4 (equity   *)
(* 20 at 5, 0 at 3: bankrupt and not breached, -10 at 2: breached), flat    *)
(* after a loss beyond the floor, frozen with the position, and settling.   *)
EXTENDS GuardianWatcher

Account(status, realized, notional, vwap) ==
  [status |-> status, fuel |-> 10, realized |-> realized,
   notional |-> notional, vwap |-> vwap, floor |-> -5]

const_Accounts ==
  { Account("ARMED", 0, 0, 0),
    Account("RIDING", 0, 40, 4),
    Account("RIDING", -30, 0, 0),
    Account("FROZEN", 0, 40, 4),
    Account("SETTLING", 0, 0, 0) }
const_Prices == {2, 3, 5}
===============================================================================
