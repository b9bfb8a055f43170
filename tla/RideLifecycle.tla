----------------------------- MODULE RideLifecycle -----------------------------
(***************************************************************************)
(* What the rest of the system may rely on of a ride's account: where it   *)
(* is, how far it has come, whether the thumb last asked for exposure,     *)
(* whether a virtual position is open, whether the last tick found no      *)
(* price and whether the session of a ride in play has expired.  No        *)
(* amounts, no prices; of the clock, that it may run out at any time.      *)
(* The engine (RideSession) is shown to implement it, and the app          *)
(* (LiveRide) is composed with it instead of with the engine.              *)
(***************************************************************************)
VARIABLES
  loc,                          \* "none", "base", "er" or "undelegating"
  status,                       \* as stored, "none" without an account
  asked,                        \* the recorded target is not zero
  open,                         \* the virtual notional is not zero
  stale,                        \* the flag ORACLE_STALE is up
  expired                       \* in play, but past its session's time

lifecycle == <<loc, status, asked, open, stale, expired>>

Init ==
  /\ loc = "none" /\ status = "none"
  /\ asked = FALSE /\ open = FALSE /\ stale = FALSE /\ expired = FALSE

InPlay == loc \in {"base", "er"} /\ status \in {"ARMED", "RIDING"}
TakesTicks == InPlay /\ ~expired

Create ==
  /\ loc = "none"
  /\ loc' = "base" /\ status' = "ARMED"
  /\ asked' = FALSE /\ open' = FALSE /\ stale' = FALSE /\ expired' = FALSE

Delegate ==
  /\ loc = "base"
  /\ loc' = "er"
  /\ UNCHANGED <<status, asked, open, stale, expired>>

(* One transaction may hold both instructions.                             *)
CreateDelegated ==
  /\ loc = "none"
  /\ loc' = "er" /\ status' = "ARMED"
  /\ asked' = FALSE /\ open' = FALSE /\ stale' = FALSE /\ expired' = FALSE

(* A tick with no usable price records what the thumb asks for.            *)
Record(ask) ==
  /\ TakesTicks
  /\ asked' = ask /\ stale' = TRUE
  /\ UNCHANGED <<loc, status, open, expired>>

(* A tick at a price: asking for nothing always ends flat, under the floor *)
(* as above it; asking for something may be refused.                       *)
Mark(ask) ==
  /\ TakesTicks
  /\ asked' = ask /\ stale' = FALSE
  /\ open' \in (IF ask THEN BOOLEAN ELSE {FALSE})
  /\ status' = "RIDING"
  /\ UNCHANGED <<loc, expired>>

(* The session's time runs out: no tick is taken from here on.             *)
Expire ==
  /\ InPlay /\ ~expired
  /\ expired' = TRUE
  /\ UNCHANGED <<loc, status, asked, open, stale>>

(* Freezing and settling need no live session.                             *)
Freeze ==
  /\ InPlay
  /\ status' = "FROZEN" /\ asked' = FALSE /\ expired' = FALSE
  /\ UNCHANGED <<loc, open, stale>>

RequestSettle ==
  /\ loc = "er"
  /\ loc' = "undelegating" /\ status' = "SETTLING" /\ expired' = FALSE
  /\ UNCHANGED <<asked, open, stale>>

Return ==
  /\ loc = "undelegating"
  /\ loc' = "base"
  /\ UNCHANGED <<status, asked, open, stale, expired>>

(* Mutant: the account goes, its status stays.                             *)
CloseKeepsStatus ==
  /\ loc = "base" /\ status = "SETTLING"
  /\ loc' = "none"
  /\ UNCHANGED <<status, asked, open, stale, expired>>

Close ==
  /\ loc = "base" /\ status = "SETTLING"
  /\ loc' = "none" /\ status' = "none"
  /\ asked' = FALSE /\ open' = FALSE /\ stale' = FALSE /\ expired' = FALSE

Next ==
  \/ Create \/ Delegate \/ CreateDelegated
  \/ \E ask \in BOOLEAN : Record(ask) \/ Mark(ask)
  \/ Expire \/ Freeze \/ RequestSettle \/ Return \/ Close

Spec == Init /\ [][Next]_lifecycle
===============================================================================
