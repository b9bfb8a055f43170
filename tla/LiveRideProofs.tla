----------------------------- MODULE LiveRideProofs ---------------------------
(***************************************************************************)
(* What the app's controller guarantees for every bound on the feed's      *)
(* backlog.  The rent is never forgotten because a close can only be       *)
(* confirmed once the account is gone, and an account that is gone never   *)
(* comes back: the one transaction that creates it has landed long before  *)
(* the teardown, which is what the inductive invariant adds.               *)
(***************************************************************************)
EXTENDS LiveRide, TLAPS

(* The creating transaction is in flight only while arming waits for it.   *)
ArmedOnce ==
  /\ arm \in {"off", "preparing", "delegating", "marking", "riding"}
       => "arm" \notin wire
  /\ loc # "none" => "arm" \notin wire /\ arm \notin {"off", "preparing"}
  /\ (td # "off" \/ store \/ sweep # "off")
       => "arm" \notin wire /\ arm \in {"riding", "killed"}

ClosedMeansGone ==
  /\ td = "closed" => loc = "none"
  /\ sweep = "closed" => loc = "none"

PhaseBeforeEnd == td # "ended" => phase \in {"none", "working", "closing"}

IInv ==
  NoOrphanTimers /\ RentRemembered /\ ArmedOnce /\ ClosedMeansGone /\ PhaseBeforeEnd

-------------------------------------------------------------------------------
(* The invariant holds of the freshly opened app.                          *)
LEMMA InitInv == Init => IInv
BY DEF Init, Ride!Init, IInv, NoOrphanTimers, RentRemembered, ArmedOnce,
       ClosedMeansGone, PhaseBeforeEnd

(* And every step keeps it.                                                *)
LEMMA StepInv ==
  ASSUME IInv, [Next]_vars
  PROVE  IInv'
<1> USE DEF IInv, NoOrphanTimers, RentRemembered, ArmedOnce, ClosedMeansGone,
            PhaseBeforeEnd, Alive, Riding, Send, Show, Taken,
            chain, venue, settling, rent
<1>1. CASE Start \/ Sign \/ Confirmed \/ Handed \/ ArmFails
  BY <1>1 DEF Start, Sign, Confirmed, Handed, ArmFails
<1>2. CASE MarkRead
  <2>1. CASE Alive
    BY <1>2, <2>1 DEF MarkRead
  <2>2. CASE ~Alive
    <3>1. arm' = "gone" /\ ~timers'
      BY <1>2, <2>2 DEF MarkRead
    <3> QED BY <1>2, <3>1 DEF MarkRead
  <2> QED BY <2>1, <2>2
<1>3. CASE Dispose
  BY <1>3 DEF Dispose
<1>4. CASE Throttle \/ Pace \/ SpinOut
  BY <1>4 DEF Throttle, Pace, SpinOut
<1>5. CASE Observe
  <2>1. Deliver
    BY <1>5 DEF Observe, Ignore, Order
  <2> QED BY <2>1 DEF Deliver
<1>17. CASE OrderLands \/ OrderAbandoned \/ ReadBack \/ StopOut
  BY <1>17 DEF OrderLands, OrderAbandoned, ReadBack, StopOut
<1>6. CASE Finish \/ SendFlatten \/ SendSettle \/ Awaited \/ SignClose
  BY <1>6 DEF Finish, SendFlatten, SendSettle, Awaited, SignClose
<1>7. CASE ConfirmClose
  BY <1>7 DEF ConfirmClose
<1>8. CASE TeardownFails
  <2>1. CASE phase = "closing"
    BY <1>8, <2>1 DEF TeardownFails
  <2>2. CASE phase # "closing"
    BY <1>8, <2>2 DEF TeardownFails
  <2> QED BY <2>1, <2>2
<1>9. CASE Reclaim \/ SweepEnds
  BY <1>9 DEF Reclaim, SweepEnds, ReclaimConfirmed, ReclaimFails
<1>10. CASE Kill
  BY <1>10 DEF Kill
<1>11. CASE Drop \/ LandArm
  BY <1>11 DEF Drop, LandArm, Ride!CreateDelegated
<1>12. CASE LandUnmarked \/ LandTick
  <2>1. /\ loc' = loc /\ wire' \subseteq wire
        /\ UNCHANGED <<arm, running, disposed, timers, td, phase, sweep, store>>
    BY <1>12 DEF LandUnmarked, LandTick, LandMarked, Ride!Record, Ride!Mark
  <2> QED BY <2>1
<1>13. CASE Expire \/ LandSettle \/ Return
  BY <1>13 DEF Expire, LandSettle, Return, Ride!Expire, Ride!RequestSettle, Ride!Return
<1>14. CASE LandClose
  BY <1>14 DEF LandClose, Ride!Close
<1>15. CASE LandReclaim
  BY <1>15 DEF LandReclaim, Ride!Close
<1>16. CASE UNCHANGED vars
  BY <1>16 DEF vars
<1> QED
  BY <1>1, <1>2, <1>3, <1>4, <1>5, <1>6, <1>7, <1>8,
     <1>9, <1>10, <1>11, <1>12, <1>13, <1>14, <1>15, <1>16, <1>17
     DEF Next

(* The inductive invariant holds in every reachable state.                 *)
THEOREM LiveInductive == Spec => []IInv
<1>1. Init => IInv
  BY InitInv
<1>2. IInv /\ [Next]_vars => IInv'
  BY StepInv
<1> QED BY <1>1, <1>2, PTL DEF Spec

(* A cancel or a finish at any await leaves no timer and no socket.        *)
THEOREM NoOrphanEver == Spec => []NoOrphanTimers
<1>1. IInv => NoOrphanTimers
  BY DEF IInv
<1> QED BY <1>1, LiveInductive, PTL

(* A teardown that shows its close leaves a closed or a remembered ride.   *)
THEOREM RentNeverForgotten == Spec => []RentRemembered
<1>1. IInv => RentRemembered
  BY DEF IInv
<1> QED BY <1>1, LiveInductive, PTL
-------------------------------------------------------------------------------
(***************************************************************************)
(* Every variable keeps its range.  What is not plain about it is that the *)
(* backlog stays in its bound, which only a marked tick can reach, and     *)
(* that an account has a status exactly as long as it exists.              *)
(***************************************************************************)
WireTyped == wire \subseteq Transactions

PlacesTyped ==
  /\ arm \in {"off", "preparing", "confirming", "delegating", "marking",
              "riding", "error", "gone", "killed"}
  /\ td \in {"off", "flatten", "settle", "await", "close", "confirm", "closed", "ended"}
  /\ phase \in {"none", "working", "closing", "settled", "done", "failed"}
  /\ sweep \in {"off", "confirm", "closed"}

SwitchesTyped ==
  /\ running \in BOOLEAN /\ disposed \in BOOLEAN /\ timers \in BOOLEAN
  /\ thumb \in BOOLEAN /\ store \in BOOLEAN

VenueTyped ==
  /\ order \in {"none", "open", "close", "read"}
  /\ real \in BOOLEAN /\ mirror \in BOOLEAN

ChainTyped ==
  /\ loc \in {"none", "base", "er", "undelegating"}
  /\ status \in {"none", "ARMED", "RIDING", "SETTLING"}
  /\ loc = "none" <=> status = "none"
  /\ asked \in BOOLEAN /\ open \in BOOLEAN /\ stale \in BOOLEAN
  /\ expired \in BOOLEAN

InboxTyped == inbox \in Seq(BOOLEAN) /\ Len(inbox) <= MaxInbox

(* The backlog is emptied, shortened or kept by every step but a marked    *)
(* tick, which finds room for one more.                                    *)
LEMMA InboxMoves ==
  ASSUME [Next]_vars
  PROVE  \/ inbox' \in {inbox, <<>>}
         \/ inbox # <<>> /\ inbox' = Tail(inbox)
         \/ Len(inbox) < MaxInbox /\ inbox' = Append(inbox, open')
<1>1. CASE Start \/ Sign \/ Confirmed \/ Handed \/ ArmFails \/ MarkRead \/ Dispose
  BY <1>1 DEF Start, Sign, Confirmed, Handed, ArmFails, MarkRead, Dispose
<1>2. CASE Throttle \/ Pace \/ SpinOut \/ Observe
  BY <1>2 DEF Throttle, Pace, SpinOut, Observe, Ignore, Order, Deliver
<1>3. CASE OrderLands \/ OrderAbandoned \/ ReadBack \/ StopOut
  BY <1>3 DEF OrderLands, OrderAbandoned, ReadBack, StopOut
<1>4. CASE Finish \/ SendFlatten \/ SendSettle \/ Awaited \/ SignClose
             \/ ConfirmClose \/ TeardownFails
  BY <1>4 DEF Finish, SendFlatten, SendSettle, Awaited, SignClose,
              ConfirmClose, TeardownFails
<1>5. CASE Reclaim \/ SweepEnds \/ Kill
  BY <1>5 DEF Reclaim, SweepEnds, ReclaimConfirmed, ReclaimFails, Kill
<1>6. CASE Drop \/ LandArm \/ LandUnmarked \/ Expire \/ LandSettle \/ Return
             \/ LandClose \/ LandReclaim
  BY <1>6 DEF Drop, LandArm, LandUnmarked, Expire, LandSettle, Return, LandClose,
              LandReclaim
<1>7. CASE LandTick
  BY <1>7 DEF LandTick, LandMarked
<1>8. CASE UNCHANGED vars
  BY <1>8 DEF vars
<1> QED BY <1>1, <1>2, <1>3, <1>4, <1>5, <1>6, <1>7, <1>8 DEF Next

(* So its bound holds as long as what is appended is a position.           *)
LEMMA StepInbox ==
  ASSUME InboxTyped, [Next]_vars, open' \in BOOLEAN
  PROVE  InboxTyped'
<1>1. CASE inbox' \in {inbox, <<>>}
  <2>1. <<>> \in Seq(BOOLEAN) /\ Len(<<>>) <= MaxInbox
    BY LiveAssumption
  <2> QED BY <1>1, <2>1 DEF InboxTyped
<1>2. CASE inbox # <<>> /\ inbox' = Tail(inbox)
  BY <1>2, LiveAssumption DEF InboxTyped
<1>3. CASE Len(inbox) < MaxInbox /\ inbox' = Append(inbox, open')
  BY <1>3, LiveAssumption DEF InboxTyped
<1> QED BY <1>1, <1>2, <1>3, InboxMoves

(* The app touches the account through its lifecycle's operations only.    *)
LEMMA StepChain ==
  ASSUME ChainTyped, [Next]_vars
  PROVE  ChainTyped'
<1> USE DEF chain, ChainTyped
<1>1. CASE UNCHANGED chain
  BY <1>1
<1>2. CASE LandArm
  BY <1>2 DEF LandArm, Ride!CreateDelegated
<1>3. CASE LandUnmarked
  BY <1>3 DEF LandUnmarked, Ride!Record, Ride!TakesTicks, Ride!InPlay
<1>4. CASE LandTick
  BY <1>4 DEF LandTick, LandMarked, Ride!Mark, Ride!TakesTicks, Ride!InPlay
<1>5. CASE Expire \/ LandSettle \/ Return
  BY <1>5 DEF Expire, LandSettle, Return, Ride!Expire, Ride!RequestSettle, Ride!Return
<1>6. CASE LandClose \/ LandReclaim
  BY <1>6 DEF LandClose, LandReclaim, Ride!Close
<1> HIDE DEF chain, ChainTyped
<1>7. Start \/ Sign \/ Confirmed \/ Handed \/ ArmFails \/ MarkRead \/ Dispose
        \/ Throttle \/ Pace \/ SpinOut \/ Observe => UNCHANGED chain
  BY DEF Start, Sign, Confirmed, Handed, ArmFails, MarkRead, Dispose,
         Throttle, Pace, SpinOut, Observe, Ignore, Order, Deliver
<1>8. OrderLands \/ OrderAbandoned \/ ReadBack \/ StopOut
        \/ Finish \/ SendFlatten \/ SendSettle \/ Awaited \/ SignClose
        \/ ConfirmClose \/ TeardownFails => UNCHANGED chain
  BY DEF OrderLands, OrderAbandoned, ReadBack, StopOut,
         Finish, SendFlatten, SendSettle, Awaited, SignClose,
         ConfirmClose, TeardownFails
<1>9. Reclaim \/ SweepEnds \/ Kill \/ Drop \/ UNCHANGED vars => UNCHANGED chain
  BY DEF Reclaim, SweepEnds, ReclaimConfirmed, ReclaimFails, Kill, Drop, vars
<1> QED
  BY <1>1, <1>2, <1>3, <1>4, <1>5, <1>6, <1>7, <1>8, <1>9 DEF Next

(* An order is in one of its four states, and a position is there or not.  *)
LEMMA StepVenue ==
  ASSUME VenueTyped, [Next]_vars
  PROVE  VenueTyped'
<1> USE DEF VenueTyped, venue
<1>1. CASE Start \/ Sign \/ Confirmed \/ Handed \/ ArmFails \/ MarkRead \/ Dispose
             \/ Throttle \/ Pace \/ SpinOut
  BY <1>1 DEF Start, Sign, Confirmed, Handed, ArmFails, MarkRead, Dispose,
              Throttle, Pace, SpinOut
<1>2. CASE Observe
  BY <1>2 DEF Observe, Ignore, Order, Deliver, Position!Order
<1>3. CASE OrderLands \/ OrderAbandoned \/ ReadBack \/ StopOut
  BY <1>3 DEF OrderLands, OrderAbandoned, ReadBack, StopOut, Position!Fill,
     Position!FlipHalf, Position!Abandon, Position!ReadBack, Position!StopOut
<1>4. CASE Finish \/ SendFlatten \/ SendSettle \/ Awaited \/ SignClose
             \/ ConfirmClose \/ TeardownFails
  BY <1>4 DEF Finish, SendFlatten, SendSettle, Awaited, SignClose,
              ConfirmClose, TeardownFails
<1>5. CASE Reclaim \/ SweepEnds \/ Kill
  BY <1>5 DEF Reclaim, SweepEnds, ReclaimConfirmed, ReclaimFails, Kill
<1>6. CASE Drop \/ LandArm \/ LandUnmarked \/ LandTick \/ Expire \/ LandSettle
             \/ Return \/ LandClose \/ LandReclaim
  BY <1>6 DEF Drop, LandArm, LandUnmarked, LandTick, LandMarked, Expire,
              LandSettle, Return, LandClose, LandReclaim
<1>7. CASE UNCHANGED vars
  BY <1>7 DEF vars
<1> QED BY <1>1, <1>2, <1>3, <1>4, <1>5, <1>6, <1>7 DEF Next

(* What is sent is one of the six transactions; landing or losing one only *)
(* takes it off the wire.                                                  *)
LEMMA StepWire ==
  ASSUME WireTyped, [Next]_vars
  PROVE  WireTyped'
<1> USE DEF WireTyped, Transactions, Send, Taken, settling, rent
<1>1. CASE Start \/ Sign \/ Confirmed \/ Handed \/ ArmFails \/ MarkRead \/ Dispose
  BY <1>1 DEF Start, Sign, Confirmed, Handed, ArmFails, MarkRead, Dispose
<1>2. CASE Throttle \/ Pace \/ SpinOut \/ Observe
  BY <1>2 DEF Throttle, Pace, SpinOut, Observe, Ignore, Order, Deliver
<1>3. CASE OrderLands \/ OrderAbandoned \/ ReadBack \/ StopOut
  BY <1>3 DEF OrderLands, OrderAbandoned, ReadBack, StopOut
<1>4. CASE Finish \/ SendFlatten \/ SendSettle \/ Awaited \/ SignClose
  BY <1>4 DEF Finish, SendFlatten, SendSettle, Awaited, SignClose
<1>5. CASE ConfirmClose \/ TeardownFails
  BY <1>5 DEF ConfirmClose, TeardownFails
<1>6. CASE Reclaim \/ SweepEnds \/ Kill
  BY <1>6 DEF Reclaim, SweepEnds, ReclaimConfirmed, ReclaimFails, Kill
<1>7. CASE Drop \/ LandArm \/ LandUnmarked \/ LandTick \/ Expire
  BY <1>7 DEF Drop, LandArm, LandUnmarked, LandTick, LandMarked, Expire
<1>8. CASE LandSettle \/ Return \/ LandClose \/ LandReclaim
  BY <1>8 DEF LandSettle, Return, LandClose, LandReclaim
<1>9. CASE UNCHANGED vars
  BY <1>9 DEF vars
<1> QED BY <1>1, <1>2, <1>3, <1>4, <1>5, <1>6, <1>7, <1>8, <1>9 DEF Next

(* Arming, teardown, the phase shown and the sweep keep to their steps.    *)
LEMMA StepPlaces ==
  ASSUME PlacesTyped, [Next]_vars
  PROVE  PlacesTyped'
<1> USE DEF PlacesTyped, Show, settling, rent
<1>1. CASE Start \/ Sign \/ Confirmed \/ Handed \/ ArmFails \/ MarkRead \/ Dispose
  BY <1>1 DEF Start, Sign, Confirmed, Handed, ArmFails, MarkRead, Dispose
<1>2. CASE Throttle \/ Pace \/ SpinOut \/ Observe
  BY <1>2 DEF Throttle, Pace, SpinOut, Observe, Ignore, Order, Deliver
<1>3. CASE OrderLands \/ OrderAbandoned \/ ReadBack \/ StopOut
  BY <1>3 DEF OrderLands, OrderAbandoned, ReadBack, StopOut
<1>4. CASE Finish \/ SendFlatten \/ SendSettle \/ Awaited \/ SignClose
  BY <1>4 DEF Finish, SendFlatten, SendSettle, Awaited, SignClose
<1>5. CASE ConfirmClose \/ TeardownFails
  BY <1>5 DEF ConfirmClose, TeardownFails
<1>6. CASE Reclaim \/ SweepEnds \/ Kill
  BY <1>6 DEF Reclaim, SweepEnds, ReclaimConfirmed, ReclaimFails, Kill
<1>7. CASE Drop \/ LandArm \/ LandUnmarked \/ LandTick \/ Expire
  BY <1>7 DEF Drop, LandArm, LandUnmarked, LandTick, LandMarked, Expire
<1>8. CASE LandSettle \/ Return \/ LandClose \/ LandReclaim
  BY <1>8 DEF LandSettle, Return, LandClose, LandReclaim
<1>9. CASE UNCHANGED vars
  BY <1>9 DEF vars
<1> QED BY <1>1, <1>2, <1>3, <1>4, <1>5, <1>6, <1>7, <1>8, <1>9 DEF Next

(* Whatever is switched is on or off.                                      *)
LEMMA StepSwitches ==
  ASSUME SwitchesTyped, [Next]_vars
  PROVE  SwitchesTyped'
<1> USE DEF SwitchesTyped, Alive, settling, rent
<1>1. CASE Start \/ Sign \/ Confirmed \/ Handed \/ ArmFails \/ MarkRead \/ Dispose
  BY <1>1 DEF Start, Sign, Confirmed, Handed, ArmFails, MarkRead, Dispose
<1>2. CASE Throttle \/ Pace \/ SpinOut \/ Observe
  BY <1>2 DEF Throttle, Pace, SpinOut, Observe, Ignore, Order, Deliver
<1>3. CASE OrderLands \/ OrderAbandoned \/ ReadBack \/ StopOut
  BY <1>3 DEF OrderLands, OrderAbandoned, ReadBack, StopOut
<1>4. CASE Finish \/ SendFlatten \/ SendSettle \/ Awaited \/ SignClose
  BY <1>4 DEF Finish, SendFlatten, SendSettle, Awaited, SignClose
<1>5. CASE ConfirmClose \/ TeardownFails
  BY <1>5 DEF ConfirmClose, TeardownFails
<1>6. CASE Reclaim \/ SweepEnds \/ Kill
  BY <1>6 DEF Reclaim, SweepEnds, ReclaimConfirmed, ReclaimFails, Kill
<1>7. CASE Drop \/ LandArm \/ LandUnmarked \/ LandTick \/ Expire
  BY <1>7 DEF Drop, LandArm, LandUnmarked, LandTick, LandMarked, Expire
<1>8. CASE LandSettle \/ Return \/ LandClose \/ LandReclaim
  BY <1>8 DEF LandSettle, Return, LandClose, LandReclaim
<1>9. CASE UNCHANGED vars
  BY <1>9 DEF vars
<1> QED BY <1>1, <1>2, <1>3, <1>4, <1>5, <1>6, <1>7, <1>8, <1>9 DEF Next

(* Every variable of the app, its wire, its venue and its account stays in *)
(* its range for every bound on the backlog, kills and late landings       *)
(* included (live_ride_controller.dart, and RideLifecycle for the account).*)
THEOREM LiveTyped == Spec => []TypeOK
<1> DEFINE Parts == /\ WireTyped /\ PlacesTyped /\ SwitchesTyped
                    /\ VenueTyped /\ ChainTyped /\ InboxTyped
<1>1. Init => Parts
  <2>1. <<>> \in Seq(BOOLEAN) /\ Len(<<>>) <= MaxInbox
    BY LiveAssumption
  <2>2. Init => InboxTyped
    BY <2>1 DEF Init, InboxTyped
  <2>3. Init => WireTyped /\ PlacesTyped /\ SwitchesTyped /\ VenueTyped
    BY DEF Init, Position!Init, WireTyped, PlacesTyped, SwitchesTyped, VenueTyped
  <2>4. Init => ChainTyped
    BY DEF Init, Ride!Init, ChainTyped
  <2> QED BY <2>2, <2>3, <2>4
<1>2. Parts /\ [Next]_vars => Parts'
  <2> SUFFICES ASSUME Parts, [Next]_vars
               PROVE  Parts'
    OBVIOUS
  <2>1. WireTyped' /\ PlacesTyped' /\ SwitchesTyped' /\ VenueTyped' /\ ChainTyped'
    BY StepWire, StepPlaces, StepSwitches, StepVenue, StepChain
  <2>2. InboxTyped'
    BY <2>1, StepInbox DEF ChainTyped
  <2> QED BY <2>1, <2>2
<1>3. Parts => TypeOK
  BY DEF TypeOK, WireTyped, PlacesTyped, SwitchesTyped, VenueTyped, ChainTyped,
         InboxTyped
<1> QED BY <1>1, <1>2, <1>3, PTL DEF Spec
===============================================================================
