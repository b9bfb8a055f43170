------------------------------ MODULE RealPosition -----------------------------
(***************************************************************************)
(* What the app may rely on of the reconciler, the gateway and the venue,  *)
(* amounts and sides forgotten: a position is there or not, and one order  *)
(* at a time is under way, which is filled, abandoned on the way or read   *)
(* back.  An order that is to leave a position is "open", whether it       *)
(* increases, reduces or flips; "close" is a full close; "read" is the     *)
(* read-back of a plan that was carried out.  The executor (RideExecutor)  *)
(* is shown to implement it while calls do not overlap and orders are      *)
(* confirmed, and the app (LiveRide) is composed with it.                  *)
(***************************************************************************)
VARIABLES
  order,                        \* "none", "open", "close" or "read"
  real,                         \* the venue holds a position
  mirror                        \* gateway.settled shows one

position == <<order, real, mirror>>

Init == order = "none" /\ real = FALSE /\ mirror = FALSE

(* A position is closed only where the mirror shows one.                   *)
Order(next) ==
  /\ order = "none"
  /\ next = "open" \/ (next = "close" /\ mirror)
  /\ order' = next
  /\ UNCHANGED <<real, mirror>>

(* The last call lands; its answer may be lost.                            *)
Fill ==
  /\ order \in {"open", "close"}
  /\ real' = (order = "open")
  /\ order' \in {"read", "none"}
  /\ UNCHANGED mirror

(* The first half of a flip lands; with its answer goes the second half.   *)
FlipHalf ==
  /\ order = "open" /\ real
  /\ real' = FALSE
  /\ order' \in {"open", "none"}
  /\ UNCHANGED mirror

Abandon ==
  /\ order # "none"
  /\ order' = "none"
  /\ UNCHANGED <<real, mirror>>

ReadBack ==
  /\ order = "read"
  /\ order' = "none" /\ mirror' = real
  /\ UNCHANGED real

StopOut ==
  /\ real
  /\ real' = FALSE
  /\ UNCHANGED <<order, mirror>>

Next ==
  \/ \E next \in {"open", "close"} : Order(next)
  \/ Fill \/ FlipHalf \/ Abandon \/ ReadBack \/ StopOut

Spec == Init /\ [][Next]_position
===============================================================================
