----------------------------- MODULE MCRideExecutor ---------------------------
(* A small venue: a cap of 12 with a band of 4 and orders of at most 8, so *)
(* that a target can be dust, within the band of a position or beyond it,  *)
(* over the cap or on the other side, and one order cannot fill the cap.   *)
(* The shipped feed never reports a lost link or a closed market, and its  *)
(* guard mark is positive.                                                 *)
EXTENDS RideExecutor

Good == [linkOk |-> TRUE, closed |-> FALSE, stale |-> FALSE,
         erMark |-> 100, guardMark |-> 100]
const_Observations ==
  {Good, [Good EXCEPT !.stale = TRUE], [Good EXCEPT !.erMark = 102]}
const_Virtuals == {1, 7, 13, -8}
===============================================================================
