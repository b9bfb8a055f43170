----------------------------- MODULE MCRideSession ----------------------------
(* One ride on one feed, with prices twenty percent apart: at ten times     *)
(* leverage a single move takes the ride through bankruptcy and its floor.  *)
EXTENDS RideSession

const_Fuel == {0, 10}
const_Lev == {5, 20, 100, 110}
const_Floor == {-8, 0}
const_FloorOne == {-8}
const_Exp == {-11, -10, 5, 10}
const_ExpOne == {-11, 10}

Feed(raw, expo) ==
  [owner |-> "oracle", complete |-> TRUE, id |-> "ours", raw |-> raw, expo |-> expo]
const_Feeds == {NoFeed, Feed(80, 8), Feed(1000, 9), Feed(12000, 10)}

(* Two good accounts and one for each check of read_oracle that fails: the  *)
(* owner, the length, the feed, the sign, the width and what rounding keeps. *)
Good == Feed(1000, 9)
const_FeedsBad ==
  {Good, Feed(80, 8),
   [Good EXCEPT !.owner = "other"], [Good EXCEPT !.complete = FALSE],
   [Good EXCEPT !.id = "other"], [Good EXCEPT !.raw = -1],
   Feed(501, 8), Feed(9, 10)}
===============================================================================
