------------------------------ MODULE MCLiveRide ------------------------------
(* One ride with two updates under way: enough for one of the pull to be    *)
(* delivered after the thumb has let go.                                    *)
EXTENDS LiveRide
===============================================================================
