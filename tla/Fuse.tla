--------------------------------- MODULE Fuse ---------------------------------
(***************************************************************************)
(* What the guardian promises of the pre-signed flatten of each arming,    *)
(* whatever the order of its handlers.  A fuse is set by arming.  It may   *)
(* fire as long as it is set; a failed submit sets it again; an accepted   *)
(* one blows it for good.  A fuse that was let go, with no handler left    *)
(* that saw its ride, never fires again.                                   *)
(***************************************************************************)
CONSTANT Gens                   \* the armings

VARIABLE state                  \* of the flatten of each arming

Init == state = [g \in Gens |-> "unmade"]

Moves(g, from, to) == state[g] = from /\ state'[g] = to

Arm(g) == Moves(g, "unmade", "set")
Fire(g) == Moves(g, "set", "firing")
Accepted(g) == Moves(g, "firing", "blown")
Failed(g) == Moves(g, "firing", "set")
LetGo(g) == Moves(g, "set", "gone") \/ Moves(g, "firing", "gone")

(* An arming replaces another in one step, so several fuses may move.      *)
Next ==
  \A g \in Gens :
    \/ state'[g] = state[g]
    \/ Arm(g) \/ Fire(g) \/ Accepted(g) \/ Failed(g) \/ LetGo(g)

Spec == Init /\ [][Next]_state
===============================================================================
