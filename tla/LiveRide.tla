-------------------------------- MODULE LiveRide ------------------------------
(***************************************************************************)
(* The app's controller of one live ride, from the tap that arms it to the *)
(* rent of its account back in the wallet, composed with the lifecycle the *)
(* engine implements (RideLifecycle).  Every await of the controller is a  *)
(* place where the rider may cancel, the next ride may dispose this one or *)
(* the app may be killed; every transaction it sends goes on the wire,     *)
(* where it may be lost or land late and out of order, since all of them   *)
(* are sent without preflight or with a confirmation that times out.       *)
(*                                                                         *)
(* Amounts, directions and prices are forgotten: the thumb asks for        *)
(* exposure or not, a position is open or flat.  What an observation leads *)
(* to at the venue are the steps of RealPosition, which RideExecutor is    *)
(* shown to implement.                                                     *)
(***************************************************************************)
EXTENDS Sequences, Naturals

CONSTANT MaxInbox               \* bound on observations not yet delivered

ASSUME LiveAssumption == MaxInbox \in Nat \ {0}

VARIABLES
  loc, status, asked, open, stale, expired,   \* the account: see RideLifecycle
  wire,                         \* transactions sent and not yet decided
  arm,                          \* where _arm is
  running, disposed,            \* _running, _disposed
  timers,                       \* the pacer, the guard poll, the feed are on
  thumb,                        \* the throttle asks for exposure
  inbox,                        \* updates the feed has not delivered
  order,                        \* the venue call in flight
  real, mirror,                 \* the venue's position, gateway.settled
  td, phase,                    \* where _teardown is, _settlePhase
  sweep,                        \* where reclaimRideRent is
  store                         \* the ride is in RentReclaimStore

chain == <<loc, status, asked, open, stale, expired>>
venue == <<order, real, mirror>>
settling == <<td, phase>>
rent == <<sweep, store>>
vars == <<chain, wire, arm, running, disposed, timers, thumb, inbox, venue,
          settling, rent>>

Ride == INSTANCE RideLifecycle
Position == INSTANCE RealPosition

Transactions == {"arm", "up", "rest", "settle", "close", "reclaim"}

Init ==
  /\ Ride!Init
  /\ wire = {}
  /\ arm = "off" /\ running = FALSE /\ disposed = FALSE /\ timers = FALSE
  /\ thumb = FALSE /\ inbox = <<>>
  /\ Position!Init
  /\ td = "off" /\ phase = "none"
  /\ sweep = "off" /\ store = FALSE

Send(tx) == wire' = wire \cup {tx}
Alive == running /\ ~disposed
Riding == arm = "riding" /\ running

-------------------------------------------------------------------------------
(* Arming.  A cancel does not stop it: it is noticed after the delegation  *)
(* poll and once more after the first price.                               *)
Start ==
  /\ arm = "off"
  /\ arm' = "preparing" /\ running' = TRUE
  /\ UNCHANGED <<chain, wire, disposed, timers, thumb, inbox, venue, settling, rent>>

(* One transaction initialises, delegates and authorises the session key.  *)
Sign ==
  /\ arm = "preparing"
  /\ Send("arm") /\ arm' = "confirming"
  /\ UNCHANGED <<chain, running, disposed, timers, thumb, inbox, venue, settling, rent>>

Confirmed ==
  /\ arm = "confirming" /\ loc = "er"
  /\ arm' = "delegating"
  /\ UNCHANGED <<chain, wire, running, disposed, timers, thumb, inbox, venue, settling, rent>>

(* The poll ends with the delegation, after 30 tries or with the ride.     *)
Handed ==
  /\ arm = "delegating"
  /\ arm' = IF Alive THEN "marking" ELSE "gone"
  /\ UNCHANGED <<chain, wire, running, disposed, timers, thumb, inbox, venue, settling, rent>>

(* A wallet that declines, a confirmation that times out, a failing router *)
(* and a market without a price all end in the same catch.                 *)
ArmFails ==
  /\ arm \in {"preparing", "confirming", "delegating"} \/ (arm = "marking" /\ Alive)
  /\ arm' = "error"
  /\ UNCHANGED <<chain, wire, running, disposed, timers, thumb, inbox, venue, settling, rent>>

(* Mutant: nobody looks again after the wait for the first price.          *)
MarkReadUnchecked ==
  /\ arm = "marking"
  /\ arm' = "riding" /\ timers' = TRUE
  /\ UNCHANGED <<chain, wire, running, disposed, thumb, inbox, venue, settling, rent>>

MarkRead ==
  /\ arm = "marking"
  /\ arm' = IF Alive THEN "riding" ELSE "gone"
  /\ timers' = Alive
  /\ UNCHANGED <<chain, wire, running, disposed, thumb, inbox, venue, settling, rent>>

(* The rider cancels the arming or arms the next ride, or the shell that   *)
(* shows the ride goes away: at any time.                                  *)
Dispose ==
  /\ arm # "off" /\ ~disposed
  /\ disposed' = TRUE /\ running' = FALSE /\ timers' = FALSE /\ inbox' = <<>>
  /\ UNCHANGED <<chain, wire, arm, thumb, venue, settling, rent>>

-------------------------------------------------------------------------------
(* Riding.                                                                 *)
Throttle ==
  /\ Riding
  /\ thumb' = ~thumb
  /\ UNCHANGED <<chain, wire, arm, running, disposed, timers, inbox, venue, settling, rent>>

(* Mutant: at rest the pacer is silent, open position or not.              *)
PaceWhileAsked ==
  /\ Riding /\ timers
  /\ thumb
  /\ Send("up")
  /\ UNCHANGED <<chain, arm, running, disposed, timers, thumb, inbox, venue, settling, rent>>

(* The pacer ticks while the thumb asks or the mirror shows a position.    *)
Pace ==
  /\ Riding /\ timers
  /\ thumb \/ mirror
  /\ Send(IF thumb THEN "up" ELSE "rest")
  /\ UNCHANGED <<chain, arm, running, disposed, timers, thumb, inbox, venue, settling, rent>>

SpinOut ==
  /\ Riding
  /\ thumb' = FALSE /\ Send("rest")
  /\ UNCHANGED <<chain, arm, running, disposed, timers, inbox, venue, settling, rent>>

(* The reconciler makes nothing of an update, waiting or frozen or with an *)
(* order under way, or it orders; to open only if the update shows         *)
(* exposure.  One order at a time.                                         *)
Deliver ==
  /\ timers /\ inbox # <<>>
  /\ inbox' = Tail(inbox)
  /\ UNCHANGED <<chain, wire, arm, running, disposed, timers, thumb, settling, rent>>

Ignore == Deliver /\ UNCHANGED venue

Order(next) ==
  /\ Deliver /\ (next = "open" => Head(inbox))
  /\ Position!Order(next)

OrderLands ==
  /\ Position!Fill \/ Position!FlipHalf
  /\ UNCHANGED <<chain, wire, arm, running, disposed, timers, thumb, inbox, settling, rent>>

(* The builder, the submit or the read-back throws.                        *)
OrderAbandoned ==
  /\ Position!Abandon
  /\ UNCHANGED <<chain, wire, arm, running, disposed, timers, thumb, inbox, settling, rent>>

ReadBack ==
  /\ arm # "killed" /\ Position!ReadBack
  /\ UNCHANGED <<chain, wire, arm, running, disposed, timers, thumb, inbox, settling, rent>>

StopOut ==
  /\ Position!StopOut
  /\ UNCHANGED <<chain, wire, arm, running, disposed, timers, thumb, inbox, settling, rent>>

-------------------------------------------------------------------------------
(* The end of the ride.  The catch of the teardown looks at the phase it   *)
(* shows, and a disposed ride shows no new one; "working" stands for the   *)
(* phases before the close, which nothing tells apart.                     *)
Show(p) == phase' = IF disposed THEN phase ELSE p

Finish ==
  /\ Riding /\ td = "off"
  /\ running' = FALSE /\ timers' = FALSE /\ inbox' = <<>>
  /\ td' = "flatten" /\ Show("working")
  /\ UNCHANGED <<chain, wire, arm, disposed, thumb, venue, rent>>

SendFlatten ==
  /\ td = "flatten"
  /\ Send("rest") /\ td' = "settle"
  /\ UNCHANGED <<chain, phase, arm, running, disposed, timers, thumb, inbox, venue, rent>>

SendSettle ==
  /\ td = "settle"
  /\ Send("settle") /\ td' = "await"
  /\ UNCHANGED <<chain, phase, arm, running, disposed, timers, thumb, inbox, venue, rent>>

(* The poll ends with the undelegation, with an error or after 120 s.      *)
Awaited ==
  /\ td = "await"
  /\ td' = "close" /\ Show("closing")
  /\ UNCHANGED <<chain, wire, arm, running, disposed, timers, thumb, inbox, venue, rent>>

SignClose ==
  /\ td = "close"
  /\ Send("close") /\ td' = "confirm"
  /\ UNCHANGED <<chain, phase, arm, running, disposed, timers, thumb, inbox, venue, rent>>

ConfirmClose ==
  /\ td = "closed"
  /\ td' = "ended" /\ store' = FALSE /\ Show("settled")
  /\ UNCHANGED <<chain, wire, arm, running, disposed, timers, thumb, inbox, venue, sweep>>

(* Mutant: only a declined popup is remembered, not a confirmation that    *)
(* timed out.                                                              *)
TeardownFailsForgetful ==
  /\ td \in {"flatten", "settle", "close", "confirm"}
  /\ td' = "ended"
  /\ IF phase = "closing" THEN store' = (td = "close") /\ Show("done")
     ELSE UNCHANGED store /\ Show("failed")
  /\ UNCHANGED <<chain, wire, arm, running, disposed, timers, thumb, inbox, venue, sweep>>

(* A send that throws, a popup declined, a confirmation that times out.    *)
TeardownFails ==
  /\ td \in {"flatten", "settle", "close", "confirm", "closed"}
  /\ td' = "ended"
  /\ IF phase = "closing" THEN store' = TRUE /\ Show("done")
     ELSE UNCHANGED store /\ Show("failed")
  /\ UNCHANGED <<chain, wire, arm, running, disposed, timers, thumb, inbox, venue, sweep>>

-------------------------------------------------------------------------------
(* Settings: close the remembered ride again.                              *)
Reclaim ==
  /\ store /\ sweep = "off" /\ "reclaim" \notin wire
  /\ Send("reclaim") /\ sweep' = "confirm"
  /\ UNCHANGED <<chain, store, arm, running, disposed, timers, thumb, inbox, venue, settling>>

ReclaimConfirmed ==
  /\ sweep = "closed"
  /\ sweep' = "off" /\ store' = FALSE
  /\ UNCHANGED <<chain, wire, arm, running, disposed, timers, thumb, inbox, venue, settling>>

(* Mutant: a close that was not confirmed is not tried again.              *)
ReclaimFailsForGood ==
  /\ sweep # "off"
  /\ sweep' = "off" /\ store' = FALSE
  /\ UNCHANGED <<chain, wire, arm, running, disposed, timers, thumb, inbox, venue, settling>>

ReclaimFails ==
  /\ sweep # "off"
  /\ sweep' = "off"
  /\ UNCHANGED <<chain, wire, store, arm, running, disposed, timers, thumb, inbox, venue, settling>>

(* The system kills the app: the chain, the wire, the venue and the stored *)
(* list stay.                                                              *)
Kill ==
  /\ arm \notin {"off", "killed"}
  /\ arm' = "killed" /\ running' = FALSE /\ timers' = FALSE
  /\ thumb' = FALSE /\ inbox' = <<>> /\ mirror' = FALSE
  /\ td' = "off" /\ phase' = "none" /\ sweep' = "off"
  /\ UNCHANGED <<chain, wire, disposed, order, real, store>>

-------------------------------------------------------------------------------
(* The wire.  A transaction the program refuses changes nothing: Drop.     *)
Taken(tx) == tx \in wire /\ wire' = wire \ {tx}

Drop ==
  /\ \E tx \in wire : Taken(tx)
  /\ UNCHANGED <<chain, arm, running, disposed, timers, thumb, inbox, venue, settling, rent>>

LandArm ==
  /\ Taken("arm") /\ Ride!CreateDelegated
  /\ UNCHANGED <<arm, running, disposed, timers, thumb, inbox, venue, settling, rent>>

(* Without a price the update shows the reconciler a stale ride, on which  *)
(* it does not act.                                                        *)
LandUnmarked ==
  /\ \E tx \in {"up", "rest"} : Taken(tx) /\ Ride!Record(tx = "up")
  /\ UNCHANGED <<arm, running, disposed, timers, thumb, inbox, venue, settling, rent>>

LandMarked(tx) ==
  /\ Taken(tx) /\ Ride!Mark(tx = "up")
  /\ IF timers
     THEN Len(inbox) < MaxInbox /\ inbox' = Append(inbox, open')
     ELSE UNCHANGED inbox
  /\ UNCHANGED <<arm, running, disposed, timers, thumb, venue, settling, rent>>

(* The hour the arming gives the session key is over.  Without a running   *)
(* ride it makes no difference: a tick refused is a tick lost.             *)
Expire ==
  /\ Riding /\ Ride!Expire
  /\ UNCHANGED <<wire, arm, running, disposed, timers, thumb, inbox, venue, settling, rent>>

LandSettle ==
  /\ Taken("settle") /\ Ride!RequestSettle
  /\ UNCHANGED <<arm, running, disposed, timers, thumb, inbox, venue, settling, rent>>

Return ==
  /\ Ride!Return
  /\ UNCHANGED <<wire, arm, running, disposed, timers, thumb, inbox, venue, settling, rent>>

LandClose ==
  /\ Taken("close") /\ Ride!Close
  /\ td' = IF td = "confirm" THEN "closed" ELSE td
  /\ UNCHANGED <<phase, arm, running, disposed, timers, thumb, inbox, venue, rent>>

LandReclaim ==
  /\ Taken("reclaim") /\ Ride!Close
  /\ sweep' = IF sweep = "confirm" THEN "closed" ELSE sweep
  /\ UNCHANGED <<store, arm, running, disposed, timers, thumb, inbox, venue, settling>>

-------------------------------------------------------------------------------
SweepEnds == ReclaimConfirmed \/ ReclaimFails
CloseAtRest == Order("close") /\ ~Head(inbox)
Observe == Ignore \/ \E next \in {"open", "close"} : Order(next)
LandTick == \E tx \in {"up", "rest"} : LandMarked(tx)

Next ==
  \/ Start \/ Sign \/ Confirmed \/ Handed \/ ArmFails \/ MarkRead \/ Dispose
  \/ Throttle \/ Pace \/ SpinOut \/ Observe
  \/ OrderLands \/ OrderAbandoned \/ ReadBack \/ StopOut
  \/ Finish \/ SendFlatten \/ SendSettle \/ Awaited \/ SignClose
  \/ ConfirmClose \/ TeardownFails
  \/ Reclaim \/ SweepEnds \/ Kill
  \/ Drop \/ LandArm \/ LandUnmarked \/ LandTick \/ Expire \/ LandSettle \/ Return
  \/ LandClose \/ LandReclaim

Spec == Init /\ [][Next]_vars

(***************************************************************************)
(* What the code and its surroundings keep doing: the pacer's timer fires, *)
(* the stream delivers, ticks the program takes land at a price every so   *)
(* often, a reconciler shown a flat ride again and again orders the close, *)
(* the venue fills an order in the end and a read-back ends; an            *)
(* undelegation completes; an owner who wants the rent back keeps asking.  *)
(* Nothing is asked of the teardown, which may be killed anywhere, and no  *)
(* tick lands once the session has expired.                                *)
(***************************************************************************)
Fairness ==
  /\ WF_vars(Pace) /\ SF_vars(LandMarked("rest"))
  /\ WF_vars(Observe) /\ SF_vars(CloseAtRest)
  /\ SF_vars(OrderLands) /\ WF_vars(ReadBack)
  /\ WF_vars(Return)
  /\ SF_vars(Reclaim) /\ SF_vars(LandReclaim) /\ WF_vars(SweepEnds)

FairSpec == Spec /\ Fairness

-------------------------------------------------------------------------------
(* The states of the controller, and an account that exists when it has a  *)
(* status.                                                                 *)
TypeOK ==
  /\ loc \in {"none", "base", "er", "undelegating"}
  /\ status \in {"none", "ARMED", "RIDING", "SETTLING"}
  /\ loc = "none" <=> status = "none"
  /\ wire \subseteq Transactions
  /\ arm \in {"off", "preparing", "confirming", "delegating", "marking",
              "riding", "error", "gone", "killed"}
  /\ inbox \in Seq(BOOLEAN) /\ Len(inbox) <= MaxInbox
  /\ order \in {"none", "open", "close", "read"}
  /\ td \in {"off", "flatten", "settle", "await", "close", "confirm", "closed", "ended"}
  /\ phase \in {"none", "working", "closing", "settled", "done", "failed"}
  /\ sweep \in {"off", "confirm", "closed"}
  /\ asked \in BOOLEAN /\ open \in BOOLEAN /\ stale \in BOOLEAN
  /\ expired \in BOOLEAN
  /\ running \in BOOLEAN /\ disposed \in BOOLEAN /\ timers \in BOOLEAN
  /\ thumb \in BOOLEAN /\ real \in BOOLEAN /\ mirror \in BOOLEAN
  /\ store \in BOOLEAN

(* Cancelling an arming ride at any await, or finishing it, leaves no      *)
(* timer and no socket behind (the second look of _arm after its await).   *)
NoOrphanTimers == timers => arm = "riding" /\ Alive

(* A teardown that got as far as the close and still has its screen leaves *)
(* an account that is closed or remembered for the reclaim, whatever was   *)
(* lost, declined or late, and whatever sweeps ran since.                  *)
RentRemembered ==
  td = "ended" /\ phase \in {"closing", "settled", "done"} =>
    loc = "none" \/ store

(* The rent of a remembered ride that did settle comes back to an owner    *)
(* who keeps asking, through lost closes, late ones and kills.             *)
RememberedComesBack == (store /\ status = "SETTLING") ~> loc = "none"

(* A position the app knows of is closed while the thumb rests and the     *)
(* session lives: the pacer keeps ticking until the mirror is flat         *)
(* (_pace), so that lost ticks, late ticks of the pull and rejected orders *)
(* only delay it.  The condition is needed: after the session's hour every *)
(* tick is refused, no update comes back and the position stays open,      *)
(* though _pace says that a release drains to zero.                        *)
AtRest == Riding /\ ~thumb
KnownPositionDrains ==
  (AtRest /\ real /\ mirror) ~> (~real \/ ~AtRest \/ expired)

(* What finish and the teardown say of the real position: the flatten      *)
(* closes it on-chain, and it is closed once the settlement has landed.    *)
SettledMeansFlat == phase = "settled" /\ order = "none" => ~real

(* What the catch of the teardown says: a declined or failed close is      *)
(* remembered so that the rent can be reclaimed later.                     *)
CloseFailureRemembered ==
  [][(td \in {"close", "confirm"} /\ td' = "ended") => store' = TRUE]_vars
===============================================================================
