---------------------------- MODULE GuardianWatcher ---------------------------
(***************************************************************************)
(* The off-phone loss-floor watcher, seen by one ride.  The map `rides'    *)
(* holds at most one ArmedRide per ride; each arm makes a new one, here a  *)
(* generation, so that a handler or a disarm that outlives its entry can   *)
(* be told from one that does not.  The event loop interleaves the parts   *)
(* of the asynchronous methods between their awaits: a task is one running *)
(* call of onUpdate or disarm, stopped at an await.                        *)
(*                                                                         *)
(* Around it: the account on the rollup, which only the phone's own        *)
(* transactions change, its update notifications, and the independent      *)
(* price.  The floor check is the engine's (module Accounting).            *)
(***************************************************************************)
EXTENDS Accounting

CONSTANTS
  Accounts,                     \* what the decoded RideSession may be
  Prices,                       \* independent prices
  MaxArms,                      \* bound on calls of arm
  Tasks                         \* calls of onUpdate and disarm open at once

ASSUME GuardianAssumption ==
  /\ \A a \in Accounts :
       /\ a.fuel \in Nat /\ a.vwap \in Nat
       /\ a.notional \in I64 /\ a.realized \in I64 /\ a.floor \in Int
  /\ Prices \subseteq Nat
  /\ MaxArms \in Nat

Gens == 1 .. MaxArms
None == 0

VARIABLES
  entry,                        \* generation in the map, None if absent
  arms,                         \* generations made so far
  sub,                          \* the subscription of each generation
  fired,                        \* state.fired of each generation
  task,                         \* the running calls
  ride, price, news, phone,     \* the world: account, mark, notification due,
                                \* the phone is alive
  flying,                       \* a submitted flatten has not landed yet
  accepted,                     \* history: flattens accepted per generation
  wanted, overlap               \* history: armed and not let go; an arm met
                                \* an earlier entry or a close in progress

watcher == <<entry, arms, sub, fired, task>>
world == <<ride, price, news, phone, flying>>
history == <<accepted, wanted, overlap>>
vars == <<watcher, world, history>>

Idle == [at |-> "idle"]
ClosingTask(g) == [at |-> "close", gen |-> g]
PriceTask(g, a) == [at |-> "price", gen |-> g, seen |-> a]
SubmitTask(g) == [at |-> "submit", gen |-> g]

Over(a) == a.status \in {"SETTLING", "CLOSED"}
FloorCheck(a, p) ==
  Breached(Equity(a.fuel, a.realized, a.notional, a.vwap, p), a.floor)

Init ==
  /\ entry = None /\ arms = 0
  /\ sub = [g \in Gens |-> "none"]
  /\ fired = [g \in Gens |-> FALSE]
  /\ task = [t \in Tasks |-> Idle]
  /\ ride \in {a \in Accounts : ~Over(a)}
  /\ price \in Prices
  /\ news = FALSE /\ phone = TRUE /\ flying = FALSE
  /\ accepted = [g \in Gens |-> 0]
  /\ wanted = FALSE /\ overlap = FALSE

-------------------------------------------------------------------------------
Free(t) == task[t].at = "idle"
At(t, place) == task[t].at = place
Gen(t) == task[t].gen
Goto(t, next) == task' = [task EXCEPT ![t] = next]
Closing == \E t \in Tasks : At(t, "close")

(* disarm, up to its await: the entry is still in the map while its        *)
(* subscription closes.                                                    *)
StartClose(t) == Goto(t, ClosingTask(entry))

(* arm: disarms what is there without awaiting it, subscribes (which may   *)
(* fail, leaving a subscription that never speaks) and replaces the entry. *)
Arm(t) ==
  /\ arms < MaxArms
  /\ arms' = arms + 1
  /\ IF entry = None THEN UNCHANGED task ELSE Free(t) /\ StartClose(t)
  /\ \E s \in {"open", "dead"} :
       sub' = [g \in Gens |-> IF g = arms + 1 THEN s
                              ELSE IF g = entry THEN "closed" ELSE sub[g]]
  /\ entry' = arms + 1
  /\ wanted' = TRUE
  /\ overlap' = (entry # None \/ Closing)
  /\ UNCHANGED <<fired, world, accepted>>

(* Mutant: a disarm of a ride that is not there goes through.              *)
DisarmUnchecked(t) ==
  /\ Free(t)
  /\ StartClose(t)
  /\ sub' = [g \in Gens |-> IF g = entry THEN "closed" ELSE sub[g]]
  /\ wanted' = FALSE
  /\ UNCHANGED <<entry, arms, fired, world, accepted, overlap>>

DisarmRequest(t) ==
  /\ Free(t) /\ entry # None
  /\ StartClose(t)
  /\ sub' = [sub EXCEPT ![entry] = "closed"]
  /\ wanted' = FALSE
  /\ UNCHANGED <<entry, arms, fired, world, accepted, overlap>>

(* The rest of disarm: deletes by key, whoever is there by now.            *)
CloseDone(t) ==
  /\ At(t, "close")
  /\ entry' = None
  /\ Goto(t, Idle)
  /\ UNCHANGED <<arms, sub, fired, world, history>>

-------------------------------------------------------------------------------
Heard == \E g \in Gens : sub[g] = "open"

(* Mutant: a flat ride is taken for one that needs no watching.            *)
OnUpdateDropsFlat(t) ==
  /\ Free(t) /\ news
  /\ entry # None /\ Heard
  /\ news' = FALSE
  /\ IF Over(ride) \/ ride.notional = 0
       THEN /\ StartClose(t)
            /\ sub' = [sub EXCEPT ![entry] = "closed"]
            /\ wanted' = (wanted /\ ~Over(ride))
       ELSE /\ Goto(t, PriceTask(entry, ride))
            /\ UNCHANGED <<sub, wanted>>
  /\ UNCHANGED <<entry, arms, fired, ride, price, phone, flying, accepted, overlap>>

(* onUpdate, up to its first await: an update reaches the handler of a     *)
(* subscription, which looks the ride up by key: one that an earlier       *)
(* arming left behind speaks for the entry of a later one.                 *)
OnUpdate(t) ==
  /\ Free(t) /\ news
  /\ entry # None /\ Heard
  /\ news' = FALSE
  /\ IF Over(ride)
       THEN /\ StartClose(t)
            /\ sub' = [sub EXCEPT ![entry] = "closed"]
            /\ wanted' = FALSE
       ELSE /\ Goto(t, PriceTask(entry, ride))
            /\ UNCHANGED <<sub, wanted>>
  /\ UNCHANGED <<entry, arms, fired, ride, price, phone, flying, accepted, overlap>>

(* No independent price: neither fire blind nor assume safety.             *)
NoPrice(t) ==
  /\ At(t, "price")
  /\ Goto(t, Idle)
  /\ UNCHANGED <<entry, arms, sub, fired, world, history>>

(* Mutant: the ride is marked as fired only once the submit has answered.  *)
PricedFiresLate(t) ==
  LET a == task[t].seen IN
  /\ At(t, "price")
  /\ IF FloorCheck(a, price) /\ a.notional # 0 /\ ~fired[Gen(t)]
       THEN Goto(t, SubmitTask(Gen(t))) /\ UNCHANGED fired
       ELSE Goto(t, Idle) /\ UNCHANGED fired
  /\ UNCHANGED <<entry, arms, sub, world, history>>

(* Mutant: the mark is spent on a breach with nothing left to close.       *)
PricedSpendsOnFlat(t) ==
  LET a == task[t].seen IN
  /\ At(t, "price")
  /\ fired' = [fired EXCEPT ![Gen(t)] = @ \/ FloorCheck(a, price)]
  /\ IF FloorCheck(a, price) /\ a.notional # 0 /\ ~fired[Gen(t)]
       THEN Goto(t, SubmitTask(Gen(t)))
       ELSE Goto(t, Idle)
  /\ UNCHANGED <<entry, arms, sub, world, history>>

(* The price is in: the account seen before the await is checked against   *)
(* it, and the entry captured then, in the map or not, fires once.         *)
Priced(t) ==
  LET a == task[t].seen IN
  /\ At(t, "price")
  /\ IF FloorCheck(a, price) /\ a.notional # 0 /\ ~fired[Gen(t)]
       THEN /\ fired' = [fired EXCEPT ![Gen(t)] = TRUE]
            /\ Goto(t, SubmitTask(Gen(t)))
       ELSE Goto(t, Idle) /\ UNCHANGED fired
  /\ UNCHANGED <<entry, arms, sub, world, history>>

(* Mutant: the mark is cleared however the submit ends (a finally).        *)
SubmitOkClearsMark(t) ==
  /\ At(t, "submit")
  /\ accepted' = [accepted EXCEPT ![Gen(t)] = @ + 1]
  /\ fired' = [fired EXCEPT ![Gen(t)] = FALSE]
  /\ flying' = TRUE
  /\ Goto(t, Idle)
  /\ UNCHANGED <<entry, arms, sub, ride, price, news, phone, wanted, overlap>>

(* The node took the transaction; whether it lands is another matter.      *)
SubmitOk(t) ==
  /\ At(t, "submit")
  /\ accepted' = [accepted EXCEPT ![Gen(t)] = @ + 1]
  /\ flying' = TRUE
  /\ Goto(t, Idle)
  /\ UNCHANGED <<entry, arms, sub, fired, ride, price, news, phone, wanted, overlap>>

(* Mutant: a failed submit leaves the ride marked as fired.                *)
SubmitFailsForGood(t) ==
  /\ At(t, "submit")
  /\ Goto(t, Idle)
  /\ UNCHANGED <<entry, arms, sub, fired, world, history>>

SubmitFails(t) ==
  /\ At(t, "submit")
  /\ fired' = [fired EXCEPT ![Gen(t)] = FALSE]
  /\ Goto(t, Idle)
  /\ UNCHANGED <<entry, arms, sub, world, history>>

(* The process dies or is shut down; nothing of the map is persisted.      *)
Restart ==
  /\ entry' = None
  /\ sub' = [g \in Gens |-> IF sub[g] = "none" THEN "none" ELSE "closed"]
  /\ task' = [t \in Tasks |-> Idle]
  /\ wanted' = FALSE
  /\ UNCHANGED <<arms, fired, world, accepted, overlap>>

-------------------------------------------------------------------------------
(* The world.  Every transaction of the phone touches the account, a tick  *)
(* that leaves the position alone included.                                *)
RideTouched ==
  /\ phone /\ ~Over(ride)
  /\ ride' \in Accounts
  /\ news' = TRUE
  /\ UNCHANGED <<watcher, price, phone, flying, history>>

(* The flatten lands on a ride that still takes ticks, or is dropped.      *)
FlattenLands ==
  /\ flying
  /\ flying' = FALSE
  /\ \/ /\ ~Over(ride)
        /\ ride' \in {a \in Accounts : a.notional = 0 /\ ~Over(a)}
        /\ news' = TRUE
     \/ UNCHANGED <<ride, news>>
  /\ UNCHANGED <<watcher, price, phone, history>>

PriceMoves ==
  /\ price' \in Prices
  /\ UNCHANGED <<watcher, ride, news, phone, flying, history>>

NewsLost ==
  /\ news
  /\ news' = FALSE
  /\ UNCHANGED <<watcher, ride, price, phone, flying, history>>

PhoneDies ==
  /\ phone
  /\ phone' = FALSE
  /\ UNCHANGED <<watcher, ride, price, news, flying, history>>

Deliver == \E t \in Tasks : OnUpdate(t)

Next ==
  \/ \E t \in Tasks :
       \/ Arm(t) \/ DisarmRequest(t) \/ CloseDone(t)
       \/ OnUpdate(t) \/ NoPrice(t) \/ Priced(t)
       \/ SubmitOk(t) \/ SubmitFails(t)
  \/ Restart
  \/ RideTouched \/ FlattenLands \/ PriceMoves \/ NewsLost \/ PhoneDies

Spec == Init /\ [][Next]_vars

(***************************************************************************)
(* Fairness: the event loop runs every handler on, a notification that     *)
(* stays due is delivered, and a price source and a node that are asked    *)
(* again and again answer some time.  A phone that lives keeps ticking.    *)
(***************************************************************************)
Fairness ==
  /\ WF_vars(Deliver) /\ WF_vars(RideTouched)
  /\ \A t \in Tasks :
       /\ WF_vars(CloseDone(t))
       /\ WF_vars(NoPrice(t) \/ Priced(t)) /\ SF_vars(Priced(t))
       /\ WF_vars(SubmitOk(t) \/ SubmitFails(t)) /\ SF_vars(SubmitOk(t))

FairSpec == Spec /\ Fairness

-------------------------------------------------------------------------------
TaskState ==
  {Idle} \cup [at: {"close", "submit"}, gen: Gens]
    \cup [at: {"price"}, gen: Gens, seen: Accounts]

TypeOK ==
  /\ entry \in 0 .. arms /\ arms \in 0 .. MaxArms
  /\ sub \in [Gens -> {"none", "open", "dead", "closed"}]
  /\ fired \in [Gens -> BOOLEAN]
  /\ task \in [Tasks -> TaskState]
  /\ ride \in Accounts /\ price \in Prices
  /\ news \in BOOLEAN /\ phone \in BOOLEAN /\ flying \in BOOLEAN
  /\ accepted \in [Gens -> Nat]
  /\ wanted \in BOOLEAN /\ overlap \in BOOLEAN

(* However updates, prices and submits interleave, one arming hands the    *)
(* flatten to the network at most once, and never twice at the same time   *)
(* (the `fired' mark is set before the await of onUpdate).                 *)
Submitting(g) == {t \in Tasks : At(t, "submit") /\ Gen(t) = g}
FireOncePerArming ==
  \A g \in Gens :
    /\ accepted[g] <= 1
    /\ Submitting(g) # {} => accepted[g] = 0
    /\ \A t, u \in Submitting(g) : t = u

(* A ride marked as fired has its flatten accepted or on its way: a failed *)
(* submit is never taken for a handled breach (the catch of onUpdate),     *)
(* unless the process died on it.                                          *)
FiredMeansHandled ==
  \A g \in Gens :
    (fired[g] /\ entry = g) => accepted[g] = 1 \/ Submitting(g) # {}

(* An arming that met no earlier one stays in the map, listening, until    *)
(* it is let go of, its ride is over or the process dies: a flat, breached *)
(* or frozen ride, a missing price and a failed submit keep the watch      *)
(* (arm, disarm, onUpdate).                                                *)
LoneArmStays ==
  (wanted /\ ~overlap) => entry = arms /\ sub[arms] \in {"open", "dead"}

(* The flatten of an arming as a fuse.  It stays set, disarmed or replaced,*)
(* while a handler that saw the ride waits for its price: that handler     *)
(* still fires.  A mark with nothing behind it would make the fuse a dud.  *)
Held(g) == entry = g \/ \E t \in Tasks : At(t, "price") /\ Gen(t) = g
FuseState(g) ==
  IF g > arms THEN "unmade"
  ELSE IF Submitting(g) # {} THEN "firing"
  ELSE IF accepted[g] > 0 THEN "blown"
  ELSE IF Held(g) THEN IF fired[g] THEN "dud" ELSE "set"
  ELSE "gone"

TheFuse == INSTANCE Fuse WITH state <- [g \in Gens |-> FuseState(g)]

(* Every arming of the watcher is a fuse: it fires only while set, is set  *)
(* again by a failed submit alone, and once its flatten was accepted or    *)
(* the last handler of a let-go arming is through, never fires again.      *)
ImplementsFuse == TheFuse!Spec

(* An open position under its floor at the independent price, watched by   *)
(* an entry that has not fired.                                            *)
Endangered(g) ==
  /\ entry = g /\ ~Over(ride)
  /\ ride.notional # 0 /\ FloorCheck(ride, price)
  /\ accepted[g] = 0

(* As long as account updates keep coming in, a breach does not go on with *)
(* no flatten handed in, whatever submits and prices fail on the way       *)
(* (onUpdate's retry on the next update).                                  *)
BreachActedOn ==
  []<><<Deliver>>_vars => \A g \in Gens : Endangered(g) ~> ~Endangered(g)

(* What the comment on arm says: idempotent per ride, re-arm replaces, so  *)
(* an armed ride stays in the map whether or not it was armed before.      *)
ArmReplaces == wanted => entry = arms

(* What the layering table says of the guardian: it survives the death of  *)
(* the phone, so a breach of a watched ride is acted on all the same.      *)
WatchedThroughPhoneDeath ==
  \A g \in Gens : (Endangered(g) /\ sub[g] = "open") ~> ~Endangered(g)
===============================================================================
