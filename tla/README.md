# Throtl in TLA+

Throtl is a mobile game around a leveraged position: the thumb on a throttle sets an exposure,
a program on a rollup keeps the *virtual* position at every tick, and the app reconciles a *real*
position at the venue (Flash Trade) to it. Money moves in three places that see each other late or
not at all: the program's account, the venue, and a guardian service that watches while the phone
may be gone. This directory specifies those parts, checks them with TLC and proves the program's
main guarantees, the executor's, the guardian's and the app's, with TLAPS. Paths below are relative to `src/`.

## 1. Inventory

| Component | Source | State | Operations | Hard part |
|---|---|---|---|---|
| Ride accounting | `programs/*/math.rs`, `throtl_core/accounting.dart`, `guardian/accounting.ts` | none | PnL, equity, settle to a target | rounding, saturation, signs |
| On-chain engine | `programs/throtl-engine-pin`, `programs/throtl-engine` | one `RideSession` account per ride | init, delegate, tick, flatten, freeze, request_settle, process_undelegation, close | order of calls, two chains, stale price, expiry |
| Reconciler | `throtl_core/reconciler.dart` | Synced, Drifting, Settling, Frozen, Degraded | `step` | what a state remembers of the one before it |
| Executor, planner, gateway | `throtl_runtime/executor.dart`, `flash_planner.dart`, `throtl_live/real_flash_gateway.dart`, `wallet/flash_session.dart` | machine state, mirror of the real position | `onObservation`, `apply` | re-entrancy, lost and late orders, stop-outs |
| Guardian watcher | `services/guardian/watcher.ts` | map of armed rides, subscription and `fired` mark of each | arm, disarm, onUpdate | interleaving at awaits, retries, restart |
| Guardian HTTP, ride store, prices | `services/guardian/index.ts`, `store.ts`, `oracle.ts` | sessions on disk | REST routes, Hermes read | best-effort delivery |
| Live ride lifecycle | `engine/live_ride_controller.dart` | phase, session key, timers, subscription | start, pace, spinOut, finish, teardown | cancel at any await, partial teardown |
| Rent reclaim | `chain/rent_reclaim.dart` | persisted list of rides | add, remove, reclaim | lost entry |
| Funding and withdrawal | `wallet/flash_funding.dart` | none (venue, chain) | deposit, delegate, withdraw | several transactions, one may fail |
| Session keys | `wallet/flash_session.dart` | key, expiry | create, sign and submit | submit returns before confirmation |
| Wallet | `wallet/wallet_controller.dart`, `mwa_wallet.dart` | account, balances, token | connect, refresh, sign | stale refresh answers |
| Rollup feed | `throtl_live/er_ride_feed.dart`, `er_subscription.dart` | last update time | transform | silence |
| Router, codecs, REST clients | `magicblock_client`, `throtl_chain`, `flash_client` | none | requests, byte layouts | none |
| Practice ride | `engine/ride_controller.dart`, `sim_gateway.dart`, `price_feed.dart` | a simulated position | play | no real money |
| Presentation | screens, widgets, scene, audio, theme, site | view state | draw | none |

**Interaction.** The thumb's exposure goes to the rollup as `tick` transactions signed by a session
key (`_pace`, every 140 ms). The account's change comes back on a websocket; the feed adds the guard
mark and hands an observation to the executor, which compares the account's notional (advisory)
with the gateway's mirror of the venue (trusted after each order) and sends at most one order. The
venue's keeper closes positions at their stops without telling anybody. The guardian has its own
subscription of the same account, its own price, and a pre-signed flatten of the *virtual* position.

**What makes each part correct.** Accounting: profit is booked once. Engine: money moves only under
a live, fresh tick; no growth under the floor; the rent always comes back; the two builds agree.
Reconciler and executor: the venue never exceeds fuel times leverage, the mirror never hides a
position, every order approaches the thumb. A stop-out that the mirror shows is not reopened while the
thumb pulls, as long as nothing degrades the machine; apart from a stop-out, the machine freezes only
after a full close of its own that is seen while the thumb pulls again. Guardian: an arming fires at
most once, is not spent in vain, keeps watching. Live ride: nothing outlives a cancelled ride, a known
position drains at rest while the session lives, the rent is closed or remembered. The hazards behind these, line by line, are in `PROJECT.json`.

## 2. Modules

| Module | Models | Notes |
|---|---|---|
| `Accounting` | the arithmetic and the floor predicates | scale `BpsScale` and width `I64Max` are parameters; used by both ends that evaluate a floor |
| `OraclePrice` | the price account, its checks and its exponent | shared by the two builds |
| `RideSession` | the deployed build of the engine, the chain's clock, the price feed | EXTENDS `Accounting`, `OraclePrice` |
| `AnchorEngine` | the Anchor build it was rewritten from, handlers as functions of one record | abstract side of `AgreesWithAnchor` |
| `RideLifecycle` | what the app may rely on of the account: place, status, asked, open, stale, session expired | abstract side of `ImplementsLifecycle` |
| `LiveRide` | the app's controller of one ride, the wire, the venue seen from afar, the reclaim | INSTANCEs `RideLifecycle` and `RealPosition`: its account and venue steps are those modules' actions |
| `Reconciler` | the pure decision, the machine's states | no variables |
| `RideExecutor` | executor, planner, gateway, venue, network, keeper | EXTENDS `Reconciler`; composes them |
| `GuardianWatcher` | watcher, its collaborators, the rollup's updates, the phone | EXTENDS `Accounting` |
| `RealPosition` | what the app may rely on of executor, gateway and venue: order under way, position there or not, mirror | abstract side of `ImplementsPosition` |
| `Fuse` | what the watcher promises of one arming's flatten: set, firing, blown, gone | abstract side of `ImplementsFuse` |
| `MCRideSession`, `MCRideExecutor`, `MCGuardianWatcher`, `MCLiveRide` | instances for TLC | constants only |
| `AccountingLemmas`, `RideSessionProofs`, `RideExecutorProofs`, `ExecutorFillProofs`, `ExecutorVenueProofs`, `GuardianProofs`, `LiveRideProofs` | proofs | EXTEND what they prove about, and `TLAPS` |

`RideSession`. The fields of the account are variables of the same names, shortened
(`notional_usd_6` is `notional`, `entry_vwap_e9` is `vwap`, `target_exp_bps` is `target`,
`virt_exp_bps` is `virt`). `loc` stands for the account's owner: none, the program on the base chain,
the program on the rollup, or the delegation program in between. Each instruction is one action, and
each `require!` a conjunct of its guard, because a failed instruction aborts its transaction. The
signer is an argument. A tick is handed a price account with an owner, a length, a feed, a mantissa
and an exponent, and reads it as `read_oracle` does. `grip_mode`, keys and byte layout are left out:
no guard after init reads them. `Mutant:` definitions in the modules are deliberately wrong variants
that show the properties can fail.

`AnchorEngine`. The same instructions as the Anchor build writes them. It differs from the deployed
build in two guards: it has no ceiling on the time to live, and it takes a price stamped ahead of the
clock for fresh. `AgreesWithAnchor` maps the deployed account onto its record and asks that every
step at a price not stamped ahead be one of its steps.

`LiveRide`. `arm` is where `_arm` stands, `td` where `_teardown` stands; each await is a value of one
of them. `wire` holds the transactions that were sent: they land in any order, at any time later, or
never. `timers` is the guard poll, the subscription and the pacer together, which the code starts and
stops together. `order`, `real` and `mirror` are the variables of `RealPosition`: an update is ignored or
leads to an order, to one that opens only if it shows exposure (a target of zero opens nothing). One
order and one reclaim are under way at a time; overlapping orders are the subject of
`Exec_SizeWithinCap`. The session's hour (`Expire`) may run out at any moment of a running ride; from
then on the account takes no tick, and a tick on the wire can only be dropped. `Dispose` may come at any
time after the start. `Kill` loses all of it but the chain, the wire, the venue and
the stored list.

`Reconciler`, `RideExecutor`. A position is its signed notional. `age` in Drifting and Settling is
`nowMicros - sinceMicros`, cut off at the longest wait. One call of `onObservation` is a *slot*: its
code up to the first await is the step `Observe`, each answer of the network is a step of its own
(`Confirmed`, `Sent`, `Rejected`, `AnswerLost`, `Reread`, `RereadFails`). Two slots stand for the
re-entrancy the code only asserts against. The shipped `flashSessionSignSubmit` returns on send:
`Sent` puts the order in `pending`, from where it lands or is dropped. `past` is a history variable:
"kept" while callers and submit honour the gateway's contract, "stoppedOut" while in addition a
keeper's close has not been answered by letting go, "forgotten" once an observation has degraded the
machine before that answer (Degraded remembers nothing of a stop-out), "broken" once the contract was
broken. `StoppedOutStaysOut` speaks of "stoppedOut" only, `StopOutReleasedByThumb` of "forgotten" too.

`RealPosition`. The executor, its gateway and the venue with amounts and sides forgotten. An order that is
to leave a position (an increase, a reduction, a flip) is "open", a full close is "close", the re-read of
a plan that was carried out is "read". A call that lands fills the order, or is the first half of a flip;
its answer may be lost, the order may be abandoned at any point, and a stop-out comes at any time. It is
between the two modules as `RideLifecycle` is on the other side of the app: `RideExecutor` implements it
(`OrderUnderWay` reads the order off the calls that are left), `LiveRide` is composed with it. The
refinement speaks of steps after which calls do not overlap and nothing is sent and unconfirmed
(`Confirming`): a late order that lands after the next was decided is no step of it.

`GuardianWatcher`. Each `arm` makes a *generation*; a task is a running `onUpdate` or `disarm`
stopped at an await, and remembers the generation it captured. `fired` belongs to the generation, as
it does to the state object in the code, so a handler of a replaced entry sets its own mark.
`accepted`, `wanted` and `overlap` are history. `FuseState` reads one arming as a `Fuse`: it stays set
while its entry is in the map or a handler that saw the ride waits for a price (that handler still
fires, disarmed or not). `onUpdate` finds the ride by its key, so a subscription that the arm race has
left behind speaks for the entry of a later arming (`Heard`). A mark with no flatten behind it would be a dud, which `Fuse` has no room for.

## 3. Runs

| Run | Shows |
|---|---|
| `RideSession` | the type invariant, three state invariants and seven action properties of the engine over every interleaving of instructions, clock and feed |
| `RideSessionLive` | `RentComesBack`, under the owner's fairness; the refinements `ImplementsLifecycle` and `AgreesWithAnchor` |
| `RideExecutor` | `FaithfulWithinCap`, `MirrorOverstates`, `OrdersApproach`, `StoppedOutStaysOut`, `FillWithinExpectation`, `FreezeHasCause`; the refinement `ImplementsPosition` |
| `Exec_StopOutNeverReopened` | violated: a keeper's close is not in the mirror until the next order |
| `Exec_StopOutReleasedByThumb` | violated: one degraded observation makes the machine forget the stop-out |
| `Exec_SizeWithinCap` | violated: a second call overlaps the first's read-back and orders the same increase again |
| `GuardianWatcher` | `FireOncePerArming`, `FiredMeansHandled`, `LoneArmStays`, `BreachActedOn`; the refinement `ImplementsFuse` |
| `Guardian_ArmReplaces` | violated: the disarm of the old entry deletes the new one |
| `Guardian_WatchedThroughPhoneDeath` | violated: no phone, no update, no check |
| `LiveRide` | `NoOrphanTimers`, `RentRemembered`, `RememberedComesBack`, `KnownPositionDrains` |
| `Live_SettledMeansFlat` | violated: finish cuts the feed before the flatten, so the venue's position is never closed |
| `Live_CloseFailureRemembered` | violated: a controller disposed during its teardown forgets a declined close |

The seven violated runs each state one sentence of the repository's documents or comments; the
sentences and what the code does instead are in `PROJECT.json` under `findings`. Three more sentences
differ from the code and have no run of their own, because reading both settles them:

- `docs/ARCHITECTURE.md:92`: after a breach "only reductions/flatten allowed thereafter". `tick_inner`
  recomputes the breach from each mark and never reads the sticky flag, so after a recovery the position
  may grow again. `BreachNeverGrows` is about the ticks that find the breach.
- `docs/ARCHITECTURE.md:91`: positions are sized by the effective equity once realized profit is negative.
  `tick_inner` sizes by `effective_collateral_6`, without unrealized profit (`math.rs:46-48`), and that is
  what `ResizeWithinCollateral` says. With fuel 10, 2 banked in losses and 2 more open, the code backs a
  position by 8, the document by 6.
- `live_ride_controller.dart:487-488`: the pacer keeps ticking "so a release drains to zero on-chain". Once
  the session's hour is over (`:289`) the program refuses every tick and nothing drains.
  `KnownPositionDrains` therefore speaks of a living session.

**Bounds.** *RideSession*: prices 800, 1000 and 1200 at ten times leverage, written with three
different exponents, so one move passes bankruptcy and the floor and one move returns; three ticks are
what it takes to open, lose, and open again on what is left, or to flip twice; the clock's steps cover
a price that is fresh, at the limit and stale, and a session that expires, with a feed stamp up to one
second ahead. The arguments of init hold one value beyond each of its limits. Amounts stay under 600,
within `I64Max` = 1000: saturation is left to the proofs, which hold for every width.
*RideSessionLive*: two ticks; the price accounts are two good ones and one for each check of
`read_oracle` that fails (owner, length, feed, sign, overflow, rounding to nothing).
*RideExecutor*: cap 12, band 4, floor of the band 2, one order at most 8. Thumbs of 1, 7, 13 and -8 are
dust, a partial reduction of the full position, beyond the cap, and on the other side; one order cannot
fill the cap, so convergence takes two. Sizes are capped at 16, one order is in flight. The passing run
has one slot: an overlap ends the contract under which its properties speak, so a second slot would add
states and no case; `Exec_SizeWithinCap` has two and shows what an overlap does.
`Exec_StopOutReleasedByThumb` needs the thumbs 7 and 13 only: an established position, and an increase
whose read-back shows that the keeper has closed. The shipped feed never
reports a lost link or a closed market, so neither do the observations; the two others, a stale oracle
and diverging marks, degrade the machine.
*GuardianWatcher*: two armings, two tasks, five states of the account, prices that leave the open
position sound, bankrupt or breached.
*LiveRide*: one ride and `MaxInbox` = 2 undelivered updates, enough for one of the pull to be delivered
after the thumb has let go; the wire is a set, so a transaction of a kind is under way once, and may be
sent again when it has landed or is lost.

Deadlock is checked except in the three runs of `MCLiveRide`, where a cancelled or finished ride with
nothing left to reclaim really stops.

**Fairness.** `OwnerExit` has a part of the app's and parts that are assumptions. The app keeps a ride whose
close was declined in its reclaim list and offers it until it succeeds, hence strong fairness of the
close (`OwnerRetries`). That a ride left on the base chain is delegated, and that the settlement of a ride
on the rollup is asked for, is assumed of the owner: the app tries each once. The delegation program's
return is weakly fair; nothing is asked of the session key, the clock or the feed.
The guardian's `Fairness` is the event loop (a started handler goes on), a price source and a node that
answer some of the time they are asked, and a phone that, while it lives, touches the account.
`BreachActedOn` is conditional on updates being delivered again and again, which is what the code
relies on. `LiveRide`: the pacer's timer fires and the stream delivers (weak: both are the event loop);
a tick that the program would take, sent again and again, lands in the end at a price, a reconciler shown a flat ride again and again
orders the close, and the venue takes an order that is repeated (strong: each may fail any number of
times); a read-back ends, with a position or with an error (weak); the owner keeps asking for the rent. A session that has expired takes no tick, so no fairness brings one
in: `KnownPositionDrains` is conditional on the session living. Nothing is asked of arming or of the teardown, which may
stop anywhere. `RideExecutor` has safety properties only.

## 4. Proofs

Every invariant and action property of a passing run, the four refinements and the type
invariants are theorems; liveness and the bounds of the instances are not.

`AccountingLemmas` holds what the arithmetic promises for every scale and width. *Ranges:* results are in
`I64`, a target notional is within collateral times leverage, settling keeps the entry price nonzero
exactly with the position, the display exposure of a backed notional is within full scale and behind
the thumb it came from (`NeedleBehindThumb`). *Rounding:* truncating division splits a sum exactly up to
one unit (`TruncDivSplit`), is odd and monotone, and saturation moves two numbers no further apart
(`SatNear`, `SatMonotone`). *Books:* `CloseAllBooks` and `ReduceBooks` compute what a close and a reduction
leave, `WeightedVwapBetween` places the entry price of an addition, `ResizeAdds` and `SettleConserves`
put them together. `BreachHoldsAtWorseMarks` is a theorem of its own: the floor check is monotone in the
mark, through rounding and saturation, so the engine's tick and the guardian's check of an independent
price can disagree in one direction only.

`RideSessionProofs` proves, of `Spec` and for all constants that satisfy the named assumptions:
`TypeCorrect`, `EntryAlways`, `NeedleAlways`, `LifecycleAlways` (state invariants), and
`ResizeAlwaysBacked`, `BreachAlwaysCapped`, `MoneyMovesOnlyLive`, `AlwaysForward`, `NeedleStaysBehind`,
`ReductionsBookOnce`, `AdditionsNeverFlatter` (action properties).
The inductive invariant `IInv` is the conjunction of the four state invariants. None of them is
inductive alone: a mark tick keeps its own result typed only if the entry price it divides by is
there when the position is, and an unmarked ride must be flat for the first tick to establish that.
The invariant is shown initial, preserved by each action (the tick split into its stale and its marked
half), and each theorem combines it with a step lemma by temporal logic. Two more theorems are
refinements: `EngineImplementsLifecycle` (a marked tick of zero ends flat whatever the floor says,
because a target of nothing is never above the position held; the session's time may run out with any
step of the clock) and `RewriteAgrees` (the deployed build
against `AnchorEngine`: the same arithmetic under the instance's names, the freshness tests equal when
the stamp is not ahead, and the updated record compared field by field).

The two booking theorems carry the conditions under which the code's books are right. Saturation may
swallow a profit, so `ReductionBooksOnce` asks that the profit of the whole position fits the stored
integer (`ProfitFits`). The entry price of an addition is an average rounded down to an integer, and the
error is multiplied by the position: `AdditionNeverFlatters` holds where the position is small beside the
grain of the prices (`GrainIsFine`), and is false without it. With the code's nine decimals
and an asset of 100 dollars a unit the bound is near 10^11 millionths, a position of a hundred thousand
dollars; for an asset of ten cents it is a hundred dollars.

`RideExecutorProofs`, for every cap, band, size, observation and number of slots. `FaithfulWithinCap`
and `MirrorOverstates` say nothing of the calls under way, so the invariant adds `Kept`: while the
contract is kept at most one slot is busy, what it still has to send fits what the venue holds
(`Fits`), no order is pending, and the mirror is right of every open side unless a plan has just been
carried out and not read back. `Shapes` types the jobs and is all that `EveryOrderApproaches` needs of
the state; of the constants it assumes that an order may be larger than nothing and that the dust rule
leaves at most half.
`NeverBackIntoTheMove` (no reopening while the thumb pulls and nothing degrades the machine; without the
second condition it is false, as `Exec_StopOutReleasedByThumb` shows) strengthens further: the shape of the machine's state, that a running call was
entered in a state that knows its position (`RunningKnows`), and that a stop-out the mirror shows finds
the machine frozen or in a state that detects it (`Detectable`).

`ExecutorFillProofs` continues from that invariant. `ExecutorTyped` is the type invariant.
`FillNeverOvershoots` is about the moment of the read-back, which the steps before it must prepare: what
is left of a plan can only take the venue between flat and the expectation (`Toward`, one case for each
shape of a plan: nothing, a close, an open, a close and an open), however many of its calls are
rejected and wherever the keeper closes in between (`PlanToward`), and a machine in sync runs nothing
but the replacement of a stop (`SyncedKnows`). `FreezeAlwaysHasCause` needs the converse: a plan of a
machine that knew a position and expects one leaves one (`Leaves`, `PositionLasts`). That is false
when no order may be larger than nothing, since a flip then closes and opens nothing; hence its hypothesis
`MaxDelta > 0`, which the code's defaults satisfy.

`ExecutorVenueProofs` is the refinement of `RealPosition`. The stage of an order is read off the calls that
are left, so the proof needs to know what those can be: that a plan is *solid* (`Solid`, `SolidPlan`),
which is to say a full close, the replacement of a stop, or calls that leave a position when they are
carried out; a partial reduction of everything or an opening of nothing would be filled as "open" and
leave the venue flat. `PlanSolid` shows it of every order that is decided on a right mirror, `SolidAfterCall`
and `SolidAfterStopOut` keep it, and the steps are then mapped one by one (`ObserveMaps`, `LandingMaps`,
`AbandonMaps`, `RereadMaps`, `StopOutMaps`). Being one-sided, which `Kept` provides, is what makes a close
or a stop-out leave nothing. Its hypothesis is `MaxDelta > 0` again.

`GuardianProofs`, for every number of tasks and armings. `FireOncePerArming` is not inductive: one must
know that a task at its submit has set the mark of its own generation (`SubmitMarked`), that it is alone
(`SubmitAlone`), that an accepted flatten left the mark (`AcceptedMarked`) and that a generation not yet
armed has neither mark nor task (`MarkedWereArmed`, `TasksWereArmed`). `LoneArmStays` needs that no
closing task exists where nobody disarmed (`NothingClosesIt`).
`WatcherImplementsFuse` is a refinement proof with one step per action: most leave marks and submits
alone and can only let a fuse go (`QuietBurns`), an answer or a restart ends a firing one
(`AnswerBurns`), and the price check lights it. It takes one more invariant, `WaitersHandled`: the mark
that a handler finds after its await is backed by a flatten even when its entry was replaced or deleted
meanwhile, which `FiredMeansHandled` says of the entry in the map only.

`LiveRideProofs`, for every inbox. `LiveTyped` is the type invariant, a group of variables at a time.
`NoOrphanTimers` is kept by each step. `RentRemembered` is not
inductive: a confirmed close must have found the account gone (`ClosedMeansGone`), no arming
transaction may be left on the wire to create it again (`ArmedOnce`), and before its end a teardown
shows none of the final phases (`PhaseBeforeEnd`).

Only model-checked: the liveness properties `RentComesBack`, `BreachActedOn`, `RememberedComesBack` and
`KnownPositionDrains`, which rest on fairness and so are beyond the prover, and the violated ones, whose
counterexamples are TLC's.

## 5. Not modelled

Funding and withdrawal are sequences of requests to the venue without state of their own; in `LiveRide`
they are part of the one preparing step that may fail. Session-key creation goes with them. The wallet's
balances decide nothing that is modelled. Codecs, REST and RPC clients are stateless; the practice ride
moves no money; presentation has no property worth stating here. In the guardian, an undecodable buffer
and a `close` that throws are left out. The app's arming has no statement about a ride that was cancelled
after its transaction was sent: the account stays delegated and the app does not remember it.

## 6. What could come next

1. Convergence of `RideExecutor` under a quiet thumb and an honest network (liveness).
2. Overlapping orders in `RealPosition`, and so in `LiveRide`.
3. Several rides at a time: the reclaim list as a set, two controllers of one app.
