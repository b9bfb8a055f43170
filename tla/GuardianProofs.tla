----------------------------- MODULE GuardianProofs ---------------------------
(***************************************************************************)
(* What the watcher guarantees for every account, price, number of armings *)
(* and number of handlers open at once.  The invariant ties the three      *)
(* traces a flatten leaves, the mark `fired', the running submit and the   *)
(* count of accepted ones, for each arming; and an arming that met no      *)
(* other has no close in progress that could delete it.                    *)
(***************************************************************************)
EXTENDS GuardianWatcher, TLAPS

(* A running submit belongs to a generation marked as fired, and nothing   *)
(* of that generation was accepted yet.                                    *)
SubmitMarked ==
  \A t \in Tasks : At(t, "submit") => fired[Gen(t)] /\ accepted[Gen(t)] = 0

(* No two submits of one generation.                                       *)
SubmitAlone ==
  \A t, u \in Tasks :
    At(t, "submit") /\ At(u, "submit") /\ Gen(t) = Gen(u) => t = u

(* What was accepted, once at most, keeps its generation marked.           *)
AcceptedMarked ==
  \A g \in Gens : accepted[g] \in {0, 1} /\ (accepted[g] = 1 => fired[g])

(* Marks and running calls are of generations that were made.              *)
MarkedWereArmed == \A g \in Gens : fired[g] => g <= arms

TasksWereArmed == \A t \in Tasks : ~Free(t) => Gen(t) <= arms

(* Where an arming met no other, no disarm is on its way to delete it.     *)
NothingClosesIt == wanted /\ ~overlap => ~Closing

(* A handler that waits for its price may outlive the entry it captured:   *)
(* the mark it will find there is backed by a flatten all the same.        *)
WaitersHandled ==
  \A t \in Tasks :
    At(t, "price") /\ fired[Gen(t)] =>
      accepted[Gen(t)] = 1 \/ Submitting(Gen(t)) # {}

IInv ==
  /\ TypeOK
  /\ SubmitMarked /\ SubmitAlone /\ AcceptedMarked
  /\ MarkedWereArmed /\ TasksWereArmed
  /\ FiredMeansHandled /\ WaitersHandled /\ NothingClosesIt /\ LoneArmStays

-------------------------------------------------------------------------------
(* The initial state is typed.                                             *)
LEMMA InitType == Init => TypeOK
<1> SUFFICES ASSUME Init
             PROVE  TypeOK
  OBVIOUS
<1>1. /\ entry \in 0 .. arms /\ arms \in 0 .. MaxArms
      /\ ride \in Accounts /\ price \in Prices
  BY GuardianAssumption DEF Init, None
<1>2. /\ sub \in [Gens -> {"none", "open", "dead", "closed"}]
      /\ fired \in [Gens -> BOOLEAN] /\ accepted \in [Gens -> Nat]
  BY DEF Init
<1>3. task \in [Tasks -> TaskState]
  BY DEF Init, TaskState
<1>4. /\ news \in BOOLEAN /\ phone \in BOOLEAN /\ flying \in BOOLEAN
      /\ wanted \in BOOLEAN /\ overlap \in BOOLEAN
  BY DEF Init
<1> QED BY <1>1, <1>2, <1>3, <1>4 DEF TypeOK

(* Type correctness of a step, a group of variables at a time: the map and *)
(* the subscriptions (arm, disarm).                                        *)
LEMMA StepMap ==
  ASSUME TypeOK, [Next]_vars
  PROVE  /\ entry' \in 0 .. arms' /\ arms' \in 0 .. MaxArms
         /\ sub' \in [Gens -> {"none", "open", "dead", "closed"}]
<1> USE GuardianAssumption
<1> USE DEF Gens, None
<1>a. /\ entry \in 0 .. arms /\ arms \in 0 .. MaxArms
      /\ sub \in [Gens -> {"none", "open", "dead", "closed"}]
  BY DEF TypeOK
<1>1. ASSUME NEW t \in Tasks, Arm(t)
      PROVE  /\ entry' \in 0 .. arms' /\ arms' \in 0 .. MaxArms
             /\ sub' \in [Gens -> {"none", "open", "dead", "closed"}]
  BY <1>1, <1>a DEF Arm
<1>2. CASE \E t \in Tasks : DisarmRequest(t) \/ CloseDone(t) \/ OnUpdate(t)
  BY <1>2, <1>a DEF DisarmRequest, CloseDone, OnUpdate
<1>3. CASE \E t \in Tasks : NoPrice(t) \/ Priced(t) \/ SubmitOk(t) \/ SubmitFails(t)
  BY <1>3, <1>a DEF NoPrice, Priced, SubmitOk, SubmitFails
<1>4. CASE Restart
  BY <1>4, <1>a DEF Restart
<1>5. CASE RideTouched \/ FlattenLands \/ PriceMoves \/ NewsLost \/ PhoneDies
           \/ UNCHANGED vars
  BY <1>5, <1>a DEF RideTouched, FlattenLands, PriceMoves, NewsLost, PhoneDies, vars, watcher
<1> QED BY <1>1, <1>2, <1>3, <1>4, <1>5 DEF Next

(* The running calls of onUpdate and disarm.                               *)
LEMMA StepTask ==
  ASSUME TypeOK, TasksWereArmed, [Next]_vars
  PROVE  task' \in [Tasks -> TaskState]
<1> USE GuardianAssumption
<1> USE DEF Gens, None, Goto, At, Gen, Free
<1>a. /\ entry \in 0 .. arms /\ arms \in 0 .. MaxArms
      /\ task \in [Tasks -> TaskState] /\ ride \in Accounts
  BY DEF TypeOK
<1>f. /\ Idle \in TaskState
      /\ \A g \in Gens : ClosingTask(g) \in TaskState /\ SubmitTask(g) \in TaskState
      /\ \A g \in Gens, a \in Accounts : PriceTask(g, a) \in TaskState
  BY DEF Idle, ClosingTask, SubmitTask, PriceTask, TaskState
<1>g. \A t \in Tasks : ~Free(t) => Gen(t) \in Gens
  BY <1>a DEF TaskState, Idle
<1>1. ASSUME NEW t \in Tasks, Arm(t) \/ DisarmRequest(t)
      PROVE  task' \in [Tasks -> TaskState]
  BY <1>1, <1>a, <1>f DEF Arm, DisarmRequest, StartClose
<1>2. ASSUME NEW t \in Tasks, OnUpdate(t)
      PROVE  task' \in [Tasks -> TaskState]
  BY <1>2, <1>a, <1>f DEF OnUpdate, StartClose
<1>3. ASSUME NEW t \in Tasks, CloseDone(t) \/ NoPrice(t) \/ SubmitOk(t) \/ SubmitFails(t)
      PROVE  task' \in [Tasks -> TaskState]
  BY <1>3, <1>a, <1>f DEF CloseDone, NoPrice, SubmitOk, SubmitFails
<1>4. ASSUME NEW t \in Tasks, Priced(t)
      PROVE  task' \in [Tasks -> TaskState]
  <2>1. Gen(t) \in Gens
    BY <1>4, <1>g DEF Priced
  <2> QED BY <1>4, <2>1, <1>a, <1>f DEF Priced
<1>5. CASE Restart
  BY <1>5, <1>f DEF Restart
<1>6. CASE RideTouched \/ FlattenLands \/ PriceMoves \/ NewsLost \/ PhoneDies
           \/ UNCHANGED vars
  BY <1>6, <1>a DEF RideTouched, FlattenLands, PriceMoves, NewsLost, PhoneDies, vars, watcher
<1> QED BY <1>1, <1>2, <1>3, <1>4, <1>5, <1>6 DEF Next

(* The mark `fired' and the count of accepted flattens.                    *)
LEMMA StepMarkTypes ==
  ASSUME TypeOK, TasksWereArmed, [Next]_vars
  PROVE  fired' \in [Gens -> BOOLEAN] /\ accepted' \in [Gens -> Nat]
<1>a. fired \in [Gens -> BOOLEAN] /\ accepted \in [Gens -> Nat]
  BY DEF TypeOK
<1>1. CASE \E t \in Tasks : Arm(t) \/ DisarmRequest(t) \/ CloseDone(t)
                            \/ OnUpdate(t) \/ NoPrice(t)
  BY <1>1, <1>a DEF Arm, DisarmRequest, CloseDone, OnUpdate, NoPrice, history
<1>2. ASSUME NEW t \in Tasks, Priced(t)
      PROVE  fired' \in [Gens -> BOOLEAN] /\ accepted' \in [Gens -> Nat]
  <2>1. fired' = fired \/ fired' = [fired EXCEPT ![Gen(t)] = TRUE]
    BY <1>2 DEF Priced
  <2> QED BY <2>1, <1>2, <1>a DEF Priced, history
<1>3. ASSUME NEW t \in Tasks, SubmitOk(t)
      PROVE  fired' \in [Gens -> BOOLEAN] /\ accepted' \in [Gens -> Nat]
  <2>1. \A g \in Gens : accepted[g] \in Nat /\ accepted[g] + 1 \in Nat
    BY <1>a
  <2>2. accepted' \in [Gens -> Nat]
    BY <1>3, <2>1, <1>a DEF SubmitOk
  <2>3. fired' = fired
    BY <1>3 DEF SubmitOk
  <2> QED BY <2>2, <2>3, <1>a
<1>4. ASSUME NEW t \in Tasks, SubmitFails(t)
      PROVE  fired' \in [Gens -> BOOLEAN] /\ accepted' \in [Gens -> Nat]
  BY <1>4, <1>a DEF SubmitFails, history
<1>5. CASE Restart
  BY <1>5, <1>a DEF Restart
<1>6. CASE RideTouched \/ FlattenLands \/ PriceMoves \/ NewsLost \/ PhoneDies
           \/ UNCHANGED vars
  BY <1>6, <1>a DEF RideTouched, FlattenLands, PriceMoves, NewsLost, PhoneDies, vars, watcher, history
<1> QED BY <1>1, <1>2, <1>3, <1>4, <1>5, <1>6 DEF Next

(* The account, the price, the notification and the histories.             *)
LEMMA StepWorld ==
  ASSUME TypeOK, [Next]_vars
  PROVE  /\ ride' \in Accounts /\ price' \in Prices
         /\ news' \in BOOLEAN /\ phone' \in BOOLEAN /\ flying' \in BOOLEAN
         /\ wanted' \in BOOLEAN /\ overlap' \in BOOLEAN
<1> DEFINE W == /\ ride \in Accounts /\ price \in Prices
                /\ news \in BOOLEAN /\ phone \in BOOLEAN /\ flying \in BOOLEAN
           H == wanted \in BOOLEAN /\ overlap \in BOOLEAN
<1>a. W /\ H
  BY DEF TypeOK
<1>1. ASSUME NEW t \in Tasks, Arm(t)
      PROVE  W' /\ H'
  <2>1. wanted' \in BOOLEAN
    BY <1>1 DEF Arm
  <2>2. overlap' \in BOOLEAN
    BY <1>1, Zenon DEF Arm
  <2>3. UNCHANGED world
    BY <1>1 DEF Arm
  <2> QED BY <2>1, <2>2, <2>3, <1>a DEF world
<1>2. ASSUME NEW t \in Tasks, DisarmRequest(t) \/ CloseDone(t) \/ NoPrice(t) \/ Priced(t)
                             \/ SubmitFails(t)
      PROVE  W' /\ H'
  <2>1. UNCHANGED world
    BY <1>2 DEF DisarmRequest, CloseDone, NoPrice, Priced, SubmitFails
  <2>2. UNCHANGED <<wanted, overlap>> \/ (wanted' = FALSE /\ overlap' = overlap)
    BY <1>2 DEF DisarmRequest, CloseDone, NoPrice, Priced, SubmitFails, history
  <2> QED BY <2>1, <2>2, <1>a DEF world
<1>3. ASSUME NEW t \in Tasks, OnUpdate(t)
      PROVE  W' /\ H'
  BY <1>3, <1>a DEF OnUpdate
<1>4. ASSUME NEW t \in Tasks, SubmitOk(t)
      PROVE  W' /\ H'
  BY <1>4, <1>a DEF SubmitOk
<1>5. CASE Restart \/ UNCHANGED vars
  BY <1>5, <1>a DEF Restart, vars, world, history
<1>6. CASE RideTouched \/ FlattenLands
  BY <1>6, <1>a DEF RideTouched, FlattenLands, history
<1>7. CASE PriceMoves \/ NewsLost \/ PhoneDies
  BY <1>7, <1>a DEF PriceMoves, NewsLost, PhoneDies, history
<1> QED BY <1>1, <1>2, <1>3, <1>4, <1>5, <1>6, <1>7 DEF Next

(* So every step keeps the types.                                          *)
LEMMA StepType ==
  ASSUME TypeOK, TasksWereArmed, [Next]_vars
  PROVE  TypeOK'
BY StepMap, StepTask, StepMarkTypes, StepWorld DEF TypeOK

-------------------------------------------------------------------------------
(* An empty map: nothing runs, nothing is marked.                          *)
LEMMA InitInductive == Init => IInv
<1> SUFFICES ASSUME Init
             PROVE  IInv
  OBVIOUS
<1>1. TypeOK
  BY InitType
<1>2. \A t \in Tasks : task[t] = Idle
  BY DEF Init
<1>3. \A t \in Tasks :
        Free(t) /\ ~At(t, "submit") /\ ~At(t, "close") /\ ~At(t, "price")
  BY <1>2 DEF Free, At, Idle
<1>4. /\ SubmitMarked /\ SubmitAlone /\ TasksWereArmed
      /\ WaitersHandled /\ NothingClosesIt
  BY <1>3 DEF SubmitMarked, SubmitAlone, TasksWereArmed, WaitersHandled,
     NothingClosesIt, Closing
<1>5. AcceptedMarked /\ MarkedWereArmed /\ FiredMeansHandled
  BY DEF Init, AcceptedMarked, MarkedWereArmed, FiredMeansHandled
<1>6. LoneArmStays
  BY DEF Init, LoneArmStays
<1> QED BY <1>1, <1>4, <1>5, <1>6 DEF IInv

Marks == SubmitMarked /\ SubmitAlone /\ AcceptedMarked /\ MarkedWereArmed

(* Fired, the running submit and the accepted ones stay in agreement.      *)
LEMMA StepMarks ==
  ASSUME IInv, [Next]_vars
  PROVE  Marks'
<1> USE DEF Gens, Goto, At, Gen, Free
<1>a. /\ entry \in 0 .. arms /\ arms \in 0 .. MaxArms /\ MaxArms \in Nat
      /\ task \in [Tasks -> TaskState]
      /\ DOMAIN fired = Gens /\ accepted \in [Gens -> Nat]
  BY GuardianAssumption DEF IInv, TypeOK
<1>b. /\ SubmitMarked /\ SubmitAlone /\ AcceptedMarked /\ MarkedWereArmed
      /\ TasksWereArmed
  BY DEF IInv
<1>c. \A t \in Tasks : ~Free(t) => Gen(t) \in Gens
  BY <1>a DEF TaskState, Idle
<1>d. fired = [g \in Gens |-> fired[g]]
  BY DEF IInv, TypeOK
<1> DEFINE Quiet ==
  /\ UNCHANGED <<fired, accepted>> /\ arms' \in {arms, arms + 1}
  /\ \A t \in Tasks : task'[t] = task[t] \/ task'[t].at # "submit"
<1>1. Quiet => Marks'
  BY <1>a, <1>b DEF Marks, SubmitMarked, SubmitAlone, AcceptedMarked, MarkedWereArmed
<1>2. ASSUME NEW t \in Tasks,
             Arm(t) \/ DisarmRequest(t) \/ CloseDone(t) \/ OnUpdate(t) \/ NoPrice(t)
      PROVE  Quiet
  BY <1>2, <1>a DEF Arm, DisarmRequest, CloseDone, OnUpdate, NoPrice, StartClose,
     ClosingTask, PriceTask, Idle, history
<1>3. ASSUME NEW t \in Tasks, Priced(t)
      PROVE  Marks'
  <2>1. CASE UNCHANGED fired /\ Goto(t, Idle)
    <3>1. Quiet
      BY <2>1, <1>3, <1>a DEF Priced, Idle, history
    <3> QED BY <3>1, <1>1
  <2>2. CASE /\ ~fired[Gen(t)]
             /\ fired' = [fired EXCEPT ![Gen(t)] = TRUE]
             /\ Goto(t, SubmitTask(Gen(t)))
    <3> DEFINE g == Gen(t)
    <3>1. g \in Gens /\ g <= arms /\ UNCHANGED <<arms, accepted>>
      BY <1>3, <1>b, <1>c DEF Priced, TasksWereArmed, history
    <3>2. /\ fired'[g] = TRUE
          /\ \A h \in Gens \ {g} : fired'[h] = fired[h]
      BY <2>2, <3>1, <1>d
    <3>3. /\ task'[t].at = "submit" /\ task'[t].gen = g
          /\ \A u \in Tasks \ {t} : task'[u] = task[u]
      BY <2>2, <1>a DEF SubmitTask
    <3>4. accepted[g] = 0
      BY <2>2, <3>1, <1>b DEF AcceptedMarked
    <3>5. \A u \in Tasks : At(u, "submit") => Gen(u) # g
      BY <2>2, <1>b DEF SubmitMarked
    <3>6. SubmitMarked'
      BY <3>1, <3>2, <3>3, <3>4, <1>b, <1>c DEF SubmitMarked
    <3>7. SubmitAlone'
      BY <3>3, <3>5, <1>b DEF SubmitAlone
    <3>8. AcceptedMarked'
      BY <3>1, <3>2, <1>b DEF AcceptedMarked
    <3>9. MarkedWereArmed'
      BY <3>1, <3>2, <1>b DEF MarkedWereArmed
    <3> QED BY <3>6, <3>7, <3>8, <3>9 DEF Marks
  <2> QED BY <1>3, <2>1, <2>2 DEF Priced
<1>4. ASSUME NEW t \in Tasks, SubmitOk(t)
      PROVE  Marks'
  <2> DEFINE g == Gen(t)
  <2>1. /\ g \in Gens /\ fired[g] /\ accepted[g] = 0
        /\ UNCHANGED <<arms, fired>>
    BY <1>4, <1>b, <1>c DEF SubmitOk, SubmitMarked
  <2>2. /\ accepted'[g] = 1
        /\ \A h \in Gens \ {g} : accepted'[h] = accepted[h]
    BY <1>4, <2>1, <1>a DEF SubmitOk
  <2>3. /\ task'[t].at = "idle"
        /\ \A u \in Tasks \ {t} : task'[u] = task[u]
    BY <1>4, <1>a DEF SubmitOk, Idle
  <2>4. \A u \in Tasks \ {t} : At(u, "submit") => Gen(u) # g
    BY <1>4, <1>b DEF SubmitOk, SubmitAlone
  <2>5. SubmitMarked'
    BY <2>1, <2>2, <2>3, <2>4, <1>b, <1>c DEF SubmitMarked
  <2>6. SubmitAlone'
    BY <2>3, <1>b DEF SubmitAlone
  <2>7. AcceptedMarked'
    BY <2>1, <2>2, <1>b DEF AcceptedMarked
  <2>8. MarkedWereArmed'
    BY <2>1, <1>b DEF MarkedWereArmed
  <2> QED BY <2>5, <2>6, <2>7, <2>8 DEF Marks
<1>5. ASSUME NEW t \in Tasks, SubmitFails(t)
      PROVE  Marks'
  <2> DEFINE g == Gen(t)
  <2>1. /\ g \in Gens /\ accepted[g] = 0 /\ UNCHANGED <<arms, accepted>>
    BY <1>5, <1>b, <1>c DEF SubmitFails, SubmitMarked, history
  <2>2. /\ fired'[g] = FALSE
        /\ \A h \in Gens \ {g} : fired'[h] = fired[h]
    BY <1>5, <2>1, <1>d DEF SubmitFails
  <2>3. /\ task'[t].at = "idle"
        /\ \A u \in Tasks \ {t} : task'[u] = task[u]
    BY <1>5, <1>a DEF SubmitFails, Idle
  <2>4. \A u \in Tasks \ {t} : At(u, "submit") => Gen(u) # g
    BY <1>5, <1>b DEF SubmitFails, SubmitAlone
  <2>5. SubmitMarked'
    BY <2>1, <2>2, <2>3, <2>4, <1>b, <1>c DEF SubmitMarked
  <2>6. SubmitAlone'
    BY <2>3, <1>b DEF SubmitAlone
  <2>7. AcceptedMarked'
    BY <2>1, <2>2, <1>b DEF AcceptedMarked
  <2>8. MarkedWereArmed'
    BY <2>1, <2>2, <1>b DEF MarkedWereArmed
  <2> QED BY <2>5, <2>6, <2>7, <2>8 DEF Marks
<1>6. CASE Restart
  BY <1>6, <1>1 DEF Restart, Idle
<1>7. CASE RideTouched \/ FlattenLands \/ PriceMoves \/ NewsLost \/ PhoneDies
           \/ UNCHANGED vars
  BY <1>7, <1>1 DEF RideTouched, FlattenLands, PriceMoves, NewsLost, PhoneDies,
     vars, watcher, history
<1> QED BY <1>1, <1>2, <1>3, <1>4, <1>5, <1>6, <1>7 DEF Next

(* A call that has begun belongs to a generation that was made.            *)
LEMMA StepTasksWereArmed ==
  ASSUME IInv, [Next]_vars
  PROVE  TasksWereArmed'
<1> USE DEF Gens, None, Goto, At, Gen, Free, Idle
<1>a. /\ entry \in 0 .. arms /\ arms \in 0 .. MaxArms /\ MaxArms \in Nat
      /\ task \in [Tasks -> TaskState] /\ TasksWereArmed
      /\ \A t \in Tasks : ~Free(t) => Gen(t) \in Gens
  BY GuardianAssumption DEF IInv, TypeOK, TaskState
<1>1. ASSUME NEW t \in Tasks, Arm(t) \/ DisarmRequest(t) \/ OnUpdate(t)
      PROVE  TasksWereArmed'
  BY <1>1, <1>a DEF Arm, DisarmRequest, OnUpdate, StartClose, ClosingTask, PriceTask,
     TasksWereArmed
<1>2. ASSUME NEW t \in Tasks, CloseDone(t) \/ NoPrice(t) \/ SubmitOk(t) \/ SubmitFails(t)
      PROVE  TasksWereArmed'
  BY <1>2, <1>a DEF CloseDone, NoPrice, SubmitOk, SubmitFails, TasksWereArmed
<1>3. ASSUME NEW t \in Tasks, Priced(t)
      PROVE  TasksWereArmed'
  BY <1>3, <1>a DEF Priced, SubmitTask, TasksWereArmed
<1>4. CASE Restart
  BY <1>4, <1>a DEF Restart, TasksWereArmed
<1>5. CASE RideTouched \/ FlattenLands \/ PriceMoves \/ NewsLost \/ PhoneDies
           \/ UNCHANGED vars
  BY <1>5, <1>a DEF RideTouched, FlattenLands, PriceMoves, NewsLost, PhoneDies,
     vars, watcher, TasksWereArmed
<1> QED BY <1>1, <1>2, <1>3, <1>4, <1>5 DEF Next

(* The mark of the armed generation is backed by a flatten.                *)
LEMMA StepHandled ==
  ASSUME IInv, [Next]_vars
  PROVE  FiredMeansHandled'
<1> USE DEF Gens, None, Goto, At, Gen, Free, Idle
<1>a. /\ entry \in 0 .. arms /\ arms \in 0 .. MaxArms /\ MaxArms \in Nat
      /\ task \in [Tasks -> TaskState] /\ accepted \in [Gens -> Nat]
      /\ \A t \in Tasks : ~Free(t) => Gen(t) \in Gens
  BY GuardianAssumption DEF IInv, TypeOK, TaskState
<1>b. /\ SubmitMarked /\ MarkedWereArmed /\ SubmitAlone
      /\ \A g \in Gens : fired[g] /\ entry = g =>
           accepted[g] = 1 \/ \E t \in Tasks : At(t, "submit") /\ Gen(t) = g
  BY DEF IInv, FiredMeansHandled, Submitting
<1>c. fired = [g \in Gens |-> fired[g]]
  BY DEF IInv, TypeOK
<1> DEFINE Handled ==
  \A g \in Gens : fired[g] /\ entry = g =>
    accepted[g] = 1 \/ \E t \in Tasks : At(t, "submit") /\ Gen(t) = g
<1>d. SUFFICES Handled'
  BY DEF FiredMeansHandled, Submitting
<1>1. ASSUME NEW t \in Tasks, Arm(t)
      PROVE  Handled'
  <2>1. ~fired[arms + 1]
    BY <1>1, <1>a, <1>b DEF Arm, MarkedWereArmed
  <2> QED BY <2>1, <1>1 DEF Arm
<1>2. ASSUME NEW t \in Tasks, DisarmRequest(t) \/ OnUpdate(t) \/ NoPrice(t)
      PROVE  Handled'
  <2>1. UNCHANGED <<entry, fired, accepted>>
    BY <1>2 DEF DisarmRequest, OnUpdate, NoPrice, history
  <2>2. \A u \in Tasks : At(u, "submit") => task'[u] = task[u]
    BY <1>2, <1>a DEF DisarmRequest, OnUpdate, NoPrice, StartClose
  <2> QED BY <2>1, <2>2, <1>b
<1>3. ASSUME NEW t \in Tasks, CloseDone(t)
      PROVE  Handled'
  BY <1>3 DEF CloseDone
<1>4. ASSUME NEW t \in Tasks, Priced(t)
      PROVE  Handled'
  <2>1. UNCHANGED <<entry, accepted>> /\ Gen(t) \in Gens
    BY <1>4, <1>a DEF Priced, history
  <2>2. \A u \in Tasks : At(u, "submit") => task'[u] = task[u]
    BY <1>4, <1>a DEF Priced
  <2>3. CASE UNCHANGED fired
    BY <2>1, <2>2, <2>3, <1>b
  <2>4. CASE /\ fired' = [fired EXCEPT ![Gen(t)] = TRUE]
             /\ Goto(t, SubmitTask(Gen(t)))
    <3>1. task'[t].at = "submit" /\ task'[t].gen = Gen(t)
      BY <2>4, <1>a DEF SubmitTask
    <3>2. \A g \in Gens \ {Gen(t)} : fired'[g] = fired[g]
      BY <2>4, <1>c
    <3> QED BY <3>1, <3>2, <2>1, <2>2, <1>b
  <2> QED BY <1>4, <2>3, <2>4 DEF Priced
<1>5. ASSUME NEW t \in Tasks, SubmitOk(t)
      PROVE  Handled'
  <2>1. /\ Gen(t) \in Gens /\ accepted[Gen(t)] = 0 /\ UNCHANGED <<entry, fired>>
    BY <1>5, <1>a, <1>b DEF SubmitOk, SubmitMarked
  <2>2. /\ accepted'[Gen(t)] = 1
        /\ \A g \in Gens \ {Gen(t)} : accepted'[g] = accepted[g]
    BY <1>5, <2>1, <1>a DEF SubmitOk
  <2>3. \A u \in Tasks \ {t} : task'[u] = task[u]
    BY <1>5, <1>a DEF SubmitOk
  <2> QED BY <2>1, <2>2, <2>3, <1>b
<1>6. ASSUME NEW t \in Tasks, SubmitFails(t)
      PROVE  Handled'
  <2>1. Gen(t) \in Gens /\ UNCHANGED <<entry, accepted>>
    BY <1>6, <1>a DEF SubmitFails, history
  <2>2. /\ fired'[Gen(t)] = FALSE
        /\ \A g \in Gens \ {Gen(t)} : fired'[g] = fired[g]
    BY <1>6, <2>1, <1>c DEF SubmitFails
  <2>3. \A u \in Tasks \ {t} : task'[u] = task[u]
    BY <1>6, <1>a DEF SubmitFails
  <2> QED BY <2>1, <2>2, <2>3, <1>b
<1>7. CASE Restart
  BY <1>7 DEF Restart
<1>8. CASE RideTouched \/ FlattenLands \/ PriceMoves \/ NewsLost \/ PhoneDies
           \/ UNCHANGED vars
  BY <1>8, <1>b DEF RideTouched, FlattenLands, PriceMoves, NewsLost, PhoneDies,
     vars, watcher, history
<1> QED BY <1>1, <1>2, <1>3, <1>4, <1>5, <1>6, <1>7, <1>8 DEF Next

(* So is the mark a waiting handler will find, whoever is in the map.      *)
LEMMA StepWaiters ==
  ASSUME IInv, [Next]_vars
  PROVE  WaitersHandled'
<1> USE DEF Gens, None, Goto, At, Gen, Free, Idle
<1>a. /\ entry \in 0 .. arms /\ arms \in 0 .. MaxArms /\ MaxArms \in Nat
      /\ task \in [Tasks -> TaskState] /\ accepted \in [Gens -> Nat]
      /\ \A t \in Tasks : ~Free(t) => Gen(t) \in Gens
  BY GuardianAssumption DEF IInv, TypeOK, TaskState
<1> DEFINE Backed(g) == accepted[g] = 1 \/ \E t \in Tasks : At(t, "submit") /\ Gen(t) = g
           Waiters == \A t \in Tasks : At(t, "price") /\ fired[Gen(t)] => Backed(Gen(t))
<1>b. /\ SubmitMarked /\ SubmitAlone /\ Waiters
      /\ \A g \in Gens : fired[g] /\ entry = g => Backed(g)
  BY DEF IInv, WaitersHandled, FiredMeansHandled, Submitting
<1>c. fired = [g \in Gens |-> fired[g]]
  BY DEF IInv, TypeOK
<1>d. SUFFICES Waiters'
  BY DEF WaitersHandled, Submitting
<1>1. ASSUME NEW t \in Tasks,
             Arm(t) \/ DisarmRequest(t) \/ CloseDone(t) \/ OnUpdate(t) \/ NoPrice(t)
      PROVE  Waiters'
  <2>1. UNCHANGED <<fired, accepted>>
    BY <1>1 DEF Arm, DisarmRequest, CloseDone, OnUpdate, NoPrice, history
  <2>2. \A u \in Tasks : At(u, "submit") => task'[u] = task[u]
    BY <1>1, <1>a DEF Arm, DisarmRequest, CloseDone, OnUpdate, NoPrice, StartClose
  <2>3. \A u \in Tasks : At(u, "price")' =>
          task'[u] = task[u] \/ (entry # None /\ task'[u].gen = entry)
    BY <1>1, <1>a DEF Arm, DisarmRequest, CloseDone, OnUpdate, NoPrice, StartClose,
       ClosingTask, PriceTask
  <2> QED BY <2>1, <2>2, <2>3, <1>a, <1>b
<1>2. ASSUME NEW t \in Tasks, Priced(t)
      PROVE  Waiters'
  <2>1. UNCHANGED accepted /\ Gen(t) \in Gens
    BY <1>2, <1>a DEF Priced, history
  <2>2. \A u \in Tasks : At(u, "submit") => task'[u] = task[u]
    BY <1>2, <1>a DEF Priced
  <2>3. \A u \in Tasks : At(u, "price")' => task'[u] = task[u]
    BY <1>2, <1>a DEF Priced, SubmitTask
  <2>4. CASE UNCHANGED fired
    BY <2>1, <2>2, <2>3, <2>4, <1>b
  <2>5. CASE /\ fired' = [fired EXCEPT ![Gen(t)] = TRUE]
             /\ Goto(t, SubmitTask(Gen(t)))
    <3>1. task'[t].at = "submit" /\ task'[t].gen = Gen(t)
      BY <2>5, <1>a DEF SubmitTask
    <3>2. \A g \in Gens \ {Gen(t)} : fired'[g] = fired[g]
      BY <2>5, <1>c
    <3> QED BY <3>1, <3>2, <2>1, <2>2, <2>3, <1>a, <1>b
  <2> QED BY <1>2, <2>4, <2>5 DEF Priced
<1>3. ASSUME NEW t \in Tasks, SubmitOk(t) \/ SubmitFails(t)
      PROVE  Waiters'
  <2> DEFINE g == Gen(t)
  <2>1. g \in Gens /\ accepted[g] = 0
    BY <1>3, <1>a, <1>b DEF SubmitOk, SubmitFails, SubmitMarked
  <2>2. \/ accepted'[g] = 1
        \/ UNCHANGED accepted /\ fired'[g] = FALSE
    BY <1>3, <2>1, <1>a, <1>c DEF SubmitOk, SubmitFails, history
  <2>3. \A h \in Gens \ {g} : accepted'[h] = accepted[h] /\ fired'[h] = fired[h]
    BY <1>3, <2>1, <1>a, <1>c DEF SubmitOk, SubmitFails, history
  <2>4. \A u \in Tasks \ {t} : task'[u] = task[u]
    BY <1>3, <1>a DEF SubmitOk, SubmitFails
  <2>5. ~At(t, "price")'
    BY <1>3, <1>a DEF SubmitOk, SubmitFails
  <2> SUFFICES ASSUME NEW u \in Tasks, At(u, "price")', fired'[Gen(u)']
               PROVE  Backed(Gen(u))'
    OBVIOUS
  <2>6. u # t /\ task'[u] = task[u] /\ At(u, "price") /\ Gen(u) \in Gens
    BY <2>4, <2>5, <1>a
  <2>7. CASE Gen(u) = g
    BY <2>7, <2>2, <2>6
  <2>8. CASE Gen(u) # g
    <3>1. Backed(Gen(u))
      BY <2>3, <2>6, <2>8, <1>b
    <3> QED BY <3>1, <2>3, <2>4, <2>6, <2>8
  <2> QED BY <2>7, <2>8
<1>4. CASE Restart
  BY <1>4 DEF Restart
<1>5. CASE RideTouched \/ FlattenLands \/ PriceMoves \/ NewsLost \/ PhoneDies
           \/ UNCHANGED vars
  BY <1>5, <1>b DEF RideTouched, FlattenLands, PriceMoves, NewsLost, PhoneDies,
     vars, watcher, history
<1> QED BY <1>1, <1>2, <1>3, <1>4, <1>5 DEF Next

(* An arming that met no other one: no close of an earlier entry runs.     *)
LEMMA StepLone ==
  ASSUME IInv, [Next]_vars
  PROVE  NothingClosesIt' /\ LoneArmStays'
<1> USE DEF Gens, None, Goto, At, Free, Idle
<1>a. /\ entry \in 0 .. arms /\ arms \in 0 .. MaxArms /\ MaxArms \in Nat
      /\ task \in [Tasks -> TaskState]
      /\ sub \in [Gens -> {"none", "open", "dead", "closed"}]
  BY GuardianAssumption DEF IInv, TypeOK
<1>b. /\ wanted /\ ~overlap => \A t \in Tasks : ~At(t, "close")
      /\ wanted /\ ~overlap => entry = arms /\ sub[arms] \in {"open", "dead"}
  BY DEF IInv, NothingClosesIt, LoneArmStays, Closing
<1> DEFINE Lone ==
  wanted /\ ~overlap =>
    /\ \A t \in Tasks : ~At(t, "close")
    /\ entry = arms /\ sub[arms] \in {"open", "dead"}
<1>d. SUFFICES Lone'
  BY DEF NothingClosesIt, LoneArmStays, Closing
<1>1. ASSUME NEW t \in Tasks, Arm(t)
      PROVE  Lone'
  <2>1. arms + 1 \in Gens /\ sub'[arms + 1] \in {"open", "dead"}
    BY <1>1, <1>a DEF Arm
  <2>2. CASE entry = None /\ ~Closing
    BY <2>1, <2>2, <1>1 DEF Arm, Closing
  <2>3. CASE ~(entry = None /\ ~Closing)
    <3>1. overlap'
      BY <2>3, <1>1 DEF Arm
    <3> QED BY <3>1
  <2> QED BY <2>2, <2>3
<1>2. ASSUME NEW t \in Tasks, DisarmRequest(t)
      PROVE  Lone'
  BY <1>2 DEF DisarmRequest
<1>3. ASSUME NEW t \in Tasks, CloseDone(t)
      PROVE  Lone'
  <2>1. ~(wanted /\ ~overlap) /\ UNCHANGED <<wanted, overlap>>
    BY <1>3, <1>b DEF CloseDone, history
  <2> QED BY <2>1
<1>4. ASSUME NEW t \in Tasks, OnUpdate(t)
      PROVE  Lone'
  <2>1. CASE wanted' = FALSE
    BY <2>1
  <2>2. CASE Goto(t, PriceTask(entry, ride)) /\ UNCHANGED <<sub, wanted>>
    BY <2>2, <1>4, <1>a, <1>b DEF OnUpdate, PriceTask
  <2> QED BY <1>4, <2>1, <2>2 DEF OnUpdate
<1>5. ASSUME NEW t \in Tasks, NoPrice(t) \/ Priced(t) \/ SubmitOk(t) \/ SubmitFails(t)
      PROVE  Lone'
  <2>1. UNCHANGED <<entry, arms, sub, wanted, overlap>>
    BY <1>5 DEF NoPrice, Priced, SubmitOk, SubmitFails, history
  <2>2. \A u \in Tasks : task'[u].at = "close" => At(u, "close")
    BY <1>5, <1>a DEF NoPrice, Priced, SubmitOk, SubmitFails, SubmitTask
  <2> QED BY <2>1, <2>2, <1>b
<1>6. CASE Restart
  BY <1>6 DEF Restart
<1>7. CASE RideTouched \/ FlattenLands \/ PriceMoves \/ NewsLost \/ PhoneDies
           \/ UNCHANGED vars
  BY <1>7, <1>b DEF RideTouched, FlattenLands, PriceMoves, NewsLost, PhoneDies,
     vars, watcher, history
<1> QED BY <1>1, <1>2, <1>3, <1>4, <1>5, <1>6, <1>7 DEF Next

-------------------------------------------------------------------------------
(* The invariant of the watcher holds in every reachable state, however    *)
(* arms, disarms, updates, prices, submits and restarts interleave.        *)
THEOREM GuardianInductive == Spec => []IInv
<1>1. Init => IInv
  BY InitInductive
<1>2. IInv /\ [Next]_vars => IInv'
  BY StepType, StepMarks, StepTasksWereArmed, StepHandled, StepWaiters, StepLone DEF IInv, Marks
<1> QED BY <1>1, <1>2, PTL DEF Spec

(* Every variable of the watcher keeps its type.                           *)
THEOREM TypeCorrect == Spec => []TypeOK
<1>1. IInv => TypeOK
  BY DEF IInv
<1> QED BY <1>1, GuardianInductive, PTL

(* One arming hands the flatten to the network at most once, and no two of *)
(* its submits run at a time (the mark before the await of onUpdate).      *)
THEOREM FiresOnce == Spec => []FireOncePerArming
<1>1. IInv => FireOncePerArming
  <2> SUFFICES ASSUME IInv, NEW g \in Gens
               PROVE  /\ accepted[g] <= 1
                      /\ Submitting(g) # {} => accepted[g] = 0
                      /\ \A t, u \in Submitting(g) : t = u
    BY DEF FireOncePerArming
  <2>1. accepted[g] <= 1
    BY DEF IInv, AcceptedMarked
  <2>2. \A t \in Submitting(g) : accepted[g] = 0
    BY DEF IInv, SubmitMarked, Submitting
  <2>3. \A t, u \in Submitting(g) : t = u
    BY DEF IInv, SubmitAlone, Submitting
  <2> QED BY <2>1, <2>2, <2>3
<1> QED BY <1>1, GuardianInductive, PTL

(* A failed submit never leaves the armed ride marked as fired (the catch  *)
(* of onUpdate).                                                           *)
THEOREM NoBreachForgotten == Spec => []FiredMeansHandled
<1>1. IInv => FiredMeansHandled
  BY DEF IInv
<1> QED BY <1>1, GuardianInductive, PTL

(* An arming that met no earlier one stays watched until it is let go of,  *)
(* its ride is over or the process dies (arm, disarm, onUpdate).           *)
THEOREM LoneArmIsKept == Spec => []LoneArmStays
<1>1. IInv => LoneArmStays
  BY DEF IInv
<1> QED BY <1>1, GuardianInductive, PTL
-------------------------------------------------------------------------------
(* The states of a fuse tell apart what the invariant leaves possible.     *)
LEMMA FuseFacts ==
  ASSUME IInv, NEW g \in Gens
  PROVE  /\ g > arms => /\ Submitting(g) = {} /\ ~Held(g)
                        /\ accepted[g] = 0 /\ ~fired[g]
         /\ Submitting(g) # {} => accepted[g] = 0 /\ fired[g]
         /\ accepted[g] \in {0, 1} /\ (accepted[g] = 1 => fired[g])
         /\ Held(g) /\ fired[g] => accepted[g] = 1 \/ Submitting(g) # {}
<1>a. entry \in 0 .. arms /\ arms \in Nat
  BY GuardianAssumption DEF IInv, TypeOK
<1>b. accepted[g] \in {0, 1} /\ (accepted[g] = 1 => fired[g])
  BY DEF IInv, AcceptedMarked
<1>c. \A t \in Tasks : At(t, "submit") \/ At(t, "price") => Gen(t) <= arms
  BY DEF IInv, TasksWereArmed, Free, At
<1>1. g > arms => Submitting(g) = {} /\ ~Held(g)
  BY <1>a, <1>c DEF Submitting, Held, Gens
<1>2. g > arms => accepted[g] = 0 /\ ~fired[g]
  BY <1>a, <1>b DEF IInv, MarkedWereArmed, Gens
<1>3. Submitting(g) # {} => accepted[g] = 0 /\ fired[g]
  BY DEF IInv, SubmitMarked, Submitting
<1>4. Held(g) /\ fired[g] => accepted[g] = 1 \/ Submitting(g) # {}
  BY DEF IInv, FiredMeansHandled, WaitersHandled, Held
<1> QED BY <1>1, <1>2, <1>3, <1>4, <1>b

(* What a step may do to one fuse.                                         *)
Burns(g) ==
  \/ FuseState(g)' = FuseState(g)
  \/ FuseState(g) = "unmade" /\ FuseState(g)' = "set"
  \/ FuseState(g) = "set" /\ FuseState(g)' \in {"firing", "gone"}
  \/ FuseState(g) = "firing" /\ FuseState(g)' \in {"blown", "set", "gone"}

(* Marks, submits and answers left alone: a fuse that was made can only be *)
(* let go.                                                                 *)
LEMMA QuietBurns ==
  ASSUME IInv, IInv', NEW g \in Gens,
         accepted'[g] = accepted[g], fired'[g] = fired[g],
         Submitting(g)' # {} <=> Submitting(g) # {},
         g <= arms => g <= arms' /\ (Held(g)' => Held(g)),
         g > arms => g > arms' \/ Held(g)'
  PROVE  Burns(g)
<1>a. arms \in Nat /\ arms' \in Nat /\ g \in Nat
  BY GuardianAssumption DEF IInv, TypeOK, Gens
<1>1. CASE g > arms
  BY <1>1, <1>a, FuseFacts DEF Burns, FuseState
<1>2. CASE g <= arms
  <2>1. ~(Held(g) /\ fired[g] /\ accepted[g] = 0 /\ Submitting(g) = {})
    BY FuseFacts
  <2> QED BY <1>2, <2>1, <1>a, FuseFacts DEF Burns, FuseState
<1> QED BY <1>1, <1>2, <1>a

(* The submit of a fuse that is firing has answered, or died with the      *)
(* process.                                                                *)
LEMMA AnswerBurns ==
  ASSUME IInv, IInv', NEW g \in Gens,
         Submitting(g) # {}, Submitting(g)' = {}, g <= arms',
         accepted'[g] = 0 /\ fired'[g] => ~Held(g)'
  PROVE  Burns(g)
<1>a. arms \in Nat /\ arms' \in Nat /\ g \in Nat /\ accepted'[g] \in {0, 1}
  BY GuardianAssumption DEF IInv, TypeOK, Gens, AcceptedMarked
<1>1. g <= arms
  BY <1>a, FuseFacts
<1>2. FuseState(g) = "firing"
  BY <1>a, <1>1 DEF FuseState
<1>3. FuseState(g)' \in {"blown", "set", "gone"}
  BY <1>a DEF FuseState
<1> QED BY <1>2, <1>3 DEF Burns

(* Every step of the watcher burns each fuse as promised.                  *)
LEMMA StepBurns ==
  ASSUME IInv, IInv', [Next]_vars, NEW g \in Gens
  PROVE  Burns(g)
<1> USE DEF Gens, None, Goto, At, Gen, Idle
<1>a. /\ entry \in 0 .. arms /\ arms \in 0 .. MaxArms /\ MaxArms \in Nat
      /\ task \in [Tasks -> TaskState] /\ accepted \in [Gens -> Nat]
      /\ \A t \in Tasks : ~Free(t) => Gen(t) \in Gens
  BY GuardianAssumption DEF IInv, TypeOK, TaskState, Free
<1>b. SubmitMarked /\ SubmitAlone /\ TasksWereArmed
  BY DEF IInv
<1>c. fired = [h \in Gens |-> fired[h]]
  BY DEF IInv, TypeOK
<1>1. ASSUME NEW t \in Tasks, Arm(t)
      PROVE  Burns(g)
  <2>1. /\ UNCHANGED <<accepted, fired>>
        /\ arms' = arms + 1 /\ entry' = arms + 1
    BY <1>1 DEF Arm
  <2>2. /\ \A u \in Tasks : At(u, "submit")' <=> At(u, "submit")
        /\ \A u \in Tasks : At(u, "submit") => task'[u] = task[u]
        /\ \A u \in Tasks : At(u, "price")' => task'[u] = task[u]
    BY <1>1, <1>a DEF Arm, StartClose, ClosingTask, Free
  <2>3. Submitting(g)' # {} <=> Submitting(g) # {}
    BY <2>2 DEF Submitting
  <2>4. g <= arms => (Held(g)' => Held(g))
    BY <2>1, <2>2, <1>a DEF Held
  <2>5. g > arms => g > arms' \/ Held(g)'
    BY <2>1, <1>a DEF Held
  <2> QED BY <2>1, <2>3, <2>4, <2>5, <1>a, QuietBurns
<1>2. ASSUME NEW t \in Tasks,
             DisarmRequest(t) \/ CloseDone(t) \/ OnUpdate(t) \/ NoPrice(t)
      PROVE  Burns(g)
  <2>1. UNCHANGED <<accepted, fired, arms>> /\ entry' \in {entry, None}
    BY <1>2 DEF DisarmRequest, CloseDone, OnUpdate, NoPrice, history
  <2>2. /\ \A u \in Tasks : At(u, "submit")' <=> At(u, "submit")
        /\ \A u \in Tasks : At(u, "submit") => task'[u] = task[u]
    BY <1>2, <1>a DEF DisarmRequest, CloseDone, OnUpdate, NoPrice, StartClose,
       ClosingTask, PriceTask, Free
  <2>3. \A u \in Tasks : At(u, "price")' => task'[u] = task[u] \/ task'[u].gen = entry
    BY <1>2, <1>a DEF DisarmRequest, CloseDone, OnUpdate, NoPrice, StartClose,
       ClosingTask, PriceTask
  <2>4. Submitting(g)' # {} <=> Submitting(g) # {}
    BY <2>2 DEF Submitting
  <2>5. Held(g)' => Held(g)
    BY <2>1, <2>3 DEF Held
  <2> QED BY <2>1, <2>4, <2>5, <1>a, QuietBurns
<1>3. ASSUME NEW t \in Tasks, Priced(t)
      PROVE  Burns(g)
  <2>1. UNCHANGED <<accepted, entry, arms>>
    BY <1>3 DEF Priced, history
  <2>2. /\ \A u \in Tasks \ {t} : task'[u] = task[u]
        /\ task[t].at = "price" /\ Gen(t) \in Gens
    BY <1>3, <1>a DEF Priced, Free
  <2>3. CASE UNCHANGED fired /\ Goto(t, Idle)
    <3>1. task'[t].at = "idle"
      BY <2>3, <1>a
    <3>2. Submitting(g)' # {} <=> Submitting(g) # {}
      BY <3>1, <2>2 DEF Submitting
    <3>3. Held(g)' => Held(g)
      BY <3>1, <2>1, <2>2 DEF Held
    <3> QED BY <2>1, <2>3, <3>2, <3>3, <1>a, QuietBurns
  <2>4. CASE /\ ~fired[Gen(t)]
             /\ fired' = [fired EXCEPT ![Gen(t)] = TRUE]
             /\ Goto(t, SubmitTask(Gen(t)))
    <3>1. task'[t].at = "submit" /\ task'[t].gen = Gen(t)
      BY <2>4, <1>a DEF SubmitTask
    <3>2. CASE g = Gen(t)
      <4>1. Held(g) /\ g <= arms
        BY <3>2, <2>2, <1>b DEF Held, TasksWereArmed, Free
      <4>2. Submitting(g) = {} /\ accepted[g] = 0
        BY <3>2, <2>4, FuseFacts
      <4>3. FuseState(g) = "set"
        BY <4>1, <4>2, <3>2, <2>4, <1>a DEF FuseState
      <4>4. Submitting(g)' # {}
        BY <3>1, <3>2 DEF Submitting
      <4>5. FuseState(g)' = "firing"
        BY <4>1, <4>4, <2>1, <1>a DEF FuseState
      <4> QED BY <4>3, <4>5 DEF Burns
    <3>3. CASE g # Gen(t)
      <4>1. fired'[g] = fired[g]
        BY <3>3, <2>4, <1>c
      <4>2. Submitting(g)' # {} <=> Submitting(g) # {}
        BY <3>1, <3>3, <2>2 DEF Submitting
      <4>3. Held(g)' => Held(g)
        BY <3>1, <3>3, <2>1, <2>2 DEF Held
      <4> QED BY <2>1, <4>1, <4>2, <4>3, <1>a, QuietBurns
    <3> QED BY <3>2, <3>3
  <2> QED BY <1>3, <2>3, <2>4 DEF Priced
<1>4. ASSUME NEW t \in Tasks, SubmitOk(t) \/ SubmitFails(t)
      PROVE  Burns(g)
  <2>1. /\ UNCHANGED <<entry, arms>> /\ task[t].at = "submit"
        /\ Gen(t) \in Gens /\ accepted[Gen(t)] = 0
    BY <1>4, <1>a, <1>b DEF SubmitOk, SubmitFails, SubmitMarked, Free
  <2>2. task'[t].at = "idle" /\ \A u \in Tasks \ {t} : task'[u] = task[u]
    BY <1>4, <1>a DEF SubmitOk, SubmitFails
  <2>3. CASE g = Gen(t)
    <3>1. accepted'[g] = 1 \/ ~fired'[g]
      BY <1>4, <2>1, <2>3, <1>a, <1>c DEF SubmitOk, SubmitFails
    <3>2. Submitting(g) # {} /\ Submitting(g)' = {}
      BY <2>1, <2>2, <2>3, <1>b DEF Submitting, SubmitAlone
    <3>3. g <= arms'
      BY <2>1, <2>3, <1>b DEF TasksWereArmed, Free
    <3> QED BY <3>1, <3>2, <3>3, AnswerBurns
  <2>4. CASE g # Gen(t)
    <3>1. accepted'[g] = accepted[g] /\ fired'[g] = fired[g]
      BY <1>4, <2>1, <2>4, <1>a, <1>c DEF SubmitOk, SubmitFails, history
    <3>2. Submitting(g)' # {} <=> Submitting(g) # {}
      BY <2>1, <2>2, <2>4 DEF Submitting
    <3>3. Held(g)' => Held(g)
      BY <2>1, <2>2 DEF Held
    <3> QED BY <2>1, <3>1, <3>2, <3>3, <1>a, QuietBurns
  <2> QED BY <2>3, <2>4
<1>5. CASE Restart
  <2>1. /\ UNCHANGED <<accepted, fired, arms>> /\ entry' = None
        /\ \A u \in Tasks : task'[u].at = "idle"
    BY <1>5 DEF Restart, Idle
  <2>2. Submitting(g)' = {} /\ ~Held(g)'
    BY <2>1, <1>a DEF Submitting, Held
  <2>3. CASE Submitting(g) = {}
    BY <2>1, <2>2, <2>3, <1>a, QuietBurns
  <2>4. CASE Submitting(g) # {}
    <3>1. g <= arms
      BY <2>4, <1>a, FuseFacts
    <3> QED BY <2>1, <2>2, <2>4, <3>1, AnswerBurns
  <2> QED BY <2>3, <2>4
<1>6. CASE RideTouched \/ FlattenLands \/ PriceMoves \/ NewsLost \/ PhoneDies
           \/ UNCHANGED vars
  <2>1. UNCHANGED <<entry, arms, fired, task, accepted>>
    BY <1>6 DEF RideTouched, FlattenLands, PriceMoves, NewsLost, PhoneDies,
       vars, watcher, history
  <2>2. Submitting(g)' = Submitting(g) /\ (Held(g)' <=> Held(g))
    BY <2>1 DEF Submitting, Held
  <2> QED BY <2>1, <2>2, <1>a, QuietBurns
<1> QED BY <1>1, <1>2, <1>3, <1>4, <1>5, <1>6 DEF Next

(* Every arming of the watcher is a fuse, however its handlers interleave  *)
(* with arms, disarms, failed submits and restarts (watcher.ts).           *)
THEOREM WatcherImplementsFuse == Spec => ImplementsFuse
<1>1. Init => TheFuse!Init
  <2> SUFFICES ASSUME Init, NEW g \in Gens
               PROVE  FuseState(g) = "unmade"
    BY DEF TheFuse!Init
  <2>1. arms = 0 /\ g > 0
    BY DEF Init, Gens
  <2> QED BY <2>1 DEF FuseState
<1>2. IInv /\ IInv' /\ [Next]_vars => TheFuse!Next
  <2> SUFFICES ASSUME IInv, IInv', [Next]_vars
               PROVE  TheFuse!Next
    OBVIOUS
  <2>1. \A g \in Gens : Burns(g)
    BY StepBurns
  <2> QED BY <2>1 DEF Burns, TheFuse!Next, TheFuse!Moves, TheFuse!Arm,
     TheFuse!Fire, TheFuse!Accepted, TheFuse!Failed, TheFuse!LetGo
<1> QED BY <1>1, <1>2, GuardianInductive, PTL DEF Spec, ImplementsFuse, TheFuse!Spec
===============================================================================
