------------------------- MODULE ReconcileLoop_proofs -------------------------
(***************************************************************************)
(* No change and no press of Refresh is lost between a handler and the     *)
(* loop, and the loop's ticker runs at the interval that was saved last,   *)
(* for any number of goroutines, any intervals and any number of changes   *)
(* and restarts.                                                           *)
(***************************************************************************)
EXTENDS ReconcileLoop, TLAPS

\* A duration is an integer, whether or not it overflowed.
LEMMA DurationType ==
  ASSUME NEW s \in Nat
  PROVE  Duration(s) \in Int
<1>1. s * Second \in Nat
  BY LoopAssumption
<1>2. (s * Second) % Wrap \in Int
  BY <1>1, LoopAssumption
<1>. QED  BY <1>2, LoopAssumption DEF Duration

\* The configurations the store can hold.
Config == [changes : 0..MaxChanges, interval : {s \in Intervals : s >= MinInterval}]

\* The initial state is well typed.
LEMMA LoopTypeInit == Init => TypeOK
<1>1. SUFFICES ASSUME Init PROVE TypeOK
  OBVIOUS
<1>2. 0 \in 0..MaxChanges /\ 0 \in 0..MaxRestarts
  BY LoopAssumption
<1>3. config \in Config /\ snap \in Config
  BY <1>1, <1>2 DEF Init, Config
<1>4. period \in Int /\ elapsed \in Nat /\ rest \in Nat /\ restarts \in 0..MaxRestarts
  BY <1>1, <1>2 DEF Init
<1>5. handler \in [Worker -> {"idle", "send"}]
  BY <1>1 DEF Init
<1>. QED  BY <1>1, <1>3, <1>4, <1>5 DEF Init, TypeOK, Config

\* A change of the configuration leaves it one the store can hold.
LEMMA ChangedType ==
  ASSUME TypeOK, NEW s \in Intervals, s >= MinInterval, Changed(s)
  PROVE  config' \in Config
<1>1. config.changes \in 0..MaxChanges
  BY DEF TypeOK
<1>2. config.changes + 1 \in 0..MaxChanges
  BY <1>1, LoopAssumption DEF Changed
<1>. QED  BY <1>2 DEF Changed, Config

\* A handler changes the configuration or the flag within their types.
LEMMA LoopTypeServe ==
  ASSUME TypeOK, NEW w \in Worker, Serve(w)
  PROVE  TypeOK'
<1>1. CASE Edit(w)
  <2>1. config.interval \in Intervals /\ config.interval >= MinInterval
    BY DEF TypeOK
  <2>2. config' \in Config
    BY <1>1, <2>1, ChangedType DEF Edit
  <2>. QED  BY <1>1, <2>2 DEF TypeOK, Edit, loopVars, Config
<1>2. CASE Refresh(w)
  BY <1>2 DEF TypeOK, Refresh, loopVars
<1>3. CASE Trigger(w)
  BY <1>3 DEF TypeOK, Trigger, loopVars
<1>4. ASSUME NEW seconds \in Intervals, SetInterval(w, seconds) PROVE TypeOK'
  <2>1. config' \in Config
    BY <1>4, ChangedType DEF SetInterval
  <2>. QED  BY <1>4, <2>1 DEF TypeOK, SetInterval, loopVars, Config
<1>. QED  BY <1>1, <1>2, <1>3, <1>4 DEF Serve

\* A step of the loop keeps the types.
LEMMA LoopTypeStep ==
  ASSUME TypeOK, LoopStep
  PROVE  TypeOK'
<1>1. CASE ResetTicker
  <2>1. config.interval \in Nat
    BY LoopAssumption DEF TypeOK
  <2>2. period' \in Int
    BY <1>1, <2>1, DurationType DEF ResetTicker
  <2>. QED  BY <1>1, <2>2 DEF TypeOK, ResetTicker
<1>2. CASE ApiWaitEnds \/ WakeByTicker \/ WakeByTrigger
  BY <1>2 DEF ApiWaitEnds, WakeByTicker, WakeByTrigger, TypeOK
<1>3. CASE Snapshot
  BY <1>3 DEF Snapshot, TypeOK
<1>4. CASE SwapForce
  BY <1>4 DEF SwapForce, TypeOK
<1>5. CASE Publish
  <2>1. snap.changes \in 0..MaxChanges
    BY DEF TypeOK
  <2>. QED  BY <1>5, <2>1 DEF Publish, TypeOK
<1>. QED  BY <1>1, <1>2, <1>3, <1>4, <1>5 DEF LoopStep

\* Time, Zoraxy and a restart keep the types.
LEMMA LoopTypeEnvironment ==
  ASSUME TypeOK, SecondPasses \/ ApiUp \/ Restart
  PROVE  TypeOK'
<1>1. CASE SecondPasses
  <2>1. elapsed' \in Nat /\ rest' \in Nat
    BY <1>1 DEF SecondPasses, TypeOK
  <2>. QED  BY <1>1, <2>1 DEF SecondPasses, TypeOK
<1>2. CASE ApiUp
  BY <1>2 DEF ApiUp, TypeOK, loopVars
<1>3. CASE Restart
  <2>1. restarts' \in 0..MaxRestarts
    BY <1>3, LoopAssumption DEF Restart, TypeOK
  <2>2. handler' \in [Worker -> {"idle", "send"}]
    BY <1>3 DEF Restart
  <2>3. config' \in Config /\ snap' \in Config
    BY <1>3 DEF Restart, TypeOK, Config
  <2>4. period' \in Int /\ elapsed' \in Nat /\ rest' \in Nat
    BY <1>3 DEF Restart
  <2>5. api' \in BOOLEAN /\ force' \in BOOLEAN /\ trigger' \in BOOLEAN /\ forcing' \in BOOLEAN
    BY <1>3 DEF Restart
  <2>6. loop' = "starting" /\ published' = NothingPublished
    BY <1>3 DEF Restart
  <2>. QED  BY <2>1, <2>2, <2>3, <2>4, <2>5, <2>6 DEF TypeOK, Config
<1>. QED  BY <1>1, <1>2, <1>3

\* Every step keeps the types.
LEMMA LoopTypeNext == TypeOK /\ [Next]_vars => TypeOK'
<1>1. SUFFICES ASSUME TypeOK, [Next]_vars PROVE TypeOK'
  OBVIOUS
<1>2. CASE UNCHANGED vars
  BY <1>1, <1>2 DEF TypeOK, vars
<1>. QED
  BY <1>1, <1>2, LoopTypeServe, LoopTypeStep, LoopTypeEnvironment DEF Next

\* Every variable of the loop and of the handlers keeps its type; the interval
\* that is saved is never below the floor.
THEOREM LoopTypeCorrect == Spec => []TypeOK
  BY LoopTypeInit, LoopTypeNext, PTL DEF Spec

\* A request leaves a wake-up due.
LEMMA ServedIsDue ==
  ASSUME TypeOK, NEW w \in Worker, Serve(w)
  PROVE  WakeDue'
<1>1. CASE Edit(w) \/ Refresh(w) \/ \E seconds \in Intervals : SetInterval(w, seconds)
  BY <1>1 DEF TypeOK, Edit, Refresh, SetInterval, WakeDue
<1>2. CASE Trigger(w)
  BY <1>2 DEF Trigger, WakeDue
<1>. QED  BY <1>1, <1>2 DEF Serve

\* A step of the loop keeps a change or a press within reach of a cycle.
LEMMA NothingLostNext ==
  TypeOK /\ NoChangeLost /\ NoPressLost /\ [Next]_vars => (NoChangeLost /\ NoPressLost)'
<1>1. SUFFICES ASSUME TypeOK, NoChangeLost, NoPressLost, [Next]_vars
               PROVE  (NoChangeLost /\ NoPressLost)'
  OBVIOUS
<1>2. ASSUME NEW w \in Worker, Serve(w) PROVE (NoChangeLost /\ NoPressLost)'
  BY <1>1, <1>2, ServedIsDue DEF NoChangeLost, NoPressLost
<1>3. CASE LoopStep
  BY <1>1, <1>3
  DEF NoChangeLost, NoPressLost, WakeDue, LoopStep, ApiWaitEnds, Snapshot, SwapForce,
      Publish, ResetTicker, WakeByTicker, WakeByTrigger
<1>4. CASE SecondPasses \/ ApiUp \/ UNCHANGED vars
  BY <1>1, <1>4 DEF NoChangeLost, NoPressLost, WakeDue, SecondPasses, ApiUp, loopVars, vars
<1>5. CASE Restart
  BY <1>5 DEF NoChangeLost, NoPressLost, Restart
<1>. QED  BY <1>1, <1>2, <1>3, <1>4, <1>5 DEF Next

\* Initially nothing has been changed or pressed.
LEMMA NothingLostInit == Init => NoChangeLost /\ NoPressLost
  BY DEF Init, NoChangeLost, NoPressLost

\* Signals are coalesced in a channel of capacity one and no change is lost by
\* it, however the handlers, the loop and restarts interleave.
THEOREM ChangesKept == Spec => []NoChangeLost
<1>1. Spec => [](NoChangeLost /\ NoPressLost)
  BY NothingLostInit, NothingLostNext, LoopTypeCorrect, PTL DEF Spec
<1>. QED  BY <1>1, PTL

\* A press that arrives while a cycle runs has another cycle coming.
THEOREM PressesKept == Spec => []NoPressLost
<1>1. Spec => [](NoChangeLost /\ NoPressLost)
  BY NothingLostInit, NothingLostNext, LoopTypeCorrect, PTL DEF Spec
<1>. QED  BY <1>1, PTL

\* What is published, what the cycle works with and what is stored are never
\* newer than one another in that order.
InOrder ==
  /\ published <= snap.changes
  /\ snap.changes <= config.changes

\* The order holds initially.
LEMMA InOrderInit == Init => InOrder
<1>1. SUFFICES ASSUME Init PROVE InOrder
  OBVIOUS
<1>2. config.changes = 0 /\ snap.changes = 0 /\ published = -1
  BY <1>1 DEF Init, NothingPublished
<1>. QED  BY <1>2 DEF InOrder

\* Every step keeps the order: a snapshot brings a cycle up to the store, and
\* publishing brings the result up to the cycle.
LEMMA InOrderNext == TypeOK /\ InOrder /\ [Next]_vars => InOrder'
<1>1. SUFFICES ASSUME TypeOK, InOrder, [Next]_vars PROVE InOrder'
  OBVIOUS
<1>2. /\ config.changes \in Nat /\ snap.changes \in Nat /\ published \in Int
      /\ published <= config.changes
  <2>1. config.changes \in 0..MaxChanges /\ snap.changes \in 0..MaxChanges
    BY <1>1 DEF TypeOK
  <2>2. published = -1 \/ published \in 0..MaxChanges
    BY <1>1 DEF TypeOK, NothingPublished
  <2>. QED  BY <1>1, <2>1, <2>2, LoopAssumption DEF InOrder
<1>3. ASSUME NEW w \in Worker, Serve(w) PROVE InOrder'
  <2>1. config'.changes \in {config.changes, config.changes + 1}
    BY <1>3 DEF Serve, Edit, Refresh, Trigger, SetInterval, Changed
  <2>2. UNCHANGED <<snap, published>>
    BY <1>3 DEF Serve, Edit, Refresh, Trigger, SetInterval, loopVars
  <2>. QED  BY <1>1, <1>2, <2>1, <2>2 DEF InOrder
<1>4. CASE Snapshot
  BY <1>2, <1>4 DEF InOrder, Snapshot
<1>5. CASE Publish
  BY <1>1, <1>2, <1>5 DEF InOrder, Publish
<1>6. CASE ApiWaitEnds \/ SwapForce \/ ResetTicker \/ WakeByTicker \/ WakeByTrigger
  BY <1>1, <1>6 DEF InOrder, ApiWaitEnds, SwapForce, ResetTicker, WakeByTicker, WakeByTrigger
<1>7. CASE SecondPasses \/ ApiUp \/ UNCHANGED vars
  BY <1>1, <1>7 DEF InOrder, SecondPasses, ApiUp, loopVars, vars
<1>8. CASE Restart
  <2>1. config' = config /\ snap' = config /\ published' = -1
    BY <1>8 DEF Restart, NothingPublished
  <2>. QED  BY <1>2, <2>1 DEF InOrder
<1>. QED  BY <1>1, <1>3, <1>4, <1>5, <1>6, <1>7, <1>8 DEF Next, LoopStep

\* A step of the loop is a step of what it promises, or changes nothing of it.
LEMMA LoopStepSimulates ==
  TypeOK /\ InOrder /\ [Next]_vars => [Outside!Next]_(Outside!resultVars)
<1>. USE DEF Outside!Next, Outside!Change, Outside!Publish, Outside!Stop,
            Outside!resultVars, Outside!NothingPublished
<1>1. SUFFICES ASSUME TypeOK, InOrder, [Next]_vars
               PROVE  [Outside!Next]_(Outside!resultVars)
  OBVIOUS
<1>2. config.changes \in 0..MaxChanges /\ snap.changes \in 0..MaxChanges
  BY <1>1 DEF TypeOK
<1>3. ASSUME NEW w \in Worker, Serve(w) PROVE Outside!Change \/ UNCHANGED Outside!resultVars
  <2>1. CASE Edit(w) \/ \E seconds \in Intervals : SetInterval(w, seconds)
    <3>1. /\ config.changes < MaxChanges /\ config'.changes = config.changes + 1
          /\ published' = published
      BY <2>1 DEF Edit, SetInterval, Changed, loopVars
    <3>. QED  BY <3>1
  <2>2. CASE Refresh(w) \/ Trigger(w)
    BY <2>2 DEF Refresh, Trigger, loopVars
  <2>. QED  BY <1>3, <2>1, <2>2 DEF Serve
<1>4. CASE Publish
  <2>1. published' = snap.changes /\ config' = config
    BY <1>4 DEF Publish
  <2>2. snap.changes \in 0..config.changes /\ published <= snap.changes
    BY <1>1, <1>2 DEF InOrder
  <2>. QED  BY <2>1, <2>2
<1>5. CASE ApiWaitEnds \/ Snapshot \/ SwapForce \/ ResetTicker \/ WakeByTicker \/ WakeByTrigger
  BY <1>5 DEF ApiWaitEnds, Snapshot, SwapForce, ResetTicker, WakeByTicker, WakeByTrigger
<1>6. CASE SecondPasses \/ ApiUp \/ UNCHANGED vars
  BY <1>6 DEF SecondPasses, ApiUp, loopVars, vars
<1>7. CASE Restart
  BY <1>7 DEF Restart, NothingPublished
<1>. QED  BY <1>1, <1>3, <1>4, <1>5, <1>6, <1>7 DEF Next, LoopStep

\* The loop implements, as far as safety goes, what a poller may rely on: the
\* published result never goes back while the process lives and never claims
\* a change that was not made.
THEOREM LoopImplementsBackend == Spec => Outside!Spec
<1>1. Init => Outside!Init
  BY DEF Init, Outside!Init, NothingPublished, Outside!NothingPublished
<1>2. Spec => []InOrder
  BY InOrderInit, InOrderNext, LoopTypeCorrect, PTL DEF Spec
<1>. QED  BY <1>1, <1>2, LoopTypeCorrect, LoopStepSimulates, PTL DEF Spec, Outside!Spec

-------------------------------------------------------------------------------
(* The ticker.                                                               *)

\* While the loop waits its ticker runs, at the interval that is stored unless
\* a wake-up is due, and it has been idle at least as long as the ticker runs.
TickerInv ==
  /\ loop = "select" =>
       /\ period > 0
       /\ rest >= elapsed
       /\ WakeDue \/ period = Duration(config.interval)
  /\ loop = "dead" => ~(Duration(config.interval) > 0)

\* A duration that fits an int64 is the product it stands for.
LEMMA DurationFits ==
  ASSUME NEW s \in Nat, s * Second < Wrap \div 2
  PROVE  Duration(s) = s * Second
<1>1. s * Second \in Nat /\ Wrap \div 2 \in Nat /\ Wrap \div 2 <= Wrap
  BY LoopAssumption
<1>2. (s * Second) % Wrap = s * Second
  BY <1>1, LoopAssumption
<1>. QED  BY <1>1, <1>2 DEF Duration

\* The ticker is reset to what the store holds, and every later change leaves a
\* wake-up due.
LEMMA TickerNext == TypeOK /\ TickerInv /\ [Next]_vars => TickerInv'
<1>1. SUFFICES ASSUME TypeOK, TickerInv, [Next]_vars PROVE TickerInv'
  OBVIOUS
<1>2. rest \in Nat /\ elapsed \in Nat /\ period \in Int
  BY <1>1 DEF TypeOK
<1>3. ASSUME NEW w \in Worker, Serve(w) PROVE TickerInv'
  <2>1. UNCHANGED <<loop, period, elapsed, rest>> /\ loop # "dead"
    BY <1>3 DEF Serve, Edit, Refresh, Trigger, SetInterval, loopVars
  <2>2. WakeDue'
    BY <1>1, <1>3, ServedIsDue
  <2>. QED  BY <1>1, <2>1, <2>2 DEF TickerInv
<1>4. CASE ResetTicker
  <2>1. /\ rest' = rest /\ elapsed' = 0 /\ config' = config
        /\ period' = Duration(config.interval)
        /\ loop' = IF period' > 0 THEN "select" ELSE "dead"
    BY <1>4 DEF ResetTicker
  <2>2. period' \in Int
    BY <1>1, <1>4, LoopTypeNext DEF TypeOK
  <2>3. Duration(config'.interval) = period'
    BY <2>1
  <2>. QED  BY <1>2, <2>1, <2>2, <2>3 DEF TickerInv
<1>5. CASE \/ ApiWaitEnds \/ Snapshot \/ SwapForce \/ Publish
           \/ WakeByTicker \/ WakeByTrigger \/ Restart
  BY <1>5
  DEF TickerInv, ApiWaitEnds, Snapshot, SwapForce, Publish, WakeByTicker, WakeByTrigger, Restart
<1>6. CASE SecondPasses \/ ApiUp \/ UNCHANGED vars
  <2>1. /\ UNCHANGED <<config, trigger, handler, loop, period>>
        /\ \/ elapsed' = elapsed + 1 /\ rest' = rest + 1
           \/ UNCHANGED <<elapsed, rest>>
    BY <1>6 DEF SecondPasses, ApiUp, vars, loopVars
  <2>2. WakeDue' <=> WakeDue
    BY <2>1 DEF WakeDue
  <2>. QED  BY <1>1, <1>2, <2>1, <2>2 DEF TickerInv
<1>. QED  BY <1>1, <1>3, <1>4, <1>5, <1>6 DEF Next, LoopStep

\* TickerInv holds in every reachable state.
THEOREM TickerCorrect == Spec => []TickerInv
<1>1. Init => TickerInv
  BY DEF Init, TickerInv
<1>. QED  BY <1>1, TickerNext, LoopTypeCorrect, PTL DEF Spec

\* No interval that may be saved is longer than an int64 of nanoseconds, some
\* 292 years: the code bounds an interval from below only.
IntervalsFit == \A s \in Intervals : s * Second < Wrap \div 2

\* If no interval overflows, a loop that waits waits for the interval that was
\* saved last, or has a wake-up due.
THEOREM TickerFollowsStore ==
  ASSUME IntervalsFit
  PROVE  Spec => []TickerIsCurrent
<1>1. TypeOK /\ TickerInv => TickerIsCurrent
  <2>1. SUFFICES ASSUME TypeOK, TickerInv PROVE TickerIsCurrent
    OBVIOUS
  <2>2. Duration(config.interval) = config.interval * Second
    BY <2>1, DurationFits, LoopAssumption DEF TypeOK, IntervalsFit
  <2>. QED  BY <2>1, <2>2 DEF TickerInv, TickerIsCurrent
<1>. QED  BY <1>1, LoopTypeCorrect, TickerCorrect, PTL

\* If no interval overflows, no Reset or NewTicker is given a duration it
\* panics on.
THEOREM LoopLives ==
  ASSUME IntervalsFit
  PROVE  Spec => [](loop # "dead")
<1>1. TypeOK /\ TickerInv => loop # "dead"
  <2>1. SUFFICES ASSUME TypeOK PROVE Duration(config.interval) > 0
    BY DEF TickerInv
  <2>2. /\ config.interval \in Intervals /\ config.interval >= MinInterval
        /\ config.interval \in Nat
    BY <2>1, LoopAssumption DEF TypeOK
  <2>3. Duration(config.interval) = config.interval * Second
    BY <2>2, DurationFits DEF IntervalsFit
  <2>4. config.interval * Second > 0
    BY <2>2, LoopAssumption
  <2>. QED  BY <2>3, <2>4
<1>. QED  BY <1>1, LoopTypeCorrect, TickerCorrect, PTL

\* The ticker starts a cycle only a whole period after the last one ended,
\* however long that one took and whatever interval was saved meanwhile.
THEOREM CyclesApart == Spec => TicksApart
<1>1. TypeOK /\ TickerInv => [WakeByTicker => rest * Second >= period]_vars
  <2>1. SUFFICES ASSUME TypeOK, TickerInv, WakeByTicker PROVE rest * Second >= period
    OBVIOUS
  <2>2. /\ rest \in Nat /\ elapsed \in Nat /\ period \in Int /\ Second \in Nat
        /\ period > 0 /\ rest >= elapsed
    BY <2>1, LoopAssumption DEF TypeOK, TickerInv, WakeByTicker
  <2>3. elapsed * Second >= period
    BY <2>1, <2>2 DEF WakeByTicker, Late
  <2>4. rest * Second >= elapsed * Second
    BY <2>2
  <2>. QED  BY <2>2, <2>3, <2>4
<1>. QED  BY <1>1, LoopTypeCorrect, TickerCorrect, PTL DEF TicksApart

\* The flag is lowered by the swap that hands it to a cycle, or is lost with
\* the process; neither a handler nor the end of a cycle lowers it.
THEOREM PressesTakenOnly == Spec => PressNotDropped
<1>1. TypeOK /\ [Next]_vars => [force /\ ~force' => forcing' \/ restarts' # restarts]_vars
  <2>1. SUFFICES ASSUME TypeOK, Next, force, ~force' PROVE forcing' \/ restarts' # restarts
    OBVIOUS
  <2>2. ASSUME NEW w \in Worker, Serve(w) PROVE FALSE
    BY <2>1, <2>2 DEF Serve, Edit, Refresh, Trigger, SetInterval
  <2>3. CASE Restart
    BY <2>1, <2>3 DEF Restart, TypeOK
  <2>. QED
    BY <2>1, <2>2, <2>3
    DEF Next, LoopStep, ApiWaitEnds, Snapshot, SwapForce, Publish, ResetTicker,
        WakeByTicker, WakeByTrigger, SecondPasses, ApiUp
<1>. QED  BY <1>1, LoopTypeCorrect, PTL DEF PressNotDropped, Spec
===============================================================================
