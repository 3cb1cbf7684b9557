---------------------------- MODULE ReconcileLoop ----------------------------
(***************************************************************************)
(* How a change made in the panel reaches a reconcile cycle                *)
(* (runReconcileLoop in src/main.go, the handlers of src/httpapi.go and    *)
(* StatusStore in src/ui.go).                                              *)
(*                                                                         *)
(* A handler changes the config store, or raises the Refresh flag, and     *)
(* then sends on a channel of capacity one without blocking.  The loop     *)
(* takes a snapshot of the configuration, swaps the flag for false, runs   *)
(* the cycle, publishes its result, resets its ticker to the interval it   *)
(* reads again from the store, and waits for the ticker or the channel.    *)
(*                                                                         *)
(* The configuration is the number of changes made to it so far and the    *)
(* interval; a change is atomic here because ConfigStore implements        *)
(* ConfigRegister.  The cycle is what Reconciler details.                  *)
(***************************************************************************)
EXTENDS Integers

CONSTANTS
    Worker,        \* the goroutines that serve requests
    Intervals,     \* the intervals SetInterval may be given, in seconds
    MinInterval,   \* MinIntervalSeconds
    Second,        \* nanoseconds in a second, to scale
    Wrap,          \* 2^64, to scale: how many values an int64 has
    Patience,      \* for how long waitForZoraxyAPI waits, in seconds
    MaxChanges,    \* how many changes a behaviour contains
    MaxRestarts    \* how many times the process is stopped

ASSUME LoopAssumption ==
    /\ Intervals \subseteq Nat /\ Intervals # {}
    /\ MinInterval \in Nat \ {0} /\ \E s \in Intervals : s >= MinInterval
    /\ Second \in Nat \ {0} /\ Patience \in Nat
    /\ Wrap \in Nat \ {0} /\ Wrap % 2 = 0
    /\ MaxChanges \in Nat /\ MaxRestarts \in Nat

VARIABLES
    config,     \* the config store: how many changes were made, the interval
    force,      \* ForceProviders, raised by Refresh
    trigger,    \* TRUE when the channel holds a signal
    handler,    \* handler[w]: "idle", or "send" between the change and the signal
    loop,       \* where the loop is
    snap,       \* the configuration of the cycle that runs or ran last
    forcing,    \* the cycle that runs was asked to refetch providers
    published,  \* the changes the published result takes into account
    period,     \* what the ticker was last reset to, in nanoseconds
    elapsed,    \* seconds since the ticker was reset, or the process started
    rest,       \* history: seconds since a cycle ended
    api,        \* Zoraxy's API answers
    restarts

vars == <<config, force, trigger, handler, loop, snap, forcing, published,
          period, elapsed, rest, api, restarts>>

\* time.Duration(seconds) * time.Second, in an int64.
Duration(seconds) ==
    LET n == (seconds * Second) % Wrap
    IN  IF n >= Wrap \div 2 THEN n - Wrap ELSE n

NothingPublished == -1

\* Patience has run out, or the ticker, once it runs, has a tick to give.
Late == IF period = 0 THEN elapsed >= Patience ELSE elapsed * Second >= period

Init ==
    /\ config \in [changes : {0}, interval : {s \in Intervals : s >= MinInterval}]
    /\ force = FALSE /\ trigger = FALSE
    /\ handler = [w \in Worker |-> "idle"]
    /\ loop = "starting" /\ snap = config /\ forcing = FALSE
    /\ published = NothingPublished
    /\ period = 0 /\ elapsed = 0 /\ rest = 0 /\ api \in BOOLEAN /\ restarts = 0

-------------------------------------------------------------------------------
(* The handlers.                                                             *)

loopVars == <<loop, snap, forcing, published, period, elapsed, rest>>

Changed(interval) ==
    /\ config.changes < MaxChanges
    /\ config' = [changes |-> config.changes + 1, interval |-> interval]

\* Variant: the handler relies on the ticker.
EditUnsignalled(w) ==
    /\ loop # "dead" /\ handler[w] = "idle"
    /\ Changed(config.interval)
    /\ UNCHANGED <<force, trigger, handler, loopVars, api, restarts>>

\* A change of anything but the interval.
Edit(w) ==
    /\ loop # "dead" /\ handler[w] = "idle"
    /\ Changed(config.interval)
    /\ handler' = [handler EXCEPT ![w] = "send"]
    /\ UNCHANGED <<force, trigger, loopVars, api, restarts>>

\* Variant: the floor is not enforced.
SetAnyInterval(w, seconds) ==
    /\ loop # "dead" /\ handler[w] = "idle"
    /\ Changed(seconds)
    /\ handler' = [handler EXCEPT ![w] = "send"]
    /\ UNCHANGED <<force, trigger, loopVars, api, restarts>>

SetInterval(w, seconds) ==
    /\ loop # "dead" /\ handler[w] = "idle"
    /\ seconds >= MinInterval
    /\ Changed(seconds)
    /\ handler' = [handler EXCEPT ![w] = "send"]
    /\ UNCHANGED <<force, trigger, loopVars, api, restarts>>

\* Variant: the flag is raised and no signal is sent.
RefreshUnsignalled(w) ==
    /\ loop # "dead" /\ handler[w] = "idle"
    /\ force' = TRUE
    /\ UNCHANGED <<config, trigger, handler, loopVars, api, restarts>>

Refresh(w) ==
    /\ loop # "dead" /\ handler[w] = "idle"
    /\ force' = TRUE
    /\ handler' = [handler EXCEPT ![w] = "send"]
    /\ UNCHANGED <<config, trigger, loopVars, api, restarts>>

\* The send never blocks: a signal that is already there stands for this one.
Trigger(w) ==
    /\ loop # "dead" /\ handler[w] = "send"
    /\ trigger' = TRUE
    /\ handler' = [handler EXCEPT ![w] = "idle"]
    /\ UNCHANGED <<config, force, loopVars, api, restarts>>

-------------------------------------------------------------------------------
(* The loop.                                                                 *)

\* waitForZoraxyAPI returns when the API answers or patience has run out.
ApiWaitEnds ==
    /\ loop = "starting" /\ (api \/ Late)
    /\ loop' = "snapshot"
    /\ UNCHANGED <<config, force, trigger, handler, snap, forcing, published,
                   period, elapsed, rest, api, restarts>>

Snapshot ==
    /\ loop = "snapshot"
    /\ snap' = config
    /\ loop' = "swap"
    /\ UNCHANGED <<config, force, trigger, handler, forcing, published, period,
                   elapsed, rest, api, restarts>>

\* Read and clear in one operation.
SwapForce ==
    /\ loop = "swap"
    /\ forcing' = force /\ force' = FALSE
    /\ loop' = "cycle"
    /\ UNCHANGED <<config, trigger, handler, snap, published, period, elapsed,
                   rest, api, restarts>>

\* Variant: the flag is lowered when the cycle is over.
PublishAndLower ==
    /\ loop = "cycle"
    /\ published' = snap.changes
    /\ forcing' = FALSE /\ force' = FALSE /\ rest' = 0
    /\ loop' = "reset"
    /\ UNCHANGED <<config, trigger, handler, snap, period, elapsed, api, restarts>>

Publish ==
    /\ loop = "cycle"
    /\ published' = snap.changes
    /\ forcing' = FALSE /\ rest' = 0
    /\ loop' = "reset"
    /\ UNCHANGED <<config, force, trigger, handler, snap, period, elapsed, api, restarts>>

\* Variant: the interval is read once.
KeepTicker ==
    /\ loop = "reset"
    /\ period' = IF period = 0 THEN Duration(config.interval) ELSE period
    /\ elapsed' = 0
    /\ loop' = IF period' > 0 THEN "select" ELSE "dead"
    /\ UNCHANGED <<config, force, trigger, handler, snap, forcing, published, rest,
                   api, restarts>>

\* Variant: a tick that came due during the cycle stays due.
ResetKeepingTick ==
    /\ loop = "reset"
    /\ period' = Duration(config.interval)
    /\ elapsed' = IF period = 0 THEN 0 ELSE elapsed
    /\ loop' = IF period' > 0 THEN "select" ELSE "dead"
    /\ UNCHANGED <<config, force, trigger, handler, snap, forcing, published, rest,
                   api, restarts>>

\* NewTicker or Ticker.Reset, which panics unless the period is positive and
\* drops a tick that is due.
ResetTicker ==
    /\ loop = "reset"
    /\ period' = Duration(config.interval)
    /\ elapsed' = 0
    /\ loop' = IF period' > 0 THEN "select" ELSE "dead"
    /\ UNCHANGED <<config, force, trigger, handler, snap, forcing, published, rest,
                   api, restarts>>

WakeByTicker ==
    /\ loop = "select" /\ Late
    /\ loop' = "snapshot"
    /\ UNCHANGED <<config, force, trigger, handler, snap, forcing, published,
                   period, elapsed, rest, api, restarts>>

\* Variant: the cycle runs with the configuration of the one before.
WakeWithOldSnapshot ==
    /\ loop = "select" /\ trigger
    /\ trigger' = FALSE
    /\ loop' = "swap"
    /\ UNCHANGED <<config, force, handler, snap, forcing, published, period,
                   elapsed, rest, api, restarts>>

WakeByTrigger ==
    /\ loop = "select" /\ trigger
    /\ trigger' = FALSE
    /\ loop' = "snapshot"
    /\ UNCHANGED <<config, force, handler, snap, forcing, published, period,
                   elapsed, rest, api, restarts>>

-------------------------------------------------------------------------------
(* Time, Zoraxy and the process.                                             *)

\* Time is counted until it is late; a cycle, too, takes time.
SecondPasses ==
    /\ loop # "dead" /\ (loop = "starting" \/ period > 0) /\ ~Late
    /\ elapsed' = elapsed + 1 /\ rest' = rest + 1
    /\ UNCHANGED <<config, force, trigger, handler, loop, snap, forcing, published,
                   period, api, restarts>>

ApiUp ==
    /\ ~api /\ api' = TRUE
    /\ UNCHANGED <<config, force, trigger, handler, loopVars, restarts>>

\* Everything but the configuration is lost; a request that was cut off after
\* its change was saved never sends its signal.
Restart ==
    /\ restarts < MaxRestarts /\ restarts' = restarts + 1
    /\ force' = FALSE /\ trigger' = FALSE
    /\ handler' = [w \in Worker |-> "idle"]
    /\ loop' = "starting" /\ snap' = config /\ forcing' = FALSE
    /\ published' = NothingPublished
    /\ period' = 0 /\ elapsed' = 0 /\ rest' = 0 /\ api' \in BOOLEAN
    /\ UNCHANGED config

Serve(w) ==
    \/ Edit(w) \/ Refresh(w) \/ Trigger(w)
    \/ \E seconds \in Intervals : SetInterval(w, seconds)

LoopStep ==
    \/ ApiWaitEnds \/ Snapshot \/ SwapForce \/ Publish \/ ResetTicker
    \/ WakeByTicker \/ WakeByTrigger

Next ==
    \/ \E w \in Worker : Serve(w)
    \/ LoopStep \/ SecondPasses \/ ApiUp \/ Restart

Spec == Init /\ [][Next]_vars

\* A goroutine that can run does; while the loop waits for Zoraxy time passes.
\* Nothing is assumed of the ticker once the loop runs.
FairSpec ==
    /\ Spec
    /\ WF_vars(ApiWaitEnds \/ Snapshot \/ SwapForce \/ Publish \/ ResetTicker \/ WakeByTrigger)
    /\ WF_vars(SecondPasses /\ loop = "starting")
    /\ \A w \in Worker : WF_vars(Trigger(w))

-------------------------------------------------------------------------------
(* Correctness.                                                              *)

TypeOK ==
    /\ config \in [changes : 0..MaxChanges, interval : {s \in Intervals : s >= MinInterval}]
    /\ force \in BOOLEAN /\ trigger \in BOOLEAN
    /\ handler \in [Worker -> {"idle", "send"}]
    /\ loop \in {"starting", "snapshot", "swap", "cycle", "reset", "select", "dead"}
    /\ snap \in [changes : 0..MaxChanges, interval : {s \in Intervals : s >= MinInterval}]
    /\ forcing \in BOOLEAN
    /\ published \in {NothingPublished} \cup 0..MaxChanges
    /\ period \in Int /\ elapsed \in Nat /\ rest \in Nat
    /\ api \in BOOLEAN /\ restarts \in 0..MaxRestarts

\* A cycle that has not taken its snapshot yet is on its way, whatever the
\* ticker does: the channel holds a signal, a handler is about to send one, or
\* the loop is before the point.
WakeDue == trigger \/ \E w \in Worker : handler[w] = "send"

\* A change that was made is in the snapshot of the cycle that runs or ran
\* last, or a wake-up is due for it; dropping a signal because the channel is
\* full never drops a change, and neither does a restart.
NoChangeLost ==
    snap.changes = config.changes \/ WakeDue \/ loop \in {"starting", "snapshot", "dead"}

\* A press of Refresh that no cycle has taken yet has a cycle coming that
\* will: "a press arriving while a cycle is already running is honoured by the
\* next one rather than lost".
NoPressLost ==
    force => WakeDue \/ loop \in {"starting", "snapshot", "swap", "dead"}

\* When the loop waits and no wake-up is due, its ticker runs at the interval
\* that was saved last: "re-read from the store each cycle so UI edits take
\* effect".
TickerIsCurrent ==
    loop = "select" /\ ~WakeDue => period = config.interval * Second

\* A cycle is started by the ticker only a whole interval after the last one
\* ended: a tick that came due during a long cycle is not made up for.
TicksApart ==
    [][WakeByTicker => rest * Second >= period]_vars

\* The flag of a press goes down only by the swap that hands it to a cycle, or
\* with the process.  What the cycle makes of it is up to providerForceFloor.
PressNotDropped ==
    [][force /\ ~force' => forcing' \/ restarts' # restarts]_vars

\* Every change reaches a published cycle, without waiting for the ticker,
\* unless the process is stopped: every accepted request is followed by a
\* cycle that saw it.
ChangesArePublished ==
    \A n \in 1..MaxChanges : config.changes >= n ~> published >= n

\* Every press is taken by a cycle or lost to a restart.
PressesAreTaken == force ~> ~force

\* Seen from outside, the loop is a result that follows the configuration:
\* whatever is dropped, coalesced or restarted, what is published never goes
\* back while the process lives and catches up with every change.
Outside == INSTANCE Backend WITH changes <- config.changes

FollowsChanges == Outside!FairSpec
===============================================================================
