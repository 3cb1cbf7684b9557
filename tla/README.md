# A verification of the FQDN Whitelist Sync plugin

TLA+ modules of the plugin in this repository, the runs that model-check them
with TLC, and proofs checked by TLAPS. File names below are relative to the
repository.

## The system

The plugin keeps IP whitelists inside Zoraxy in step with what a set of names
resolves to and with the ranges providers publish. One process, three kinds of
goroutine:

* the **reconcile loop** runs a cycle every interval and whenever it is
  signalled;
* **handlers** of the panel's HTTP API change the configuration and signal the
  loop;
* `main` and the signal handler start and stop the process.

Outside it are Zoraxy, which starts and stops it, keeps the whitelist and
forwards the panel's requests, and the page in the operator's browser.

| Component | State | Operations | Talks to |
|---|---|---|---|
| Reconciler (`reconciler.go`) | outage clock per name, schedule and cache per provider, time of the last forced fetch; the locals of a pass | `All`, `Rule` | Zoraxy's API, resolver, fetcher |
| Never-authorise list (`unroutable.go`) | compiled ranges | `Contains`, `Overlaps` | called by the reconciler and the store |
| Resolver (`resolver.go`) | none | `Resolve`, first definitive answer of several servers | DNS |
| Provider fetcher (`provider.go`) | none; a fixed registry | `Fetch`, the checks of a list | provider endpoints |
| Zoraxy client (`zoraxyclient.go`) | none; the whitelist is Zoraxy's | list, add, remove, list the rules | Zoraxy |
| Configuration store (`config.go`) | configuration in memory, `config.json` | load, snapshot, eight mutators, atomic save | file system |
| Panel API (`httpapi.go`) | none | one handler per mutator, `refresh`, reads | store, channel, Refresh flag, status |
| Reconcile loop (`main.go`) | ticker, the configuration of the cycle | wait, snapshot, swap, cycle, publish, reset | store, channel, flag, reconciler, status |
| Status store (`ui.go`) | the last result, by reference | `Set`, `Snapshot` | loop, API |
| Panel (`www/`) | the last state received, two banners, the fields | polling, forms | API, through Zoraxy's proxy |
| Start and stop (`main.go`, `mod/zoraxy_plugin`) | the termination timer, a pending signal | handshake, `/term`, signals | Zoraxy, the machine |
| Licence routes (`license.go`) | none | two texts | browser |

What is hard in it:

* **The whitelist is shared.** A pass reads it once and writes it after lookups
  and fetches that take seconds; an administrator may edit it meanwhile, any
  call may fail, and an add may take effect although the plugin sees an error.
* **Nothing is persisted but the configuration and the whitelist.** A restart
  loses clocks and caches and may fall between the add and the remove of a
  migration.
* **Three ways to be wanted.** An address or range is wanted because it was
  resolved or fetched, because grace keeps it, or because a provider without a
  usable cache already owns it; every way has to respect the never-authorise
  list, which can change at any moment.
* **Time.** Grace windows, a retry interval, a floor between forced fetches.
* **Signals are coalesced.** A channel of capacity one, a flag swapped by the
  loop, a ticker that is reset from a configuration that changes.
* **Saving.** Concurrent read-modify-write, and a crash between any two steps.
* **Stopping.** A request, a signal, a timer and a kill race each other, and
  which of them there are depends on the machine.
* **The page.** Polls overtake each other, and something else answers in the
  plugin's place with a status of 200.

What makes each part correct: the reconciler touches only its own entries,
never wants what is blocked, never takes away an access it wants, revokes a
provider's range only on the word of a list it accepted, and converges. The
store is an atomic, durable register. The loop loses no change and no press. A
lookup or a list that is in doubt changes nothing. A stop is answered and clean.
The page shows what was stored, never calls a failed save done, and catches up.

## The modules

| Module | Models | Notes |
|---|---|---|
| `Whitelist` | what an entry is, canonical forms, the tests on addresses and prefixes | a CIDR is the set of hosts it covers, so containment and overlap are set operations; `Matches` is Zoraxy's matcher, as the comment on `toCIDR` describes it |
| `Reconciler` | `All` and `Rule` | one action per call of the plugin |
| `ReconcilerHistory` | `Reconciler` with variables that only observe | for properties over several cycles |
| `ConfigData` | the configuration as a value: loading, requests, their effect | no state |
| `ConfigRegister` | what the store promises | abstract |
| `ConfigStore` | handlers, lock, `saveConfig` step by step, disk, crashes | implements `ConfigRegister` |
| `ReconcileLoop` | handlers' signals, Refresh flag, loop, ticker | a cycle is one step; implements `Backend` |
| `Backend` | what the plugin promises to whoever polls it: how many changes its result has seen | abstract |
| `Sources` | a lookup over several DNS servers, a fetch over several endpoints | functions, no state; `Reconciler` extends it |
| `Networks` | `UnroutableSet` bit by bit | functions, no state; shown to be `Whitelist`'s tests |
| `Lifecycle` | `main`, the SDK's handler of `/term`, signals, Zoraxy's `StopPlugin` | |
| `Panel` | the page, the proxy before the plugin, `handleState`, `handleRules`, `handleUnroutable` | built on `Backend` |
| `MCReconciler`, `MCHistory`, `MCConfig`, `MCLoop`, `MCPanel` | instances for TLC | |
| `*_proofs` | theorems about the module they are named after | `ReconcilerHistory_proofs` builds on `Reconciler_proofs`; the one on `Networks` also on `Whitelist` |

`ReconcileLoop` treats a configuration change as atomic because `ConfigStore`
is shown to implement `ConfigRegister`, and a cycle as one step because nothing
the loop decides depends on what happens inside it; `Reconciler` details the
cycle, given any configuration and any value of the Refresh flag. `Panel` in
turn knows the loop as `Backend` only, which `ReconcileLoop` is shown to
implement with its liveness (`FollowsChanges`) and proved to implement without
it.

**Reconciler.** `wl` is Zoraxy's whitelist: for each rule and stored entry, its
comment - the owner for an entry of the plugin, `Admin` for any other, `None`
if there is no entry. `failing`, `prov`, `forceAge` and `forced` are the
reconciler's fields; times are kept as ages and countdowns that stop at a bound
(`MaxAge`, `Retry`, `Floor`), which keeps the state space finite without
bounding the length of a behaviour. `pc`, `ri`, `todo` and the rest of the pass
are the locals of `Rule`. The actions follow the code in order: `StartCycle`;
`ListRule` or `ListFails`; `ResolveFqdn` per name, `FqdnsDone`; per provider
`UseWithoutFetch`, or `BeginFetch` and then `FetchReturns` or `FetchFails`,
all ending in `Authorise`; `BeginAdds`, `AddEntry` or `AddFails` in any order;
`BeginRemoves`, `RemoveEntry` or `RemoveFails` in any order; `RuleReturns`;
`FinishCycle`, which forgets what is no longer configured. `Tick`, `AdminEdits`
and `Restart` come between any two of them. `report` is what the panel would
show of each source; `edited` records, for the properties, which entries
somebody else changed during the pass.

**ConfigStore.** `saving[w]` is where goroutine `w` is in `saveConfig` and what
it saves; holding the lock is being in it. `path`, `tmp` and `durable` are the
two files as processes see them and `config.json` as a power failure would
leave it: a file that was not synced may be torn, a rename whose directory was
not synced may be undone. `expected` is history.

**ReconcileLoop.** The configuration is a count of changes and the interval.
`Duration` is the int64 product of `main.go:212`, with the number of values of
an int64 and of nanoseconds in a second scaled to `Wrap` and `Second`.
`Ticker.Reset` drops a tick that is due, as it does in the Go version `go.mod`
names.

**Sources.** `Resolve` takes the answers of the servers in order and `Fetch` the
replies of the endpoints; `FetchSucceeds` is that `Fetch` returns no error. A
body is a sequence of lines that are blank, garbled or a prefix. The instances
of `Reconciler` take what lookups and fetches can return from these functions
over two servers and two endpoints, with two lists added that only a fetcher
breaking its contract would return, which `Reconciler` refuses (`Acceptable`).

**Networks.** An address is a family and its bits, a network those and a number
of leading bits. Family and width are parameters. No run uses the module: what
it says is proved in `Networks_proofs`, for every width, and ties the sets of
addresses that `Whitelist` and `Reconciler` work with to the code's masks.

**Lifecycle.** `proc` is how far `main` has come, `zoraxy` where Zoraxy's
`StopPlugin` is, and `timer`, `sig`, `waited` and `lag` are clocks in ticks. A
goroutine that can run is late by `Slack` at most (`Tick` waits for it); nothing
else is assumed about speed. Zoraxy's half is taken from the comments of
`main.go:74-130`.

**Panel.** `lists` is every never-authorise list the store has held; the field
for it stands for all the settings, being the one with a dialog and a button
that fills it. A poll is `Poll` (which takes the configuration), `ReadStatus`
(which takes the result) and `StateArrives`; polls are in a set, so any of them
may arrive next. `path` and `up` say who answers a request: the plugin, the
proxy in its place (200 and an error), the login page (200 as well), or nobody.
A request that cannot be delivered fails at once; `Die` cuts off what the plugin
was working on. `confirm` stops the page, so nothing is handled while `post` is
"asking". Two polls that carry the same state are one in the set.

Definitions called *Variant* in their comment are not part of any
specification: each is a plausible bug in one definition, used to show that a
property notices it.

## The runs

| Run | Checks | Bounds, and why they are enough |
|---|---|---|
| `names` | types, `PassInv`, `PassExact`, `TouchesOnlyItsOwn`, `NeverLocksOut`, `GraceProtects` | two hosts (one IPv6), two names that may share an address, every start whitelist over three keys and two owners, one counted fault; lookups fail freely. Two entries of one address and two claimants of one entry are what the definitions can tell apart |
| `providers` | `NeverWantsBlocked`, `PassExact`, `ProviderNeverRevokes` | three hosts, a range of two and one too broad, a known and an unknown provider, a blocked list that changes between cycles; fetches fail freely |
| `converge` | `Converges` | one rule with an answering name, a failing name and a provider; any start over the entries concerned, one fault |
| `history` | `GraceWindowEnds`, `LastKnownKept`, `PoliteFetching` | one name in one rule, or one provider in two, the configuration changing between these at will; three addresses, no two sources share one; window, retry and floor of two ticks, long enough for a failure, an answer and a failure within one; lookups and fetches fail freely, one other fault |
| `store` | types, `AlwaysUsable`, `DiskWhole`, `MemoryIsFile`, `ConfirmedKept`, `IsRegister` | two workers, seven requests (an addition, its removal, a setting, four refused), three files written by hand, two disk failures, any number of kills and power failures |
| `loop` | types, `NoChangeLost`, `NoPressLost`, `TickerIsCurrent`, `TicksApart`, `PressNotDropped`, `ChangesArePublished`, `PressesAreTaken`, `FollowsChanges` | two handlers, three intervals one of them below the floor, two changes, one restart; two signals are enough to find the channel full, and one restart to fall between a save and its signal |
| `stop` | `StopInv`, `CleanStop`, `AnsweredFirst` | both kinds of machine; the timer sleeps 2 ticks, a goroutine is late by up to 1, Zoraxy waits 6 or 4 ticks: the closest times at which the assumption holds with every order of the three clocks possible; signals at any moment |
| `panel` | types, `ShowsWhatWas`, `NoFalseAlarm`, `ReportsAreTrue`, `ClearingConfirmed`, `PanelCatchesUp`, `BannerIsTrue` | one range, a list that has it or is empty, a text that is neither; two polls at a time, the fewest that can overtake each other; one change, made by the page or by another client; any number of stops, reloads and failures of the path |

A fault kind in `Free` is not counted; the others share `MaxFaults`. `names` and
`providers` together fire every action of `Reconciler`, `store` every action of
`ConfigStore`, `loop` every action of `ReconcileLoop`, `stop` every action of
`Lifecycle` and `panel` every action of `Panel`.

**Fairness.** `converge` assumes that the loop takes its next step and that time
passes - it is one goroutine that never waits for ever, since every call it
makes has a timeout - and nothing of administrators or restarts, which the
bound on faults makes finitely many. `loop` assumes that runnable
goroutines run and that time passes while the loop waits for Zoraxy; it assumes
nothing of the ticker afterwards, so a change is shown to be published on the
strength of its signal alone. `panel` assumes that the page's timer runs, that
requests are answered or fail (they have timeouts, or the proxy answers for the
plugin), and of the plugin what `Backend` promises; nothing of the operator, the
session, the network or the plugin's process. `PanelCatchesUp` and
`BannerIsTrue` speak of a page that is not reloaded for ever and of a path that
is fine, or is not, for good, with no dialog left open. `stop` needs no
fairness.

A `violation` run checks one property and ends with TLC's counterexample.

### Where the documents say more than the code does

Four runs check one sentence of the repository's documents each, and TLC finds
a behaviour of the code that breaks it (`PROJECT.json`, "findings", quotes both
sides).

* `admin_race`: an entry an administrator adds during a pass can be taken over.
* `cold_blocked`: a blocked range revoked without a cached list is not shown as
  blocked.
* `grace_two_rules`: the outage clock is shared between rules, so one rule's
  answers keep another's window from ending.
* `long_interval`: an interval has no upper bound and wraps in nanoseconds.

Five more behaviours have no run of their own, and the properties are stated
around them:

* The comment at `reconciler.go:324-326` says that a failing provider on several
  rules being retried within one cycle "already can't happen on the schedule path,
  since nextAttempt itself blocks a same-cycle repeat". It blocks one for
  `providerRetryInterval`: `shouldAttempt` (`reconciler.go:526-531`) reads the
  clock anew at each rule, so in a cycle that outlasts the five minutes - many
  names whose lookups time out, say - the provider is fetched again for a later
  rule. In the instance of `history`: a cycle over two rules that share the
  provider, its fetch fails in the first, two ticks (the retry interval) pass
  before the second reaches it, and it is fetched once more. `PoliteFetching`
  claims no more than the retry interval.
* An address the plugin owns in both forms, left by an interrupted migration,
  keeps one of them for the pass that meets it (`managed` holds one stored form
  per address), even when its name is gone. `PassExact` excludes such a `Twin`;
  `Converges` shows that later cycles remove both.
* Grace keeps the entries recorded for a name. Where two names share an address
  one of them is recorded, so the other can lose it within its window. `history`
  gives every address one possible owner.
* A text in a field of the panel that was filled in or typed but not saved is
  overwritten by the next state, once the field has lost the focus
  (`app.js:390`). "Built-in ranges filled in - review, then Save" therefore
  holds for up to five seconds, until the next poll; clicking Save in time, or
  keeping the focus in the field, avoids it. `Panel` has the behaviour and no
  property forbids it.
* An administrator's bare IPv6 entry, which matches nothing, counts as the
  address's authorisation. `PassExact` accepts it, as the code does.

The passing properties are stated so that these behaviours are outside them,
and only these: `edited` excludes what was changed during the pass, and
`history` runs a name in one rule only.

## The proofs

Every theorem holds for all values of the constants that satisfy the named
assumptions: any numbers of rules, names, providers, hosts and prefixes, any
configurations and lists, any bounds on time and faults. Every safety property
that a passing run checks is also a theorem. Each inductive invariant below was
checked by TLC on the instance of its run before it was proved. A few theorems
have a hypothesis more than the module's assumptions; the instances of `history`,
`store` and `loop` satisfy them all, and where the code lets one fail, the runs
`grace_two_rules` and `long_interval` and the hazards say what happens then.

| Property | Theorem | Rests on | Extra hypothesis |
|---|---|---|---|
| `Reconciler`: `TypeOK`, `PassInv` | `TypeCorrect`, `PassCorrect` | themselves | |
| `NeverWantsBlocked`, `TouchesOnlyItsOwn`, `NeverLocksOut` | `NeverAuthorised`, `OwnershipRespected`, `AccessKept` | `PassInv` | |
| `GraceProtects`, `ProviderNeverRevokes` | `GraceHolds`, `RevokedByListOnly` | `PassInv`, `ClaimInv` | |
| `PassExact` | `PassLeavesExact` | `PassInv`, `BookInv` | |
| `PoliteFetching` | `FetchesArePolite` | `HistoryInv`, `PoliteInv` | `PeriodsLast` |
| `GraceWindowEnds` | `GraceEnds` | `HistoryInv`, `ClockInv` | `OneRuleEach`, `KeepsGrace` |
| `LastKnownKept` | `LastKnownStays` | `PassInv`, `ClaimInv`, `OwnerInv`, `FailedInv` | `OneOwner`, `KeepsGrace` |
| `ConfigStore`: `TypeOK`, `DiskWhole`, `MemoryIsFile`, `ConfirmedKept`, `IsRegister` | `TypeCorrect`, `DiskAlwaysWhole`, `MemoryFollowsFile`, `ConfirmedIsKept`, `ImplementsRegister` | `StoreInv` | |
| `AlwaysUsable` | `UsableAlways` | `StoreInv`, `TidyInv` | `HandTidy` |
| `ReconcileLoop`: `TypeOK`, `NoChangeLost`, `NoPressLost` | `LoopTypeCorrect`, `ChangesKept`, `PressesKept` | themselves | |
| `TicksApart` | `CyclesApart` | `TickerInv` | |
| `PressNotDropped` | `PressesTakenOnly` | `TypeOK` | |
| `TickerIsCurrent` | `TickerFollowsStore` | `TickerInv` | `IntervalsFit` |
| `StopInv`, `CleanStop`, `AnsweredFirst` | `StopIsConsistent`, `StopsClean`, `StopIsAnswered` | `StopInv` | |
| `Panel`: `TypeOK`, `ShowsWhatWas`, `ClearingConfirmed` | `PanelTypes`, `OnlyWhatWasStored`, `EmptiedWithConsent` | `PanelInv` | |
| `NoFalseAlarm`, `ReportsAreTrue` | `BannerNeedsCause`, `OnlyWhatWasSaved` | the step alone | |

**`TypeCorrect`**: `Spec => []TypeOK` for `Reconciler`, action by action.
`TypeOK` includes that `ri` is within the configured rules exactly when a pass
runs and that a fetch has a provider, without which `Rule` and `Head(todo)`
would mean nothing.

**`PassCorrect`**: `Spec => []PassInv`, relative to `TypeOK`. None of the safety
properties is inductive; `PassInv` is what a pass knows at each point:

* `HoldsNothing` - outside a pass, and before its stage, each local is empty;
* `NeverWantsBlocked` - nothing wanted overlaps the never-authorise list;
* `ListIsCurrent` - while reading, the whitelist is as listed but for `edited`;
* `HoldsItsOwn` - what will be removed is owned, what will be added is wanted
  and not an administrator's;
* `AuthorisedHolds` - a form recorded as authorised is wanted and in place;
* `RemovesObsolete` - what is about to be removed is still obsolete. This needs
  that `desired` is settled before the writes begin and that `authorised` is
  settled before the removes do, which is why the code's two loops are two
  stages here.

From it follow **`NeverAuthorised`** (`[]NeverWantsBlocked`),
**`OwnershipRespected`** (`TouchesOnlyItsOwn`) and **`AccessKept`**
(`NeverLocksOut`). The last is the argument behind the comment at
`reconciler.go:457-467`: a legacy entry goes only when its CIDR form is
authorised, and what is authorised is there.

**`ClaimCorrect`**: `ClaimInv` says that what a pass has visited it has claimed: a
name shown in grace has all its unblocked entries wanted, and every configured
provider is still in `todo`, or has its cache wanted, if it has one that passes the
never-authorise list, or else the unblocked entries it owns. A deleted entry is
obsolete (`RemovesObsolete`), hence unwanted or migrated, so **`GraceHolds`** and
**`RevokedByListOnly`** follow: what revokes an unblocked range is a cache that
omits it and is acceptable at that moment. A cache that the operator's list has
come to reject revokes nothing but what is blocked, not even a range it omits
(`reconciler.go:385-387`); the mutant of the property filters such a cache instead
of falling back on what is owned.

**`BooksCorrect`**: `BookInv` is the bookkeeping behind **`PassLeavesExact`**: the
entries managed stand for every form owned; what is wanted is still to be added,
authorised or failed; what was recorded as authorised is an entry of the plugin
or an administrator's; what the plugin has in the whitelist it listed, or added;
what is obsolete is still to be removed, gone or failed. With both stages over
and no error left, each case that leaves the rule inexact is gone. `Twin` is the
hypothesis the proof could not do without: `managed` holds one form per address.

**The reconciler over several cycles** (`ReconcilerHistory_proofs`). By
**`HistoryObserves`** the theorems above hold with the history variables.
**`FetchesArePolite`**: two fetches of a provider are a retry interval apart, in one
cycle or in two, but that a forced cycle may fetch it once without waiting. It
needs that the countdown to the next attempt and the age of the last fetch add up
to a retry interval at least, and that a fetch forced in this cycle is remembered
(`PoliteInv`). It does not say that a provider is fetched once in a cycle, which
is not so (see above). `PeriodsLast` is the code's
`MinProviderIntervalSeconds` (an hour) against `providerRetryInterval` (five
minutes).
**`GraceEnds`** is that the clock of a name is the age of the outage its rule has
seen (`ClockInv`). That is so if only one rule has the name (`OneRuleEach`) -
`grace_two_rules` is what happens otherwise - and if the rules with names have a
window in every configuration (`KeepsGrace`): without a window no clock is kept,
so one that is switched on during an outage starts then.
**`LastKnownStays`**: an address is owned, wanted and published by the one
name that may resolve to it (`OwnerInv`), so its entry is among those that grace
keeps; and a name shown as failed has used up its window or owns nothing
(`FailedInv`). `OneOwner` is needed, as the entry of a shared address is recorded
for one of the names.

**`StoreSound`**: `StoreInv` is what makes concurrent saves atomic and durable. One
goroutine is in `saveConfig` at a time (`OneSaver`) and the store does not change
under it, so the copy it works on is made from what is still held (`Copies`); what
the two files and the durable directory hold is given by the step it is at
(`OnDisk`); and what a start would find, in the files or after a power failure,
is a configuration a start may take up: the last confirmed one, or one renamed
and not yet confirmed (`Found`). **`DiskAlwaysWhole`**, **`MemoryFollowsFile`** and
**`ConfirmedIsKept`** are read off it. **`ImplementsRegister`** maps the rename to the
register's `Apply`, the sync of the directory to `Settle`, the end of a request to
`Reply`, a kill or a power failure to `Stop`, an edit by hand to `Replace`, and
every other step to none. **`UsableAlways`** needs that no file written by hand lists
something twice in a rule (`HandTidy`), since `LoadConfig` keeps such a list;
**`HeldInForce`**, on floors and ranges, needs nothing. That the mutators keep a
list free of repetitions rests on removal being a filter; it is written as a
recursive function (`Kept`), and what is needed of it is proved by taking the
least position that breaks it.

**`LoopTypeCorrect`**, **`ChangesKept`**, **`PressesKept`**: the types of
`ReconcileLoop`, and that `NoChangeLost` and `NoPressLost` hold for any number of
handlers. The two are inductive relative to the types: every request leaves a
handler about to send, every send leaves the channel full, and the loop
empties it only on its way to a snapshot.

**`LoopImplementsBackend`**: `Spec => Outside!Spec`, step by step, from the
invariant that what was published is no newer than the last snapshot and the
snapshot no newer than the configuration.

**`TickerCorrect`**: while the loop waits its ticker has a positive period, which is
the stored interval's unless a wake-up is due, and the loop has rested as long as
the ticker has run. **`CyclesApart`** follows, and with `IntervalsFit` - no interval
is more than an int64 of nanoseconds, the wrap that `long_interval` runs
into - **`TickerFollowsStore`** and **`LoopLives`**. **`PressesTakenOnly`** needs the
types only.

**`PanelCorrect`**: every poll under way carries a number and a list that were
stored together, or was cut off (`PollInv`); what was stored stays stored
(`BackInv`); a save past the dialog that would empty the list leaves nothing
unasked (`PostInv`); and the page holds such a state or none (`PageInv`), for any
number of polls, changes, restarts and failures of the path. **`OnlyWhatWasStored`**
and **`EmptiedWithConsent`** are read off it; **`BannerNeedsCause`** and
**`OnlyWhatWasSaved`** hold of each step by what `apiError` makes of an answer.

**`StopIsConsistent`**, **`StopsClean`**, **`StopIsAnswered`**: the state of a
stop for every choice of times that satisfies `StopAssumption` - the timer
sleeps longer than a goroutine is late, and ends, lateness included, before
Zoraxy kills. `ClocksAgree` is the invariant: the SDK's timer was started
before the answer left, so it is ahead of Zoraxy's clock, and while the answer
is on its way the timer is no further than the handler is late. `StopsClean`
follows as a kill would need Zoraxy's clock, hence the timer, past what `Tick`
lets it reach; `StopIsAnswered` as the timer cannot be past `Slack` while the
answer is on its way. The assumption is what `main.go:97-103` measured.

**`FirstDefiniteAnswerDecides`**, **`NotFoundWasSaid`**: for any number of DNS
servers; the least number principle for the servers that answered is the one
lemma. **`FetchKeepsContract`**, **`FetchIsAllOrNothing`**: for any endpoints and
bodies; that the bodies' lines are finitely many makes the count of lines bound
the count of prefixes.

**`OverlapIsIntersection`**: two networks with a common address agree on the
fewer of their leading bits, so the one with fewer contains the other whole,
its own address included; the other direction needs only that a network
contains its own address. **`WhitelistTestsAreTheCodes`** lifts it to lists and
to `Whitelist`'s operators, so that the theorems on `Reconciler` speak of what
the code computes; **`SingleHostTestsAgree`** says that an address and its
single-host CIDR are refused together.

Only model-checked: liveness (`Converges`, `ChangesArePublished`,
`PressesAreTaken`, `FollowsChanges` for its fairness, `PanelCatchesUp`,
`BannerIsTrue`), which is out of the prover's reach. That the abstract
specifications' fairness is implemented is therefore shown on instances only.
The counterexamples of the four runs that expect a violation are TLC's.

## What is abstracted

* Addresses, names and provider ids are model values; a CIDR is the set of hosts
  it covers; error texts are not modelled. A whitelist entry that is neither an
  address nor a CIDR (a wildcard, which only an administrator writes) is left
  out: the code never touches it.
* A result is abstracted to the state of each source's row.
* An entry is identified by the hosts it covers, while the code compares texts
  (`reconciler.go:66-86`): two spellings of one IPv6 prefix, or a CIDR with host
  bits set and the one without, are two entries to the code and one to the model.
* A name or a provider occurs once in a rule and a rule once in a configuration,
  which the panel guarantees; a configuration edited by hand may do otherwise,
  and is listed as a hazard.
* Networks written as an IPv4 address inside IPv6 do not occur.
* A save of the panel is modelled for the never-authorise list; the other
  settings and the rows' buttons are the same without dialog and parsing.
* Zoraxy is external: it lists, writes and deletes single entries, an add
  replaces the comment of an entry it has, and it matches addresses as the
  comment on `toCIDR` says.
* The system clock does not go backwards.

## Not modelled

* `license.go` and the SDK's file server serve embedded files and keep no state.
* The drawing of the panel, its dropdowns, its table and the height of its frame
  (`app.js` from 91 on, but for the polls and the settings) are presentation.
* The encoding of requests, the default port of a DNS server and the wording of
  errors.

## The plan

Built in this order: `Whitelist` and `Reconciler` with their runs and proofs
(the core), `ConfigStore` and its abstract register, `ReconcileLoop`, then
`Backend`, `Sources`, `Networks`, `Lifecycle` and `Panel`. Left:

1. **Ownership**, an abstract specification of the whitelist - entries of
   administrators, entries of the plugin, what may become what - that
   `Reconciler` implements.
2. **Plugin**, the composition of store, loop and reconciler: when a shortened
   provider interval takes effect, and what a press within the floor may expect.
