------------------------------ MODULE Reconciler ------------------------------
(***************************************************************************)
(* The reconciler (src/reconciler.go): one cycle lists the whitelist of    *)
(* each configured access rule, asks DNS and the provider lists what it    *)
(* should hold, adds what is missing and removes what it owns and no       *)
(* longer wants.                                                           *)
(*                                                                         *)
(* The whitelist lives in Zoraxy.  An administrator edits it while a cycle *)
(* runs, every call may fail, and an add may take effect although the      *)
(* plugin sees an error.  Each call of the plugin is an action; between    *)
(* any two of them time may pass, an administrator may edit or the process *)
(* may be restarted, which loses everything but the whitelist.             *)
(*                                                                         *)
(* Times are kept as ages and countdowns that stop at a bound, so that a   *)
(* run is not bounded in length.                                           *)
(***************************************************************************)
EXTENDS Sources, Integers

CONSTANTS
    Fqdn, Provider,  \* the two kinds of owner an entry can name
    Known,           \* the providers in KnownProviders
    RuleId,
    Configs,         \* the configurations a cycle may be given
    Outcomes,        \* Outcomes[f]: what a lookup of f may return, faults aside
    Lists,           \* what a provider's endpoints may publish
    InitialLists,    \* the whitelists the plugin may find at its first start
    None, Admin,     \* no entry or no owner; an entry without the marker
    Retry,           \* providerRetryInterval, in ticks
    Floor,           \* providerForceFloor, in ticks
    MaxAge,          \* where ages and countdowns stop
    MaxFaults,       \* how many faults a behaviour contains, except ...
    Free             \* ... faults of these kinds, which are not counted

Source == Fqdn \cup Provider
Comment == Source \cup {Admin, None}

FaultKind == {"list", "write", "dns", "fetch", "edit", "restart"}

RuleConfig == [id : RuleId, fqdns : Seq(Fqdn), providers : Seq(Provider)]
Config == [rules : Seq(RuleConfig), grace : 0..MaxAge, blocked : SUBSET Host,
           period : 1..MaxAge]

ASSUME SourceAssumption ==
    /\ Fqdn \cap Provider = {}   \* TestProviderIDsAreNotValidFQDNs
    /\ Known \subseteq Provider
    /\ None \notin Source /\ Admin \notin Source /\ None # Admin

ASSUME TimeAssumption ==
    /\ MaxAge \in Nat /\ Retry \in 1..MaxAge /\ Floor \in 1..MaxAge
    /\ MaxFaults \in Nat
    /\ Free \subseteq FaultKind

ASSUME InputAssumption ==
    /\ Configs \subseteq Config
    /\ Outcomes \in [Fqdn -> SUBSET Answer]
    /\ Lists \subseteq SUBSET Prefix
    /\ InitialLists \subseteq [RuleId -> [Key -> Comment]]

VARIABLES
    wl,          \* wl[r][k]: the comment of entry k in rule r, None if absent
    failing,     \* failingSince, as the age of the outage; NotFailing if unset
    prov,        \* providers: schedule and cache per provider
    forceAge,    \* time since lastForced, up to Floor
    forced,      \* forceThisCycle
    cfg,         \* the snapshot this cycle was given
    pc, ri,      \* where the cycle is, and at which of cfg.rules
    todo,        \* sources the current pass has still to visit
    entries,     \* the list Zoraxy answered
    managed,     \* for each canonical form owned, the entry as stored
    desired,     \* desired[p]: the source that wants p, None if nobody does
    adding,      \* desired forms still to be added
    authorised,  \* forms known to be in the whitelist
    removing,    \* owned entries still to be removed
    errs,        \* entries whose add or remove reported an error
    report,      \* the row of each source in the published result
    edited,      \* entries edited by somebody else since the list was read
    faults       \* faults so far

memoryVars == <<failing, prov, forceAge, forced>>
passVars == <<entries, managed, desired, adding, authorised, removing, errs, report>>
vars == <<wl, memoryVars, cfg, pc, ri, todo, passVars, edited, faults>>

NotFailing == -1
\* What a source's row in the published result can say.
Row == {"none", "ok", "offline", "notfound", "grace", "failed", "stale", "blocked"}
NoEntries == [k \in Key |-> None]
NoDesired == [p \in Prefix |-> None]
NoReport == [s \in Source |-> "none"]
NoConfig == [rules |-> <<>>, grace |-> 0, blocked |-> {}, period |-> 1]

\* The schedule and cache of a provider.  forcedSeen says that lastForcedSeen is
\* not before lastForced; the zero value is due at once and never forced.
ProviderState == [prefixes : SUBSET Prefix, due : 0..MaxAge,
                  err : BOOLEAN, forcedSeen : BOOLEAN]
NewProviderState ==
    [prefixes |-> {}, due |-> 0, err |-> FALSE, forcedSeen |-> FALSE]

Rule == cfg.rules[ri]

\* A fault happens now: it is counted unless its kind is free.
Fault(kind) ==
    IF kind \in Free THEN UNCHANGED faults
    ELSE faults < MaxFaults /\ faults' = faults + 1

-------------------------------------------------------------------------------
(* What the list that was read says.                                         *)

\* Variant: an administrator's entry is recognised in CIDR form only.
AdminPresentExact == {canonicalEntry(k) : k \in {j \in Key : entries[j] = Admin /\ j.form = "cidr"}}

AdminPresent == {canonicalEntry(k) : k \in {j \in Key : entries[j] = Admin}}
OwnedBy(s) == {canonicalEntry(k) : k \in {j \in Key : entries[j] = s}}
Owned(w) == {k \in Key : w[k] \in Source}

\* managed[canonical] is the entry listed last; the order of a list is Zoraxy's.
ManagedChoices(w) ==
    {m \in SUBSET Owned(w) :
        \A k \in Owned(w) : \E j \in m :
            /\ canonicalEntry(j) = canonicalEntry(k)
            /\ \A i \in m : canonicalEntry(i) = canonicalEntry(k) => i = j}

-------------------------------------------------------------------------------
Init ==
    /\ wl \in InitialLists
    /\ failing = [f \in Fqdn |-> NotFailing]
    /\ prov = [id \in Provider |-> NewProviderState]
    /\ forceAge = Floor /\ forced = FALSE
    /\ cfg = NoConfig /\ pc = "idle" /\ ri = 0 /\ todo = <<>>
    /\ entries = NoEntries /\ managed = {} /\ desired = NoDesired
    /\ adding = {} /\ authorised = {} /\ removing = {} /\ errs = {}
    /\ report = NoReport /\ edited = {} /\ faults = 0

\* The locals of Rule are gone when it returns.
ClearPass ==
    /\ todo' = <<>> /\ entries' = NoEntries /\ managed' = {}
    /\ desired' = NoDesired /\ adding' = {} /\ authorised' = {}
    /\ removing' = {} /\ errs' = {} /\ report' = NoReport /\ edited' = {}

\* Variant: one rule too many.
NextRulePastEnd ==
    /\ ClearPass
    /\ IF ri <= Len(cfg.rules) THEN pc' = "list" /\ ri' = ri + 1
                               ELSE pc' = "forget" /\ ri' = 0
    /\ UNCHANGED cfg

NextRule ==
    /\ ClearPass
    /\ IF ri < Len(cfg.rules) THEN pc' = "list" /\ ri' = ri + 1
                              ELSE pc' = "forget" /\ ri' = 0
    /\ UNCHANGED cfg

\* Variant: the failure clocks do not outlive a cycle.
StartCycleAnew(c, force) ==
    /\ pc = "idle"
    /\ cfg' = c
    /\ forced' = (force /\ forceAge >= Floor)
    /\ forceAge' = IF forced' THEN 0 ELSE forceAge
    /\ failing' = [f \in Fqdn |-> NotFailing]
    /\ IF c.rules = <<>> THEN pc' = "forget" /\ ri' = 0
                         ELSE pc' = "list" /\ ri' = 1
    /\ UNCHANGED <<wl, prov, todo, passVars, edited, faults>>

\* All(cfg, force): a press is honoured at most once per Floor.
StartCycle(c, force) ==
    /\ pc = "idle"
    /\ cfg' = c
    /\ forced' = (force /\ forceAge >= Floor)
    /\ forceAge' = IF forced' THEN 0 ELSE forceAge
    /\ prov' = IF forced'
               THEN [id \in Provider |-> [prov[id] EXCEPT !.forcedSeen = FALSE]]
               ELSE prov
    /\ IF c.rules = <<>> THEN pc' = "forget" /\ ri' = 0
                         ELSE pc' = "list" /\ ri' = 1
    /\ UNCHANGED <<wl, failing, todo, passVars, edited, faults>>

ListRule ==
    /\ pc = "list"
    /\ entries' = wl[Rule.id]
    /\ managed' \in ManagedChoices(wl[Rule.id])
    /\ todo' = Rule.fqdns
    /\ pc' = "fqdns"
    /\ UNCHANGED <<wl, memoryVars, cfg, ri, desired, adding, authorised,
                   removing, errs, report, edited, faults>>

ListFails ==
    /\ pc = "list"
    /\ Fault("list")
    /\ NextRule
    /\ UNCHANGED <<wl, memoryVars>>

-------------------------------------------------------------------------------
(* The FQDN pass.                                                            *)

\* First provenance wins.
Claim(d, prefixes, s) ==
    [p \in Prefix |-> IF p \in prefixes /\ d[p] = None THEN s ELSE d[p]]

\* The age of f's outage, started by this failure if none is recorded.
Outage(f) == IF failing[f] = NotFailing THEN 0 ELSE failing[f]

graceLeft(f) == cfg.grace > 0 /\ cfg.grace - Outage(f) > 0

ResolveSucceeds(f, ips) ==
    LET routable == {h \in ips : ~Contains(cfg.blocked, h)}
    IN  /\ failing' = [failing EXCEPT ![f] = NotFailing]
        /\ desired' = Claim(desired, {toCIDR(h) : h \in routable}, f)
        /\ report' = [report EXCEPT ![f] = IF routable = {} THEN "offline" ELSE "ok"]

ResolveNotFound(f) ==
    /\ failing' = [failing EXCEPT ![f] = NotFailing]
    /\ report' = [report EXCEPT ![f] = "notfound"]
    /\ UNCHANGED desired

\* Variant: grace is reported and nothing is kept.
ResolveFailsKeepingNothing(f) ==
    LET kept == keepableOwned(cfg.blocked, OwnedBy(f))
    IN  /\ failing' = IF cfg.grace > 0 THEN [failing EXCEPT ![f] = Outage(f)]
                      ELSE failing
        /\ report' = [report EXCEPT ![f] = IF graceLeft(f) /\ kept # {} THEN "grace" ELSE "failed"]
        /\ UNCHANGED desired

ResolveFails(f) ==
    LET kept == keepableOwned(cfg.blocked, OwnedBy(f))
        keep == graceLeft(f) /\ kept # {}
    IN  /\ failing' = IF cfg.grace > 0 THEN [failing EXCEPT ![f] = Outage(f)]
                      ELSE failing
        /\ desired' = IF keep THEN Claim(desired, kept, f) ELSE desired
        /\ report' = [report EXCEPT ![f] = IF keep THEN "grace" ELSE "failed"]

ResolveFqdn(f, a) ==
    /\ pc = "fqdns" /\ todo # <<>> /\ f = Head(todo)
    /\ IF a \in Outcomes[f] THEN UNCHANGED faults
       ELSE a = Failure /\ Fault("dns")
    /\ CASE a.kind = "ok" -> ResolveSucceeds(f, a.ips)
         [] a.kind = "notfound" -> ResolveNotFound(f)
         [] a.kind = "fail" -> ResolveFails(f)
    /\ todo' = Tail(todo)
    /\ UNCHANGED <<wl, prov, forceAge, forced, cfg, pc, ri, entries, managed,
                   adding, authorised, removing, errs, edited>>

FqdnsDone ==
    /\ pc = "fqdns" /\ todo = <<>>
    /\ todo' = Rule.providers
    /\ pc' = "providers"
    /\ UNCHANGED <<wl, memoryVars, cfg, ri, passVars, edited, faults>>

-------------------------------------------------------------------------------
(* The provider pass.                                                        *)

shouldAttempt(id) == (forced /\ ~prov[id].forcedSeen) \/ prov[id].due = 0

\* How the panel shows a ProviderStatus: blocked, its error, its prefixes.
ProviderRow(rejected, err, prefixes) ==
    IF rejected THEN "blocked"
    ELSE IF ~err THEN "ok"
    ELSE IF prefixes # {} THEN "stale" ELSE "failed"

\* Variant: a cache is not tested again after its fetch.
AuthoriseUntested(id, st) ==
    LET ranges == IF st.prefixes = {} THEN keepableOwned(cfg.blocked, OwnedBy(id))
                  ELSE st.prefixes
    IN  /\ prov' = [prov EXCEPT ![id] = st]
        /\ desired' = Claim(desired, ranges, id)
        /\ report' = [report EXCEPT ![id] = ProviderRow(FALSE, st.err, ranges)]
        /\ todo' = Tail(todo)
        /\ pc' = "providers"

\* Variant: of a rejected cache, the ranges that are not blocked are used.
AuthoriseFiltered(id, st) ==
    LET rejected == ~validateAgainstUnroutable(st.prefixes, cfg.blocked)
        usable   == {p \in st.prefixes : ~Overlaps(cfg.blocked, p)}
        ranges   == IF st.prefixes = {} THEN keepableOwned(cfg.blocked, OwnedBy(id))
                    ELSE usable
    IN  /\ prov' = [prov EXCEPT ![id] = st]
        /\ desired' = Claim(desired, ranges, id)
        /\ report' = [report EXCEPT ![id] = ProviderRow(rejected, st.err, ranges)]
        /\ todo' = Tail(todo)
        /\ pc' = "providers"

\* What is authorised on the strength of provider state st: the cache if it
\* passes the never-authorise list, else the entries the provider owns.
Authorise(id, st) ==
    LET rejected == ~validateAgainstUnroutable(st.prefixes, cfg.blocked)
        cached   == IF rejected THEN {} ELSE st.prefixes
        ranges   == IF cached = {} THEN keepableOwned(cfg.blocked, OwnedBy(id))
                    ELSE cached
    IN  /\ prov' = [prov EXCEPT ![id] = st]
        /\ desired' = Claim(desired, ranges, id)
        /\ report' = [report EXCEPT ![id] = ProviderRow(rejected, st.err, ranges)]
        /\ todo' = Tail(todo)
        /\ pc' = "providers"

providerRest == <<wl, failing, forceAge, forced, cfg, ri, entries, managed,
                  adding, authorised, removing, errs, edited>>

\* An unknown provider is a failed fetch that nobody attempts.
UseWithoutFetch(id) ==
    /\ pc = "providers" /\ todo # <<>> /\ id = Head(todo)
    /\ id \notin Known \/ ~shouldAttempt(id)
    /\ Authorise(id, IF id \in Known THEN prov[id]
                     ELSE [prov[id] EXCEPT !.err = TRUE])
    /\ UNCHANGED <<providerRest, faults>>

\* Variant: a forced fetch is not remembered for the rest of the cycle.
BeginFetchUnstamped(id) ==
    /\ pc = "providers" /\ todo # <<>> /\ id = Head(todo)
    /\ id \in Known /\ shouldAttempt(id)
    /\ pc' = "fetch"
    /\ UNCHANGED <<providerRest, prov, todo, desired, report, faults>>

BeginFetch(id) ==
    /\ pc = "providers" /\ todo # <<>> /\ id = Head(todo)
    /\ id \in Known /\ shouldAttempt(id)
    /\ prov' = [prov EXCEPT ![id].forcedSeen = @ \/ forced]
    /\ pc' = "fetch"
    /\ UNCHANGED <<providerRest, todo, desired, report, faults>>

Acceptable(list) ==
    /\ list # {}
    /\ checkPrefixList(list)
    /\ validateAgainstUnroutable(list, cfg.blocked)

Fetched(st, list) == [st EXCEPT !.prefixes = list, !.err = FALSE, !.due = cfg.period]
FetchFailed(st) == [st EXCEPT !.err = TRUE, !.due = Retry]

FetchReturns(id, list) ==
    /\ pc = "fetch" /\ id = Head(todo)
    /\ Authorise(id, IF Acceptable(list) THEN Fetched(prov[id], list)
                     ELSE FetchFailed(prov[id]))
    /\ UNCHANGED <<providerRest, faults>>

FetchFails(id) ==
    /\ pc = "fetch" /\ id = Head(todo)
    /\ Fault("fetch")
    /\ Authorise(id, FetchFailed(prov[id]))
    /\ UNCHANGED providerRest

-------------------------------------------------------------------------------
(* 3a and 3b: adds, then removes, each in the order of a Go map.             *)

BeginAdds ==
    LET wanted  == {p \in Prefix : desired[p] # None}
        already == {p \in wanted : p \in AdminPresent \/ Cidr(p) \in managed}
    IN  /\ pc = "providers" /\ todo = <<>>
        /\ authorised' = already
        /\ adding' = wanted \ already
        /\ pc' = "adds"
        /\ UNCHANGED <<wl, memoryVars, cfg, ri, todo, entries, managed, desired,
                       removing, errs, report, edited, faults>>

\* Zoraxy overwrites the comment of an entry it already has.
Put(k, comment) == wl' = [wl EXCEPT ![Rule.id][k] = comment]

AddEntry(p) ==
    /\ pc = "adds" /\ p \in adding
    /\ Put(Cidr(p), desired[p])
    /\ adding' = adding \ {p}
    /\ authorised' = authorised \cup {p}
    /\ UNCHANGED <<memoryVars, cfg, pc, ri, todo, entries, managed, desired,
                   removing, errs, report, edited, faults>>

\* Variant: a failed add is recorded as authorised.
AddFailsAuthorised(p) ==
    /\ pc = "adds" /\ p \in adding
    /\ Fault("write")
    /\ UNCHANGED wl \/ Put(Cidr(p), desired[p])
    /\ adding' = adding \ {p}
    /\ authorised' = authorised \cup {p}
    /\ errs' = errs \cup {Cidr(p)}
    /\ UNCHANGED <<memoryVars, cfg, pc, ri, todo, entries, managed, desired,
                   removing, report, edited>>

\* The call reports an error; whether it took effect is not known.
AddFails(p) ==
    /\ pc = "adds" /\ p \in adding
    /\ Fault("write")
    /\ UNCHANGED wl \/ Put(Cidr(p), desired[p])
    /\ adding' = adding \ {p}
    /\ errs' = errs \cup {Cidr(p)}
    /\ UNCHANGED <<memoryVars, cfg, pc, ri, todo, entries, managed, desired,
                   authorised, removing, report, edited>>

\* Variant: a legacy entry goes whether or not its replacement is in place.
ObsoleteRegardless(k) ==
    desired[canonicalEntry(k)] = None \/ k # Cidr(canonicalEntry(k))

\* Variant: only legacy entries go.
ObsoleteIfLegacy(k) ==
    k # Cidr(canonicalEntry(k)) /\ canonicalEntry(k) \in authorised

\* An owned entry stays if it is wanted and stored in canonical form, or
\* wanted and its canonical replacement is not in place.
Obsolete(k) ==
    LET p == canonicalEntry(k)
    IN  desired[p] = None \/ (k # Cidr(p) /\ p \in authorised)

BeginRemoves ==
    /\ pc = "adds" /\ adding = {}
    /\ removing' = {k \in managed : Obsolete(k)}
    /\ pc' = "removes"
    /\ UNCHANGED <<wl, memoryVars, cfg, ri, todo, entries, managed, desired,
                   adding, authorised, errs, report, edited, faults>>

RemoveEntry(k) ==
    /\ pc = "removes" /\ k \in removing
    /\ Put(k, None)
    /\ removing' = removing \ {k}
    /\ UNCHANGED <<memoryVars, cfg, pc, ri, todo, entries, managed, desired,
                   adding, authorised, errs, report, edited, faults>>

RemoveFails(k) ==
    /\ pc = "removes" /\ k \in removing
    /\ Fault("write")
    /\ UNCHANGED wl \/ Put(k, None)
    /\ removing' = removing \ {k}
    /\ errs' = errs \cup {k}
    /\ UNCHANGED <<memoryVars, cfg, pc, ri, todo, entries, managed, desired,
                   adding, authorised, report, edited>>

RuleReturns ==
    /\ pc = "removes" /\ removing = {}
    /\ NextRule
    /\ UNCHANGED <<wl, memoryVars, faults>>

\* All returns: what is no longer configured is forgotten.
FinishCycle ==
    LET configured == {s \in Source : \E i \in DOMAIN cfg.rules :
                          \/ \E j \in DOMAIN cfg.rules[i].fqdns :
                                 s = cfg.rules[i].fqdns[j]
                          \/ \E j \in DOMAIN cfg.rules[i].providers :
                                 s = cfg.rules[i].providers[j]}
    IN  /\ pc = "forget"
        /\ failing' = [f \in Fqdn |-> IF f \in configured THEN failing[f]
                                      ELSE NotFailing]
        /\ prov' = [id \in Provider |-> IF id \in configured THEN prov[id]
                                        ELSE NewProviderState]
        /\ pc' = "idle" /\ cfg' = NoConfig
        /\ UNCHANGED <<wl, forceAge, forced, ri, todo, passVars, edited, faults>>

-------------------------------------------------------------------------------
(* The environment: time, the administrator, the process.                    *)

Older(age, bound) == IF age < bound THEN age + 1 ELSE age

Tick ==
    /\ failing' = [f \in Fqdn |-> IF failing[f] = NotFailing THEN NotFailing
                                  ELSE Older(failing[f], MaxAge)]
    /\ prov' = [id \in Provider |-> [prov[id] EXCEPT !.due = IF @ > 0 THEN @ - 1 ELSE 0]]
    /\ forceAge' = Older(forceAge, Floor)
    /\ UNCHANGED <<wl, forced, cfg, pc, ri, todo, passVars, edited, faults>>

\* The administrator writes an entry of their own or deletes any entry.
AdminEdits(r, k, comment) ==
    /\ comment \in {Admin, None} /\ wl[r][k] # comment
    /\ Fault("edit")
    /\ wl' = [wl EXCEPT ![r][k] = comment]
    /\ edited' = IF ri > 0 /\ pc # "list" /\ Rule.id = r THEN edited \cup {k} ELSE edited
    /\ UNCHANGED <<memoryVars, cfg, pc, ri, todo, passVars>>

Restart ==
    /\ Fault("restart")
    /\ failing' = [f \in Fqdn |-> NotFailing]
    /\ prov' = [id \in Provider |-> NewProviderState]
    /\ forceAge' = Floor /\ forced' = FALSE
    /\ cfg' = NoConfig /\ pc' = "idle" /\ ri' = 0
    /\ ClearPass
    /\ UNCHANGED wl

-------------------------------------------------------------------------------
FqdnStep ==
    \E f \in Fqdn : \E a \in Outcomes[f] \cup {Failure} : ResolveFqdn(f, a)

ProviderStep ==
    \E id \in Provider :
        \/ UseWithoutFetch(id)
        \/ BeginFetch(id)
        \/ \E list \in Lists : FetchReturns(id, list)
        \/ FetchFails(id)

WriteStep ==
    \/ \E p \in Prefix : AddEntry(p) \/ AddFails(p)
    \/ \E k \in Key : RemoveEntry(k) \/ RemoveFails(k)

PluginStep ==
    \/ \E c \in Configs, force \in BOOLEAN : StartCycle(c, force)
    \/ ListRule \/ ListFails
    \/ FqdnStep \/ FqdnsDone
    \/ ProviderStep
    \/ BeginAdds \/ BeginRemoves \/ WriteStep
    \/ RuleReturns \/ FinishCycle

AdminStep ==
    \E r \in RuleId, k \in Key, comment \in {Admin, None} : AdminEdits(r, k, comment)

Next == PluginStep \/ Tick \/ AdminStep \/ Restart

Spec == Init /\ [][Next]_vars

\* The loop always runs its next step and time passes; what the administrator
\* does and whether the process restarts is up to nobody.
FairSpec == Spec /\ WF_vars(PluginStep) /\ WF_vars(Tick)

-------------------------------------------------------------------------------
(* Correctness.                                                              *)

\* The type invariant.
TypeOK ==
    /\ wl \in [RuleId -> [Key -> Comment]]
    /\ failing \in [Fqdn -> {NotFailing} \cup 0..MaxAge]
    /\ prov \in [Provider -> ProviderState]
    /\ forceAge \in 0..Floor /\ forced \in BOOLEAN
    /\ cfg \in Config
    /\ pc \in {"idle", "list", "fqdns", "providers", "fetch", "adds", "removes", "forget"}
    /\ ri \in 0..Len(cfg.rules)
    /\ pc \in {"idle", "forget"} <=> ri = 0
    /\ todo \in Seq(Source)
    /\ pc = "fetch" => todo # <<>>
    /\ entries \in [Key -> Comment]
    /\ managed \in SUBSET Key
    /\ desired \in [Prefix -> Source \cup {None}]
    /\ adding \in SUBSET Prefix /\ authorised \in SUBSET Prefix
    /\ removing \in SUBSET Key /\ errs \in SUBSET Key
    /\ report \in [Source -> Row]
    /\ edited \in SUBSET Key
    /\ faults \in 0..MaxFaults

Wanted(p) == desired[p] # None
Forms(p) == {k \in Key : canonicalEntry(k) = p}
PassEnds == pc = "removes" /\ removing = {}
IsConfigured(id) == \E i \in DOMAIN Rule.providers : Rule.providers[i] = id

\* w lets the addresses of p in by an entry of its own.
Admits(w, p) == \E k \in Forms(p) : w[k] # None /\ \A h \in p : Matches(k, h)

\* The plugin deletes entry k in this step.
Deletes(k) == wl[Rule.id][k] # None /\ wl'[Rule.id][k] = None

\* No address or prefix that touches the never-authorise list is ever wanted,
\* so none is ever added, whichever of its ways in it takes: a resolved
\* address, one kept by grace, a fetched list, a cache fetched before the
\* operator extended the list, or an entry a provider already owns.
NeverWantsBlocked ==
    \A p \in Prefix : Wanted(p) => ~Overlaps(cfg.blocked, p)

\* The plugin writes or deletes only entries that were its own, or free, when
\* it read the list, and writes none beside what was then an administrator's
\* entry for the same authorisation, in whichever form that one is stored.  A
\* form that was free then and is an administrator's by the time of the write
\* is outside this: that is AdminEntriesKept, which the code does not keep.
TouchesOnlyItsOwn ==
    [][WriteStep => \A k \in Key : wl[Rule.id][k] # wl'[Rule.id][k] =>
          /\ entries[k] # Admin
          /\ wl'[Rule.id][k] # None =>
                \A j \in Forms(canonicalEntry(k)) : entries[j] # Admin]_vars

\* "Entries added by an administrator are never modified or removed."
AdminEntriesKept ==
    [][WriteStep => \A k \in Key : wl[Rule.id][k] = Admin => wl'[Rule.id][k] = Admin]_vars

\* Migrating an entry to its CIDR form, or failing to, never takes away an
\* access the pass itself wants: what admitted a wanted prefix still admits it
\* after the step, unless somebody else edited its entries meanwhile.
NeverLocksOut ==
    [][WriteStep => \A p \in Prefix :
          /\ Wanted(p)
          /\ Forms(p) \cap edited = {}
          /\ Admits(wl[Rule.id], p)
          => Admits(wl'[Rule.id], p)]_vars

\* An unblocked range a configured provider owns loses its entry only if the
\* list cached for that provider leaves it out and still passes the
\* never-authorise list; no failed fetch, refused list, restart or cache that
\* a longer never-authorise list has come to reject takes one away
\* (reconciler.go:375-405).  An entry in legacy form may also go when its CIDR
\* is there.
ProviderNeverRevokes ==
    [][WriteStep => \A k \in Key, id \in Provider :
          LET p == canonicalEntry(k) IN
          /\ Deletes(k) /\ entries[k] = id /\ IsConfigured(id)
          /\ ~Overlaps(cfg.blocked, p) /\ Forms(p) \cap edited = {}
          => \/ /\ prov[id].prefixes # {} /\ p \notin prov[id].prefixes
                /\ validateAgainstUnroutable(prov[id].prefixes, cfg.blocked)
             \/ k # Cidr(p) /\ wl[Rule.id][Cidr(p)] # None]_vars

\* While a name is shown in grace, no entry owned for it is deleted unless it
\* is on the never-authorise list or its CIDR form is there.
GraceProtects ==
    [][WriteStep => \A k \in Key, f \in Fqdn :
          LET p == canonicalEntry(k) IN
          /\ Deletes(k) /\ entries[k] = f /\ report[f] = "grace"
          /\ ~Overlaps(cfg.blocked, p) /\ Forms(p) \cap edited = {}
          => k # Cidr(p) /\ wl[Rule.id][Cidr(p)] # None]_vars

\* Both forms of p were owned when the list was read.
Twin(p) == Cardinality({k \in Forms(p) : entries[k] \in Source}) > 1

\* A pass in which no call failed leaves the rule exact: it owns nothing that
\* is not wanted, nothing in legacy form, and everything wanted is there as
\* its own entry or as an administrator's.  Prefixes edited meanwhile are
\* outside this, and those that were listed in both forms.
PassExact ==
    PassEnds /\ errs = {} => \A p \in Prefix :
        Forms(p) \cap edited = {} =>
            /\ Wanted(p) => p \in AdminPresent \/ wl[Rule.id][Cidr(p)] \in Source
            /\ ~Twin(p) => \A k \in Forms(p) :
                   wl[Rule.id][k] \in Source => k = Cidr(p) /\ Wanted(p)

\* "a published provider prefix that overlaps one is refused and removed on
\* the next cycle, which the panel marks blocked"
RevocationShownAsBlocked ==
    [][WriteStep => \A k \in Key, id \in Provider :
          /\ Deletes(k) /\ entries[k] = id /\ IsConfigured(id)
          /\ Overlaps(cfg.blocked, canonicalEntry(k))
          => report[id] = "blocked"]_vars

-------------------------------------------------------------------------------
(* The inductive invariant behind NeverWantsBlocked, TouchesOnlyItsOwn and   *)
(* NeverLocksOut.                                                            *)

Reading == pc \in {"fqdns", "providers", "fetch"}

HoldsNothing ==
    /\ pc \in {"idle", "list", "forget"} => desired = NoDesired /\ managed = {}
    /\ pc \notin {"adds", "removes"} => adding = {} /\ authorised = {}
    /\ pc # "removes" => removing = {}

ListIsCurrent ==
    Reading => \A k \in Key : k \in edited \/ wl[Rule.id][k] = entries[k]

HoldsItsOwn ==
    /\ managed \subseteq Owned(entries)
    /\ removing \subseteq managed
    /\ \A p \in adding : Wanted(p) /\ p \notin AdminPresent

AuthorisedHolds ==
    \A p \in authorised :
        /\ Wanted(p)
        /\ \/ Cidr(p) \in edited
           \/ wl[Rule.id][Cidr(p)] # None
           \/ \E h \in Host : p = {h} /\ entries[Bare(h)] = Admin

RemovesObsolete == \A k \in removing : Obsolete(k)

\* What a pass knows at each point: the list it read still holds but for the
\* entries edited since, it is about to touch only its own, a form recorded as
\* authorised is in the whitelist, and nothing on the never-authorise list is
\* wanted.
PassInv ==
    /\ HoldsNothing
    /\ NeverWantsBlocked
    /\ ListIsCurrent
    /\ HoldsItsOwn
    /\ AuthorisedHolds
    /\ RemovesObsolete
===============================================================================
