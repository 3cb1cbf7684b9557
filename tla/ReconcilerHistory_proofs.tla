----------------------- MODULE ReconcilerHistory_proofs -----------------------
(***************************************************************************)
(* What holds over several cycles: a provider is not asked more often than *)
(* it should be, the grace window ends, and it protects the addresses that *)
(* a name was last known to have.                                          *)
(***************************************************************************)
EXTENDS ReconcilerHistory, Reconciler_proofs

-------------------------------------------------------------------------------
(* The invariants.                                                           *)

\* The history variables keep their types, and a cycle runs with one of the
\* configurations it may be given.
HistoryInv ==
    /\ lastKnown \in [Fqdn -> SUBSET Host]
    /\ outage \in [RuleId -> [Fqdn -> {NotFailing} \cup 0..MaxAge]]
    /\ fetchLog \in [Provider -> [ago : 0..Retry, thisCycle : BOOLEAN]]
    /\ pc # "idle" => cfg \in Configs
    /\ pc = "fqdns" => \A j \in DOMAIN todo : \E i \in DOMAIN Rule.fqdns :
                           Rule.fqdns[i] = todo[j]

\* A fetch forced in this cycle is remembered, and the next attempt is not due
\* before the retry interval has passed, unless the fetch is under way.
PoliteInv ==
    \A id \in Provider :
        /\ forced /\ fetchLog[id].thisCycle => prov[id].forcedSeen
        /\ \/ pc = "fetch" /\ id = Head(todo)
           \/ prov[id].due + fetchLog[id].ago >= Retry

\* Some configuration has name n in rule r.
InRule(r, n) ==
    \E c \in Configs : \E i \in DOMAIN c.rules :
        /\ c.rules[i].id = r
        /\ \E j \in DOMAIN c.rules[i].fqdns : c.rules[i].fqdns[j] = n

\* The clock of a name is the age of the outage its rule has seen.
ClockInv == \A r \in RuleId, n \in Fqdn : InRule(r, n) => outage[r][n] = failing[n]

\* The addresses a lookup of n may return.
Reach(n) == UNION {a.ips : a \in Outcomes[n]}

\* Nobody but n owns, wants or publishes an address that n may have.
OwnerInv ==
    \A n \in Fqdn :
        /\ lastKnown[n] \subseteq Reach(n)
        /\ \A h \in Reach(n) :
             /\ desired[{h}] \in {n, None}
             /\ \A id \in Provider : {h} \notin prov[id].prefixes
             /\ \A k \in Key : canonicalEntry(k) = {h} =>
                  /\ entries[k] \in {n, Admin, None}
                  /\ \A r \in RuleId : wl[r][k] \in {n, Admin, None}

\* A name shown as failed has used up its window, or owns nothing to keep.
FailedInv ==
    \A n \in Fqdn : report[n] = "failed" =>
        /\ cfg.grace > 0
        /\ \/ failing[n] >= cfg.grace
           \/ keepableOwned(cfg.blocked, OwnedBy(n)) = {}

-------------------------------------------------------------------------------
(* The history variables only observe.                                       *)

\* A step with history is a step of the reconciler.
LEMMA ObservedNext == [HNext]_hvars => [Next]_vars
<1>1. HNext => Next
  BY DEF HNext, HStart, HResolve, HFetch, HFinish, HTick, HRestart,
         Next, PluginStep, FqdnStep, ProviderStep
<1>2. UNCHANGED hvars => UNCHANGED vars
  BY DEF hvars
<1>. QED  BY <1>1, <1>2

\* Whatever is proved of the reconciler holds with the history variables.
THEOREM HistoryObserves == HSpec => Spec
<1>1. HInit => Init
  BY DEF HInit
<1>. QED  BY <1>1, ObservedNext, PTL DEF HSpec, Spec

\* A step either is between passes, or leaves the configuration and the rule at
\* hand alone; a name visited is one of the rule's.
LEMMA CycleConfigured ==
  ASSUME TypeOK, HistoryInv, [Next]_vars
  PROVE  /\ pc' # "idle" => cfg' \in Configs
         /\ pc' = "fqdns" => \A j \in DOMAIN todo' : \E i \in DOMAIN Rule'.fqdns :
                                 Rule'.fqdns[i] = todo'[j]
<1>1. CASE FinishCycle \/ Restart \/ \E c \in Configs, force \in BOOLEAN : StartCycle(c, force)
  BY <1>1 DEF FinishCycle, Restart, StartCycle
<1>2. CASE ListRule
  <2>1. Rule' = Rule
    BY <1>2 DEF ListRule, Rule
  <2>. QED  BY <1>2, <2>1 DEF ListRule, HistoryInv
<1>3. CASE FqdnStep
  <2>1. PICK n \in Fqdn : \E a \in Outcomes[n] \cup {Failure} : ResolveFqdn(n, a)
    BY <1>3 DEF FqdnStep
  <2>2. /\ pc = "fqdns" /\ todo # <<>> /\ todo' = Tail(todo)
        /\ UNCHANGED <<cfg, ri>> /\ Rule' = Rule
    BY <2>1 DEF ResolveFqdn, Rule
  <2>3. \A j \in DOMAIN todo' : j + 1 \in DOMAIN todo /\ todo'[j] = todo[j + 1]
    BY <2>2 DEF TypeOK
  <2>. QED  BY <2>2, <2>3 DEF HistoryInv
<1>4. CASE \/ ListFails \/ RuleReturns \/ FqdnsDone \/ ProviderStep
           \/ BeginAdds \/ BeginRemoves \/ WriteStep
  <2>1. pc # "idle" /\ pc' # "fqdns" /\ cfg' = cfg
    <3>1. CASE ProviderStep
      <4>1. pc \in {"providers", "fetch"} /\ cfg' = cfg
        BY <3>1 DEF ProviderStep, UseWithoutFetch, BeginFetch, FetchReturns, FetchFails,
                    providerRest
      <4>2. pc' = "fetch" \/ \E id \in Provider : \E st : Authorise(id, st)
        BY <3>1 DEF ProviderStep, UseWithoutFetch, BeginFetch, FetchReturns, FetchFails
      <4>3. pc' \in {"fetch", "providers"}
        BY <4>2 DEF Authorise
      <4>. QED  BY <4>1, <4>3
    <3>2. CASE WriteStep \/ BeginAdds \/ BeginRemoves
      BY <3>2 DEF WriteStep, AddEntry, AddFails, RemoveEntry, RemoveFails, BeginAdds, BeginRemoves
    <3>3. CASE ListFails \/ RuleReturns \/ FqdnsDone
      BY <3>3 DEF ListFails, RuleReturns, FqdnsDone, NextRule
    <3>. QED  BY <1>4, <3>1, <3>2, <3>3
  <2>. QED  BY <2>1 DEF HistoryInv
<1>5. CASE Tick \/ AdminStep \/ UNCHANGED vars
  <2>1. UNCHANGED <<pc, cfg, ri, todo>> /\ Rule' = Rule
    BY <1>5 DEF Tick, AdminStep, AdminEdits, vars, Rule
  <2>. QED  BY <2>1 DEF HistoryInv
<1>. QED  BY <1>1, <1>2, <1>3, <1>4, <1>5 DEF Next, PluginStep

\* Ages stop at their bounds.
LEMMA OlderBounded ==
  ASSUME NEW bound \in Nat, NEW age \in 0..bound
  PROVE  Older(age, bound) \in 0..bound /\ Older(age, bound) >= age
  BY DEF Older

\* What is observed keeps its type.
LEMMA HistoryType ==
  ASSUME TypeOK, HistoryInv, HNext
  PROVE  /\ lastKnown' \in [Fqdn -> SUBSET Host]
         /\ outage' \in [RuleId -> [Fqdn -> {NotFailing} \cup 0..MaxAge]]
         /\ fetchLog' \in [Provider -> [ago : 0..Retry, thisCycle : BOOLEAN]]
<1>. DEFINE Ages == {NotFailing} \cup 0..MaxAge
            Log  == [ago : 0..Retry, thisCycle : BOOLEAN]
<1>1. 0 \in 0..MaxAge /\ NotFailing \in Ages /\ Retry \in Nat /\ MaxAge \in Nat
      /\ NotFetched \in Log
  BY TimeAssumption DEF NotFetched
<1>. HIDE DEF Ages
<1>2. /\ lastKnown \in [Fqdn -> SUBSET Host] /\ outage \in [RuleId -> [Fqdn -> Ages]]
      /\ fetchLog \in [Provider -> Log]
  BY DEF HistoryInv, Ages
<1>3. SUFFICES /\ lastKnown' \in [Fqdn -> SUBSET Host]
               /\ outage' \in [RuleId -> [Fqdn -> Ages]]
               /\ fetchLog' \in [Provider -> Log]
  BY DEF Ages
<1>4. CASE UNCHANGED history
  BY <1>2, <1>4 DEF history
<1>5. ASSUME NEW c \in Configs, NEW force \in BOOLEAN, HStart(c, force)
      PROVE  /\ UNCHANGED <<lastKnown, outage>> /\ fetchLog' \in [Provider -> Log]
  BY <1>2, <1>5 DEF HStart
<1>6. ASSUME NEW n \in Fqdn, NEW a \in Outcomes[n] \cup {Failure}, HResolve(n, a)
      PROVE  /\ lastKnown' \in [Fqdn -> SUBSET Host] /\ outage' \in [RuleId -> [Fqdn -> Ages]]
             /\ UNCHANGED fetchLog
  <2>1. a.ips \ cfg.blocked \in SUBSET Host
    BY InputAssumption DEF Answer, Failure
  <2>2. lastKnown' \in [Fqdn -> SUBSET Host]
    BY <1>2, <1>6, <2>1 DEF HResolve
  <2>3. Rule.id \in RuleId
    BY <1>6, RuleType DEF HResolve, ResolveFqdn, TypeOK, RuleConfig
  <2>4. PICK age \in Ages : outage' = [outage EXCEPT ![Rule.id][n] = age]
    <3>1. outage[Rule.id][n] \in Ages /\ 0 \in Ages
      BY <1>1, <1>2, <2>3 DEF Ages
    <3>. QED  BY <1>1, <1>2, <1>6, <2>3, <3>1 DEF HResolve
  <2>5. [outage[Rule.id] EXCEPT ![n] = age] \in [Fqdn -> Ages]
    BY <1>2, <2>3, <2>4
  <2>6. outage' \in [RuleId -> [Fqdn -> Ages]]
    BY <1>2, <2>3, <2>4, <2>5
  <2>. QED  BY <1>6, <2>2, <2>6 DEF HResolve
<1>7. ASSUME NEW id \in Provider, HFetch(id)
      PROVE  /\ UNCHANGED <<lastKnown, outage>> /\ fetchLog' \in [Provider -> Log]
  BY <1>1, <1>2, <1>7 DEF HFetch
<1>8. CASE HFinish
  BY <1>1, <1>2, <1>8 DEF HFinish
<1>9. CASE HTick
  <2>1. \A r \in RuleId, n \in Fqdn :
          outage[r][n] # NotFailing => Older(outage[r][n], MaxAge) \in Ages
    BY <1>1, <1>2, OlderBounded DEF Ages
  <2>2. \A id \in Provider : Older(fetchLog[id].ago, Retry) \in 0..Retry
    BY <1>1, <1>2, OlderBounded
  <2>. QED  BY <1>1, <1>2, <1>9, <2>1, <2>2 DEF HTick
<1>10. CASE HRestart
  BY <1>1, <1>2, <1>10 DEF HRestart
<1>. QED  BY <1>2, <1>4, <1>5, <1>6, <1>7, <1>8, <1>9, <1>10 DEF HNext

\* HistoryInv holds in every reachable state.
THEOREM HistoryCorrect == HSpec => []HistoryInv
<1>1. HInit => HistoryInv
  BY TimeAssumption DEF HInit, Init, HistoryInv, NotFetched
<1>2. TypeOK /\ HistoryInv /\ [HNext]_hvars => HistoryInv'
  <2>1. SUFFICES ASSUME TypeOK, HistoryInv, [HNext]_hvars PROVE HistoryInv'
    OBVIOUS
  <2>2. /\ lastKnown' \in [Fqdn -> SUBSET Host]
        /\ outage' \in [RuleId -> [Fqdn -> {NotFailing} \cup 0..MaxAge]]
        /\ fetchLog' \in [Provider -> [ago : 0..Retry, thisCycle : BOOLEAN]]
    BY <2>1, HistoryType DEF hvars, history, HistoryInv
  <2>. QED  BY <2>1, <2>2, ObservedNext, CycleConfigured DEF HistoryInv
<1>. QED  BY <1>1, <1>2, HistoryObserves, TypeCorrect, PTL DEF HSpec

-------------------------------------------------------------------------------
(* Fetching is polite.                                                       *)

\* A list that was fetched is good for a retry interval at least:
\* MinProviderIntervalSeconds is more than providerRetryInterval.
PeriodsLast == \A c \in Configs : c.period >= Retry

\* The cycle knows a source as configured when one of its rules names it.
LEMMA NamedIsConfigured ==
  ASSUME TypeOK, NEW s \in Source
  PROVE  (\E i \in DOMAIN cfg.rules :
            \E j \in DOMAIN (cfg.rules[i].fqdns \o cfg.rules[i].providers) :
              (cfg.rules[i].fqdns \o cfg.rules[i].providers)[j] = s)
         <=> (\E i \in DOMAIN cfg.rules :
                \/ \E j \in DOMAIN cfg.rules[i].fqdns : s = cfg.rules[i].fqdns[j]
                \/ \E j \in DOMAIN cfg.rules[i].providers : s = cfg.rules[i].providers[j])
<1>1. ASSUME NEW i \in DOMAIN cfg.rules
      PROVE  (\E j \in DOMAIN (cfg.rules[i].fqdns \o cfg.rules[i].providers) :
                 (cfg.rules[i].fqdns \o cfg.rules[i].providers)[j] = s)
             <=> \/ \E j \in DOMAIN cfg.rules[i].fqdns : s = cfg.rules[i].fqdns[j]
                 \/ \E j \in DOMAIN cfg.rules[i].providers : s = cfg.rules[i].providers[j]
  <2>. DEFINE A == cfg.rules[i].fqdns
              B == cfg.rules[i].providers
  <2>1. A \in Seq(Fqdn) /\ B \in Seq(Provider)
    <3>1. cfg.rules \in Seq(RuleConfig)
      BY DEF TypeOK, Config
    <3>2. cfg.rules[i] \in RuleConfig
      BY <1>1, <3>1
    <3>. QED  BY <3>2 DEF RuleConfig
  <2>. HIDE DEF A, B
  <2>2. /\ DOMAIN (A \o B) = 1..(Len(A) + Len(B))
        /\ \A j \in 1..Len(A) : (A \o B)[j] = A[j]
        /\ \A j \in 1..Len(B) : (A \o B)[Len(A) + j] = B[j]
        /\ DOMAIN A = 1..Len(A) /\ DOMAIN B = 1..Len(B) /\ Len(A) \in Nat /\ Len(B) \in Nat
    BY <2>1
  <2>3. ASSUME NEW j \in DOMAIN (A \o B), (A \o B)[j] = s
        PROVE  (\E l \in DOMAIN A : s = A[l]) \/ (\E l \in DOMAIN B : s = B[l])
    <3>1. CASE j <= Len(A)
      BY <2>2, <2>3, <3>1
    <3>2. CASE j > Len(A)
      <4>1. j - Len(A) \in DOMAIN B /\ (A \o B)[j] = B[j - Len(A)]
        BY <2>2, <2>3, <3>2
      <4>. QED  BY <2>3, <4>1
    <3>. QED  BY <2>2, <2>3, <3>1, <3>2
  <2>4. ASSUME NEW l \in DOMAIN A, s = A[l] PROVE \E j \in DOMAIN (A \o B) : (A \o B)[j] = s
    BY <2>2, <2>4
  <2>5. ASSUME NEW l \in DOMAIN B, s = B[l] PROVE \E j \in DOMAIN (A \o B) : (A \o B)[j] = s
    <3>1. Len(A) + l \in DOMAIN (A \o B) /\ (A \o B)[Len(A) + l] = s
      BY <2>2, <2>5
    <3>. QED  BY <3>1
  <2>6. (\E j \in DOMAIN (A \o B) : (A \o B)[j] = s)
        <=> (\E j \in DOMAIN A : s = A[j]) \/ (\E j \in DOMAIN B : s = B[j])
    BY <2>3, <2>4, <2>5
  <2>. QED  BY <2>6 DEF A, B
<1>. QED  BY <1>1

\* What the reconciler and history forget at the end of a cycle, they forget of
\* the same sources.
LEMMA FinishTogether ==
  ASSUME TypeOK, HFinish
  PROVE  /\ \A id \in Provider :
              \/ prov'[id] = prov[id] /\ fetchLog'[id] = fetchLog[id]
              \/ prov'[id] = NewProviderState /\ fetchLog'[id] = NotFetched
         /\ \A n \in Fqdn :
              \/ /\ failing'[n] = failing[n] /\ lastKnown'[n] = lastKnown[n]
                 /\ \A r \in RuleId : outage'[r][n] = outage[r][n]
              \/ /\ failing'[n] = NotFailing /\ lastKnown'[n] = {}
                 /\ \A r \in RuleId : outage'[r][n] = NotFailing
<1>1. \A id \in Provider : id \in Source
  BY DEF Source
<1>2. \A n \in Fqdn : n \in Source
  BY DEF Source
<1>3. ASSUME NEW id \in Provider
      PROVE  \/ prov'[id] = prov[id] /\ fetchLog'[id] = fetchLog[id]
             \/ prov'[id] = NewProviderState /\ fetchLog'[id] = NotFetched
  BY <1>1, NamedIsConfigured DEF HFinish, FinishCycle
<1>4. ASSUME NEW n \in Fqdn
      PROVE  \/ /\ failing'[n] = failing[n] /\ lastKnown'[n] = lastKnown[n]
                /\ \A r \in RuleId : outage'[r][n] = outage[r][n]
             \/ /\ failing'[n] = NotFailing /\ lastKnown'[n] = {}
                /\ \A r \in RuleId : outage'[r][n] = NotFailing
  BY <1>2, NamedIsConfigured DEF HFinish, FinishCycle
<1>. QED  BY <1>3, <1>4

\* A provider that was visited is not due again early, and a forced fetch is
\* not forgotten.
LEMMA PoliteAuthorise ==
  ASSUME TypeOK, HistoryInv, PoliteInv, NEW id \in Provider, NEW st,
         Authorise(id, st), st.forcedSeen = prov[id].forcedSeen,
         \/ pc = "providers" /\ st.due = prov[id].due
         \/ pc = "fetch" /\ id = Head(todo) /\ st.due \in Nat /\ st.due >= Retry,
         UNCHANGED <<forced, fetchLog>>
  PROVE  PoliteInv'
<1>1. prov'[id] = st /\ (\A i \in Provider : i # id => prov'[i] = prov[i]) /\ pc' = "providers"
  BY DEF Authorise, TypeOK
<1>2. \A i \in Provider : fetchLog[i].ago \in Nat /\ prov[i].due \in Nat
  BY TimeAssumption DEF HistoryInv, TypeOK, ProviderState
<1>3. Retry \in Nat
  BY TimeAssumption
<1>4. ASSUME NEW i \in Provider
      PROVE  /\ forced /\ fetchLog[i].thisCycle => prov'[i].forcedSeen
             /\ prov'[i].due + fetchLog[i].ago >= Retry
  <2>1. CASE i = id
    BY <1>1, <1>2, <1>3, <2>1 DEF PoliteInv
  <2>2. CASE i # id
    BY <1>1, <2>2 DEF PoliteInv
  <2>. QED  BY <2>1, <2>2
<1>. QED  BY <1>4 DEF PoliteInv

\* A step that leaves the schedule alone keeps it.
LEMMA PoliteSame ==
  ASSUME PoliteInv, UNCHANGED <<forced, prov, fetchLog>>,
         UNCHANGED <<pc, todo>> \/ pc # "fetch"
  PROVE  PoliteInv'
  BY DEF PoliteInv

\* Every step keeps the schedule polite.
LEMMA PoliteNext ==
  ASSUME PeriodsLast, TypeOK, HistoryInv, PoliteInv, [HNext]_hvars
  PROVE  PoliteInv'
<1>1. /\ Retry \in Nat /\ Retry >= 1
      /\ \A id \in Provider : /\ fetchLog[id] \in [ago : 0..Retry, thisCycle : BOOLEAN]
                              /\ prov[id] \in ProviderState
  BY TimeAssumption DEF HistoryInv, TypeOK
<1>2. ASSUME NEW c \in Configs, NEW force \in BOOLEAN, HStart(c, force) PROVE PoliteInv'
  <2>1. \A id \in Provider : /\ prov'[id].due = prov[id].due
                             /\ fetchLog'[id].ago = fetchLog[id].ago
                             /\ fetchLog'[id].thisCycle = FALSE
    BY <1>1, <1>2 DEF HStart, StartCycle, ProviderState
  <2>2. pc = "idle" /\ pc' # "fetch"
    BY <1>2 DEF HStart, StartCycle
  <2>. QED  BY <2>1, <2>2 DEF PoliteInv
<1>3. ASSUME NEW n \in Fqdn, NEW a \in Outcomes[n] \cup {Failure}, HResolve(n, a) PROVE PoliteInv'
  BY <1>3, PoliteSame DEF HResolve, ResolveFqdn
<1>4. ASSUME NEW id \in Provider, HFetch(id) PROVE PoliteInv'
  <2>1. /\ pc' = "fetch" /\ todo' = todo /\ id = Head(todo) /\ forced' = forced
        /\ prov'[id].forcedSeen = (prov[id].forcedSeen \/ forced)
        /\ \A i \in Provider : i # id => prov'[i] = prov[i] /\ fetchLog'[i] = fetchLog[i]
        /\ pc = "providers"
    BY <1>1, <1>4 DEF HFetch, BeginFetch, providerRest, TypeOK, HistoryInv, ProviderState
  <2>2. ASSUME NEW i \in Provider
        PROVE  /\ forced' /\ fetchLog'[i].thisCycle => prov'[i].forcedSeen
               /\ \/ pc' = "fetch" /\ i = Head(todo')
                  \/ prov'[i].due + fetchLog'[i].ago >= Retry
    <3>1. CASE i = id
      BY <2>1, <3>1
    <3>2. CASE i # id
      BY <2>1, <3>2 DEF PoliteInv
    <3>. QED  BY <3>1, <3>2
  <2>. QED  BY <2>2 DEF PoliteInv
<1>5. CASE HFinish
  <2>1. /\ NewProviderState.due = 0 /\ NotFetched.ago = Retry /\ NotFetched.thisCycle = FALSE
        /\ 0 + Retry >= Retry
    BY <1>1 DEF NewProviderState, NotFetched
  <2>2. pc = "forget" /\ forced' = forced
    BY <1>5 DEF HFinish, FinishCycle
  <2>. QED  BY <1>5, <2>1, <2>2, FinishTogether DEF PoliteInv
<1>6. CASE HTick
  <2>1. UNCHANGED <<pc, todo, forced>>
    BY <1>6 DEF HTick, Tick
  <2>2. ASSUME NEW id \in Provider
        PROVE  /\ fetchLog'[id].thisCycle = fetchLog[id].thisCycle
               /\ prov'[id].forcedSeen = prov[id].forcedSeen
               /\ prov'[id].due = IF prov[id].due > 0 THEN prov[id].due - 1 ELSE 0
               /\ fetchLog'[id].ago = IF fetchLog[id].ago < Retry THEN fetchLog[id].ago + 1
                                      ELSE fetchLog[id].ago
    BY <1>1, <1>6 DEF HTick, Tick, Older, ProviderState
  <2>3. \A id \in Provider : prov[id].due \in Nat /\ fetchLog[id].ago \in 0..Retry
    BY <1>1, TimeAssumption DEF ProviderState
  <2>4. ASSUME NEW id \in Provider, prov[id].due + fetchLog[id].ago >= Retry
        PROVE  prov'[id].due + fetchLog'[id].ago >= Retry
    BY <1>1, <2>2, <2>3, <2>4
  <2>. QED  BY <2>1, <2>2, <2>4 DEF PoliteInv
<1>7. CASE HRestart
  <2>1. forced' = FALSE
    BY <1>7 DEF HRestart, Restart
  <2>2. \A id \in Provider : prov'[id].due = 0 /\ fetchLog'[id].ago = Retry
    BY <1>7 DEF HRestart, Restart, NewProviderState, NotFetched
  <2>. QED  BY <1>1, <2>1, <2>2 DEF PoliteInv
<1>8. ASSUME NEW id \in Provider, UNCHANGED history,
             \/ UseWithoutFetch(id) \/ FetchFails(id)
             \/ \E list \in Lists : FetchReturns(id, list)
      PROVE  PoliteInv'
  <2>1. UNCHANGED <<forced, fetchLog>>
    BY <1>8 DEF UseWithoutFetch, FetchFails, FetchReturns, providerRest, history
  <2>2. CASE UseWithoutFetch(id)
    <3>1. PICK st \in {prov[id], [prov[id] EXCEPT !.err = TRUE]} : Authorise(id, st)
      BY <2>2 DEF UseWithoutFetch
    <3>2. st.forcedSeen = prov[id].forcedSeen /\ st.due = prov[id].due
      BY <1>1, <3>1 DEF ProviderState
    <3>. QED  BY <2>1, <2>2, <3>1, <3>2, PoliteAuthorise DEF UseWithoutFetch
  <2>3. CASE FetchFails(id) \/ \E list \in Lists : FetchReturns(id, list)
    <3>1. pc = "fetch" /\ id = Head(todo)
      BY <2>3 DEF FetchFails, FetchReturns
    <3>2. cfg.period \in Nat /\ cfg.period >= Retry
      BY <3>1, TimeAssumption DEF HistoryInv, PeriodsLast, TypeOK, Config
    <3>3. PICK st : /\ Authorise(id, st)
                    /\ \/ st = FetchFailed(prov[id])
                       \/ \E list \in Lists : st = Fetched(prov[id], list)
      BY <2>3 DEF FetchFails, FetchReturns
    <3>4. st.forcedSeen = prov[id].forcedSeen /\ st.due \in Nat /\ st.due >= Retry
      <4>1. prov[id] \in ProviderState
        BY <1>1
      <4>2. CASE st = FetchFailed(prov[id])
        BY <1>1, <4>1, <4>2 DEF FetchFailed, ProviderState
      <4>3. ASSUME NEW list \in Lists, st = Fetched(prov[id], list)
            PROVE  st.forcedSeen = prov[id].forcedSeen /\ st.due = cfg.period
        BY <4>1, <4>3 DEF Fetched, ProviderState
      <4>. QED  BY <3>2, <3>3, <4>2, <4>3
    <3>. QED  BY <2>1, <3>1, <3>3, <3>4, PoliteAuthorise
  <2>. QED  BY <1>8, <2>2, <2>3
<1>9. ASSUME UNCHANGED history,
             \/ ListRule \/ ListFails \/ FqdnsDone \/ BeginAdds \/ BeginRemoves
             \/ WriteStep \/ RuleReturns \/ AdminStep
      PROVE  PoliteInv'
  <2>1. UNCHANGED <<forced, prov, fetchLog>>
    BY <1>9 DEF ListRule, ListFails, FqdnsDone, BeginAdds, BeginRemoves, WriteStep, AddEntry,
                AddFails, RemoveEntry, RemoveFails, RuleReturns, AdminStep, AdminEdits,
                memoryVars, history
  <2>2. UNCHANGED <<pc, todo>> \/ pc # "fetch"
    BY <1>9 DEF ListRule, ListFails, FqdnsDone, BeginAdds, BeginRemoves, WriteStep, AddEntry,
                AddFails, RemoveEntry, RemoveFails, RuleReturns, AdminStep, AdminEdits
  <2>. QED  BY <2>1, <2>2, PoliteSame
<1>10. CASE UNCHANGED hvars
  BY <1>10, PoliteSame DEF hvars, vars, memoryVars, history
<1>. QED
  BY <1>2, <1>3, <1>4, <1>5, <1>6, <1>7, <1>8, <1>9, <1>10 DEF HNext

\* If a fetched list lasts a retry interval, two fetches of a provider are a retry
\* interval apart, in one cycle or in two and however many rules share it, but
\* that a forced cycle may fetch it once without waiting.  A cycle longer than the
\* retry interval may fetch it again.
THEOREM FetchesArePolite ==
  ASSUME PeriodsLast
  PROVE  HSpec => PoliteFetching
<1>1. HInit => PoliteInv
  BY TimeAssumption DEF HInit, Init, PoliteInv, NewProviderState, NotFetched
<1>2. HSpec => []PoliteInv
  BY <1>1, PoliteNext, HistoryCorrect, HistoryObserves, TypeCorrect, PTL DEF HSpec
<1>3. TypeOK /\ HistoryInv /\ PoliteInv =>
        [\A id \in Provider : BeginFetch(id) =>
           \/ fetchLog[id].ago = Retry
           \/ forced /\ ~fetchLog[id].thisCycle]_hvars
  <2>1. SUFFICES ASSUME TypeOK, HistoryInv, PoliteInv, NEW id \in Provider, BeginFetch(id),
                        ~(forced /\ ~fetchLog[id].thisCycle)
                 PROVE  fetchLog[id].ago = Retry
    OBVIOUS
  <2>2. prov[id].due = 0 /\ pc = "providers"
    BY <2>1 DEF BeginFetch, shouldAttempt, PoliteInv
  <2>3. fetchLog[id].ago \in 0..Retry /\ Retry \in Nat
    BY <2>1, TimeAssumption DEF HistoryInv
  <2>. QED  BY <2>1, <2>2, <2>3 DEF PoliteInv
<1>. QED
  BY <1>2, <1>3, HistoryCorrect, HistoryObserves, TypeCorrect, PTL DEF PoliteFetching

-------------------------------------------------------------------------------
(* The grace window ends.                                                    *)

\* No name is in two rules: the failure clock is kept per name, so that what a
\* rule has seen of an outage is what the clock says.
OneRuleEach == \A n \in Fqdn, r, q \in RuleId : InRule(r, n) /\ InRule(q, n) => r = q

\* A rule that names a name has a grace window; without one no clock is kept.
KeepsGrace ==
    \A c \in Configs : \A i \in DOMAIN c.rules : c.rules[i].fqdns # <<>> => c.grace > 0

\* A lookup is made for a rule of the configuration that names the name.
LEMMA LooksUpItsOwn ==
  ASSUME KeepsGrace, TypeOK, HistoryInv, NEW n \in Fqdn, NEW a, ResolveFqdn(n, a)
  PROVE  /\ Rule.id \in RuleId /\ InRule(Rule.id, n)
         /\ cfg.grace \in Nat /\ cfg.grace > 0
<1>1. pc = "fqdns" /\ ri # 0 /\ cfg \in Configs /\ todo # <<>> /\ n = Head(todo)
  BY DEF ResolveFqdn, TypeOK, HistoryInv
<1>2. Rule.id \in RuleId /\ Rule.fqdns \in Seq(Fqdn)
  BY <1>1, RuleType DEF RuleConfig
<1>3. cfg.rules \in Seq(RuleConfig) /\ ri \in DOMAIN cfg.rules
  BY <1>1 DEF TypeOK, Config
<1>4. PICK i \in DOMAIN Rule.fqdns : Rule.fqdns[i] = n
  <2>1. 1 \in DOMAIN todo /\ todo[1] = n
    BY <1>1 DEF TypeOK
  <2>. QED  BY <1>1, <2>1 DEF HistoryInv
<1>5. InRule(Rule.id, n)
  BY <1>1, <1>3, <1>4 DEF InRule, Rule
<1>6. Rule.fqdns # <<>>
  BY <1>2, <1>4
<1>7. cfg.grace > 0
  BY <1>1, <1>3, <1>6 DEF KeepsGrace, Rule
<1>8. cfg.grace \in Nat
  BY TimeAssumption DEF TypeOK, Config
<1>. QED  BY <1>2, <1>5, <1>7, <1>8

\* A lookup moves the clock of its name and nobody else's.
LEMMA ClockResolve ==
  ASSUME OneRuleEach, KeepsGrace, TypeOK, HistoryInv, ClockInv,
         NEW n \in Fqdn, NEW a \in Outcomes[n] \cup {Failure}, HResolve(n, a)
  PROVE  ClockInv'
<1>1. ResolveFqdn(n, a)
  BY DEF HResolve
<1>2. Rule.id \in RuleId /\ InRule(Rule.id, n) /\ cfg.grace > 0
  BY <1>1, LooksUpItsOwn
<1>3. a.kind \in {"ok", "notfound", "fail"}
  BY InputAssumption DEF Answer, Failure
<1>4. failing' = [failing EXCEPT ![n] = IF a.kind = "fail" THEN Outage(n) ELSE NotFailing]
  BY <1>1, <1>2, <1>3
  DEF ResolveFqdn, ResolveSucceeds, ResolveNotFound, ResolveFails
<1>5. outage[Rule.id][n] = failing[n]
  BY <1>2 DEF ClockInv
<1>6. ASSUME NEW r \in RuleId, NEW m \in Fqdn, InRule(r, m)
      PROVE  outage'[r][m] = failing'[m]
  <2>1. outage[r][m] = failing[m]
    BY <1>6 DEF ClockInv
  <2>2. CASE m = n
    <3>1. r = Rule.id
      BY <1>2, <1>6, <2>2 DEF OneRuleEach
    <3>2. outage'[r][m] = IF a.kind # "fail" THEN NotFailing
                          ELSE IF outage[r][m] = NotFailing THEN 0 ELSE outage[r][m]
      BY <2>2, <3>1 DEF HResolve, HistoryInv
    <3>3. failing'[m] = IF a.kind = "fail" THEN Outage(m) ELSE NotFailing
      BY <1>4, <2>2 DEF TypeOK
    <3>. QED  BY <2>1, <3>2, <3>3 DEF Outage
  <2>3. CASE m # n
    <3>1. outage'[r][m] = outage[r][m]
      BY <2>3 DEF HResolve, HistoryInv
    <3>2. failing'[m] = failing[m]
      BY <1>4, <2>3 DEF TypeOK
    <3>. QED  BY <2>1, <3>1, <3>2
  <2>. QED  BY <2>2, <2>3
<1>. QED  BY <1>6 DEF ClockInv

\* Every step keeps the clock of a name at what its rule has seen.
LEMMA ClockNext ==
  ASSUME OneRuleEach, KeepsGrace, TypeOK, HistoryInv, ClockInv, [HNext]_hvars
  PROVE  ClockInv'
<1>1. ASSUME NEW n \in Fqdn, NEW a \in Outcomes[n] \cup {Failure}, HResolve(n, a)
      PROVE  ClockInv'
  BY <1>1, ClockResolve
<1>2. CASE HFinish
  BY <1>2, FinishTogether DEF ClockInv
<1>3. CASE HTick
  <2>1. \A r \in RuleId, n \in Fqdn :
          /\ outage'[r][n] = IF outage[r][n] = NotFailing THEN NotFailing
                             ELSE Older(outage[r][n], MaxAge)
          /\ failing'[n] = IF failing[n] = NotFailing THEN NotFailing
                           ELSE Older(failing[n], MaxAge)
    BY <1>3 DEF HTick, Tick
  <2>. QED  BY <2>1 DEF ClockInv
<1>4. CASE HRestart
  BY <1>4 DEF HRestart, Restart, ClockInv
<1>5. CASE \/ \E c \in Configs, force \in BOOLEAN : HStart(c, force)
           \/ \E id \in Provider : HFetch(id)
  <2>1. UNCHANGED <<failing, outage>>
    BY <1>5 DEF HStart, StartCycle, HFetch, BeginFetch, providerRest
  <2>. QED  BY <2>1 DEF ClockInv
<1>6. ASSUME UNCHANGED history,
             \/ ListRule \/ ListFails \/ FqdnsDone
             \/ \E id \in Provider : UseWithoutFetch(id) \/ FetchFails(id)
             \/ \E id \in Provider, list \in Lists : FetchReturns(id, list)
             \/ BeginAdds \/ BeginRemoves \/ WriteStep
             \/ RuleReturns \/ AdminStep
      PROVE  ClockInv'
  <2>1. failing' = failing
    BY <1>6 DEF ListRule, ListFails, FqdnsDone, UseWithoutFetch, FetchFails, FetchReturns,
                providerRest, BeginAdds, BeginRemoves, WriteStep, AddEntry, AddFails,
                RemoveEntry, RemoveFails, RuleReturns, AdminStep, AdminEdits, memoryVars
  <2>. QED  BY <1>6, <2>1 DEF ClockInv, history
<1>7. CASE UNCHANGED hvars
  BY <1>7 DEF hvars, vars, memoryVars, history, ClockInv
<1>. QED  BY <1>1, <1>2, <1>3, <1>4, <1>5, <1>6, <1>7 DEF HNext

\* If no name is in two rules, a rule keeps the addresses of a name only while
\* its own lookups of it have been failing for less than the window, whatever
\* cycles, ticks, reloads and restarts come between them.
THEOREM GraceEnds ==
  ASSUME OneRuleEach, KeepsGrace
  PROVE  HSpec => GraceWindowEnds
<1>1. HInit => ClockInv
  BY DEF HInit, Init, ClockInv
<1>2. HSpec => []ClockInv
  BY <1>1, ClockNext, HistoryCorrect, HistoryObserves, TypeCorrect, PTL DEF HSpec
<1>3. TypeOK /\ HistoryInv /\ ClockInv' =>
        [\A f \in Fqdn :
           ResolveFqdn(f, Failure) /\ report'[f] = "grace"
           => outage'[Rule.id][f] < cfg.grace]_hvars
  <2>1. SUFFICES ASSUME TypeOK, HistoryInv, ClockInv', NEW f \in Fqdn,
                        ResolveFqdn(f, Failure), report'[f] = "grace"
                 PROVE  outage'[Rule.id][f] < cfg.grace
    OBVIOUS
  <2>2. Rule.id \in RuleId /\ InRule(Rule.id, f) /\ cfg.grace \in Nat
    BY <2>1, LooksUpItsOwn
  <2>3. outage'[Rule.id][f] = failing'[f]
    BY <2>1, <2>2 DEF ClockInv
  <2>4. ResolveFails(f) /\ f \in Source
    BY <2>1 DEF ResolveFqdn, Failure, Source
  <2>5. graceLeft(f)
    BY <2>1, <2>4 DEF ResolveFails, TypeOK
  <2>6. failing'[f] = Outage(f)
    BY <2>1, <2>4, <2>5 DEF ResolveFails, graceLeft, TypeOK
  <2>7. Outage(f) \in Int
    BY <2>1, TimeAssumption DEF Outage, TypeOK, NotFailing
  <2>. QED  BY <2>2, <2>3, <2>5, <2>6, <2>7 DEF graceLeft
<1>. QED
  BY <1>2, <1>3, HistoryCorrect, HistoryObserves, TypeCorrect, PTL DEF GraceWindowEnds

-------------------------------------------------------------------------------
(* The last known addresses are kept.                                        *)

\* An address has one owner: no two names may resolve to it, no provider
\* publishes it, and no entry for it belongs to anybody else at the start.  Of
\* two names that share an address only one owns the entry, and a failing
\* lookup of the other keeps nothing.
OneOwner ==
    \A n \in Fqdn : \A h \in Reach(n) :
        /\ \A m \in Fqdn : h \in Reach(m) => m = n
        /\ \A list \in Lists : {h} \notin list
        /\ \A w \in InitialLists, r \in RuleId, k \in Key :
               canonicalEntry(k) = {h} => w[r][k] \in {n, Admin, None}

\* What OwnerInv says of one name and one of its addresses.
Owns(n, h) ==
    /\ desired[{h}] \in {n, None}
    /\ \A id \in Provider : {h} \notin prov[id].prefixes
    /\ \A k \in Key : canonicalEntry(k) = {h} =>
         /\ entries[k] \in {n, Admin, None}
         /\ \A r \in RuleId : wl[r][k] \in {n, Admin, None}

\* An address a lookup may return is an address.
LEMMA ReachesHosts == \A n \in Fqdn : Reach(n) \subseteq Host
  BY InputAssumption DEF Reach, Answer

\* Nothing is owned at the start.
LEMMA OwnerInit == OneOwner /\ HInit => OwnerInv
<1>1. ASSUME OneOwner, HInit, NEW n \in Fqdn, NEW h \in Reach(n) PROVE Owns(n, h)
  <2>1. {h} \in Prefix
    BY ReachesHosts, PrefixAssumption
  <2>. QED
    BY <1>1, <2>1
    DEF HInit, Init, Owns, OneOwner, NoDesired, NoEntries, NewProviderState
<1>. QED  BY <1>1 DEF OwnerInv, Owns, HInit

\* What stays, and what is cleared, is nobody else's.
LEMMA OwnerSame ==
  ASSUME OwnerInv, NEW n \in Fqdn, NEW h \in Reach(n),
         wl' = wl, entries' = entries \/ entries' = NoEntries,
         desired' = desired \/ desired' = NoDesired,
         \A id \in Provider : prov'[id].prefixes \in {prov[id].prefixes, {}}
  PROVE  Owns(n, h)'
<1>1. {h} \in Prefix /\ Owns(n, h)
  BY ReachesHosts, PrefixAssumption DEF OwnerInv, Owns
<1>. QED  BY <1>1 DEF Owns, NoEntries, NoDesired

\* The sources that may own an address own it alone.
LEMMA OwnerEntries ==
  ASSUME OwnerInv, NEW n \in Fqdn, NEW h \in Reach(n), NEW s \in Source, {h} \in OwnedBy(s)
  PROVE  s = n
<1>1. PICK k \in Key : canonicalEntry(k) = {h} /\ entries[k] = s
  BY DEF OwnedBy
<1>. QED  BY <1>1, SourceAssumption DEF OwnerInv, Source

\* A claim for a source that owns the address, or that leaves it out.
LEMMA OwnerClaim ==
  ASSUME OwnerInv, NEW n \in Fqdn, NEW h \in Reach(n), NEW ps, NEW s,
         desired' = Claim(desired, ps, s), {h} \in ps => s = n
  PROVE  desired'[{h}] \in {n, None}
<1>1. {h} \in Prefix
  BY ReachesHosts, PrefixAssumption
<1>2. desired'[{h}] = IF {h} \in ps /\ desired[{h}] = None THEN s ELSE desired[{h}]
  BY <1>1 DEF Claim
<1>. QED  BY <1>2 DEF OwnerInv

\* A lookup claims for its own name, and remembers what it may return.
LEMMA OwnerResolve ==
  ASSUME OneOwner, TypeOK, HistoryInv, OwnerInv,
         NEW m \in Fqdn, NEW a \in Outcomes[m] \cup {Failure}, HResolve(m, a)
  PROVE  OwnerInv'
<1>1. ResolveFqdn(m, a) /\ m \in Source
  BY DEF HResolve, Source
<1>2. a.kind \in {"ok", "notfound", "fail"} /\ (a.kind # "fail" => a \in Outcomes[m])
  BY InputAssumption DEF Answer, Failure
<1>3. \A n \in Fqdn : lastKnown'[n] \subseteq Reach(n)
  <2>1. a.kind # "fail" => a.ips \ cfg.blocked \subseteq Reach(m)
    BY <1>2 DEF Reach
  <2>. QED  BY <2>1 DEF HResolve, HistoryInv, OwnerInv
<1>4. UNCHANGED <<wl, entries, prov>>
  BY <1>1 DEF ResolveFqdn
<1>5. ASSUME NEW n \in Fqdn, NEW h \in Reach(n) PROVE desired'[{h}] \in {n, None}
  <2>1. CASE desired' = desired
    BY <2>1 DEF OwnerInv
  <2>2. CASE a.kind = "ok" /\ ResolveSucceeds(m, a.ips)
    <3>1. PICK ps : /\ desired' = Claim(desired, ps, m)
                    /\ \A p \in ps : \E i \in a.ips : p = {i}
      <4>. DEFINE routable == {i \in a.ips : ~Contains(cfg.blocked, i)}
      <4>1. desired' = Claim(desired, {toCIDR(i) : i \in routable}, m)
        BY <2>2 DEF ResolveSucceeds
      <4>2. \A p \in {toCIDR(i) : i \in routable} : \E i \in a.ips : p = {i}
        BY DEF toCIDR
      <4>. QED  BY <4>1, <4>2
    <3>2. {h} \in ps => h \in Reach(m)
      BY <1>2, <2>2, <3>1 DEF Reach
    <3>3. {h} \in ps => m = n
      BY <3>2 DEF OneOwner
    <3>. QED  BY <3>1, <3>3, OwnerClaim
  <2>3. CASE desired' = Claim(desired, keepableOwned(cfg.blocked, OwnedBy(m)), m)
    <3>1. {h} \in keepableOwned(cfg.blocked, OwnedBy(m)) => m = n
      BY <1>1, OwnerEntries DEF keepableOwned
    <3>. QED  BY <2>3, <3>1, OwnerClaim
  <2>. QED
    BY <1>1, <1>2, <2>1, <2>2, <2>3 DEF ResolveFqdn, ResolveNotFound, ResolveFails
<1>6. ASSUME NEW n \in Fqdn, NEW h \in Reach(n) PROVE Owns(n, h)'
  BY <1>4, <1>5 DEF OwnerInv, Owns
<1>. QED  BY <1>3, <1>6 DEF OwnerInv, Owns

\* A provider claims what it published, or what it already owns: never an
\* address of a name.
LEMMA OwnerAuthorise ==
  ASSUME OneOwner, TypeOK, OwnerInv, NEW id \in Provider, NEW st,
         Authorise(id, st), UNCHANGED <<wl, entries>>,
         st.prefixes = prov[id].prefixes \/ st.prefixes \in Lists,
         NEW n \in Fqdn, NEW h \in Reach(n)
  PROVE  Owns(n, h)'
<1>1. id \in Source /\ id # n
  BY SourceAssumption DEF Source
<1>2. {h} \notin st.prefixes
  BY DEF OneOwner, OwnerInv
<1>3. \A i \in Provider : {h} \notin prov'[i].prefixes
  BY <1>2 DEF Authorise, TypeOK, OwnerInv
<1>4. PICK ps : /\ desired' = Claim(desired, ps, id)
                /\ ps \subseteq st.prefixes \/ ps = keepableOwned(cfg.blocked, OwnedBy(id))
  BY DEF Authorise
<1>5. {h} \notin ps
  BY <1>1, <1>2, <1>4, OwnerEntries DEF keepableOwned
<1>6. desired'[{h}] \in {n, None}
  BY <1>4, <1>5, OwnerClaim
<1>. QED  BY <1>3, <1>6 DEF OwnerInv, Owns

\* Somebody who writes an entry writes it as its own, as an administrator's, or
\* as none.
LEMMA OwnerPut ==
  ASSUME TypeOK, OwnerInv, NEW n \in Fqdn, NEW h \in Reach(n),
         UNCHANGED <<entries, desired, prov>>,
         NEW r \in RuleId, NEW k \in Key, NEW comment,
         wl' = [wl EXCEPT ![r][k] = comment],
         canonicalEntry(k) = {h} => comment \in {n, Admin, None}
  PROVE  Owns(n, h)'
<1>1. \A q \in RuleId, j \in Key : wl'[q][j] = IF q = r /\ j = k THEN comment ELSE wl[q][j]
  BY DEF TypeOK
<1>2. Owns(n, h)
  BY DEF OwnerInv, Owns
<1>3. UNCHANGED <<entries, desired, prov>>
  OBVIOUS
<1>4. \A j \in Key : canonicalEntry(j) = {h} =>
        /\ entries'[j] \in {n, Admin, None}
        /\ \A q \in RuleId : wl'[q][j] \in {n, Admin, None}
  BY <1>1, <1>2, <1>3 DEF Owns
<1>. QED  BY <1>2, <1>3, <1>4 DEF Owns

\* A write is for a source that wants the form, and a removal is for nobody.
LEMMA OwnerWrite ==
  ASSUME TypeOK, OwnerInv, WriteStep, NEW n \in Fqdn, NEW h \in Reach(n)
  PROVE  Owns(n, h)'
<1>1. ri # 0 /\ Rule.id \in RuleId
  BY RuleType DEF TypeOK, RuleConfig, WriteStep, AddEntry, AddFails, RemoveEntry, RemoveFails
<1>2. UNCHANGED <<entries, desired, prov>>
  BY DEF WriteStep, AddEntry, AddFails, RemoveEntry, RemoveFails, memoryVars
<1>3. CASE UNCHANGED wl
  BY <1>2, <1>3 DEF OwnerInv, Owns
<1>4. ASSUME NEW p \in Prefix, Put(Cidr(p), desired[p]) PROVE Owns(n, h)'
  <2>1. Cidr(p) \in Key /\ canonicalEntry(Cidr(p)) = p
    BY DEF Key, Cidr, canonicalEntry
  <2>2. canonicalEntry(Cidr(p)) = {h} => desired[p] \in {n, Admin, None}
    BY <2>1 DEF OwnerInv
  <2>. HIDE DEF Cidr, canonicalEntry
  <2>. QED  BY <1>1, <1>2, <1>4, <2>1, <2>2, OwnerPut DEF Put
<1>5. ASSUME NEW k \in Key, Put(k, None) PROVE Owns(n, h)'
  BY <1>1, <1>2, <1>5, OwnerPut DEF Put
<1>. QED
  BY <1>3, <1>4, <1>5 DEF WriteStep, AddEntry, AddFails, RemoveEntry, RemoveFails

\* The list is read from the whitelist.
LEMMA OwnerList ==
  ASSUME TypeOK, OwnerInv, ListRule, NEW n \in Fqdn, NEW h \in Reach(n)
  PROVE  Owns(n, h)'
<1>1. Rule.id \in RuleId
  BY RuleType DEF TypeOK, RuleConfig, ListRule
<1>2. UNCHANGED <<wl, desired, prov>> /\ entries' = wl[Rule.id]
  BY DEF ListRule, memoryVars
<1>3. Owns(n, h)
  BY DEF OwnerInv, Owns
<1>. QED  BY <1>1, <1>2, <1>3 DEF Owns

\* A step that is not a lookup keeps an address with its owner.
LEMMA OwnerStep ==
  ASSUME OneOwner, TypeOK, HistoryInv, OwnerInv, [HNext]_hvars,
         ~\E m \in Fqdn : \E a \in Outcomes[m] \cup {Failure} : HResolve(m, a),
         NEW n \in Fqdn, NEW h \in Reach(n)
  PROVE  Owns(n, h)'
<1>1. CASE \/ \E c \in Configs, force \in BOOLEAN : HStart(c, force)
           \/ \E id \in Provider : HFetch(id)
           \/ HTick
  <2>1. UNCHANGED <<wl, entries, desired>>
    BY <1>1 DEF HStart, StartCycle, HFetch, BeginFetch, HTick, Tick, providerRest, passVars
  <2>2. \A id \in Provider : prov'[id].prefixes = prov[id].prefixes
    <3>1. prov \in [Provider -> ProviderState]
      BY DEF TypeOK
    <3>2. ASSUME NEW c \in Configs, NEW force \in BOOLEAN, StartCycle(c, force)
          PROVE  \A id \in Provider : prov'[id].prefixes = prov[id].prefixes
      BY <3>1, <3>2 DEF StartCycle, ProviderState
    <3>3. ASSUME NEW i \in Provider, BeginFetch(i)
          PROVE  \A id \in Provider : prov'[id].prefixes = prov[id].prefixes
      BY <3>1, <3>3 DEF BeginFetch, ProviderState
    <3>4. CASE Tick
      BY <3>1, <3>4 DEF Tick, ProviderState
    <3>. QED  BY <1>1, <3>2, <3>3, <3>4 DEF HStart, HFetch, HTick
  <2>. QED  BY <2>1, <2>2, OwnerSame
<1>2. CASE HFinish \/ HRestart \/ ListFails \/ RuleReturns
  <2>1. wl' = wl /\ (entries' = entries \/ entries' = NoEntries)
        /\ (desired' = desired \/ desired' = NoDesired)
    BY <1>2 DEF HFinish, FinishCycle, HRestart, Restart, ListFails, RuleReturns, NextRule,
                ClearPass, passVars
  <2>2. \A id \in Provider : prov'[id].prefixes \in {prov[id].prefixes, {}}
    <3>1. NewProviderState.prefixes = {}
      BY DEF NewProviderState
    <3>2. \A id \in Provider : prov'[id] = prov[id] \/ prov'[id] = NewProviderState
      <4>1. CASE HFinish
        BY <4>1, FinishTogether
      <4>2. CASE HRestart \/ ListFails \/ RuleReturns
        BY <4>2 DEF HRestart, Restart, ListFails, RuleReturns, memoryVars
      <4>. QED  BY <1>2, <4>1, <4>2
    <3>. QED  BY <3>1, <3>2
  <2>. QED  BY <2>1, <2>2, OwnerSame
<1>3. ASSUME NEW id \in Provider,
             \/ UseWithoutFetch(id) \/ FetchFails(id)
             \/ \E list \in Lists : FetchReturns(id, list)
      PROVE  Owns(n, h)'
  <2>1. UNCHANGED <<wl, entries>>
    BY <1>3 DEF UseWithoutFetch, FetchFails, FetchReturns, providerRest
  <2>2. prov[id] \in ProviderState
    BY DEF TypeOK
  <2>3. PICK st : /\ Authorise(id, st)
                  /\ \/ st \in {prov[id], [prov[id] EXCEPT !.err = TRUE], FetchFailed(prov[id])}
                     \/ \E list \in Lists : st = Fetched(prov[id], list)
    BY <1>3 DEF UseWithoutFetch, FetchFails, FetchReturns
  <2>4. st.prefixes = prov[id].prefixes \/ st.prefixes \in Lists
    BY <2>2, <2>3 DEF FetchFailed, Fetched, ProviderState
  <2>. QED  BY <2>1, <2>3, <2>4, OwnerAuthorise
<1>4. CASE FqdnsDone \/ BeginAdds \/ BeginRemoves \/ UNCHANGED hvars
  <2>1. UNCHANGED <<wl, entries, desired, prov>>
    BY <1>4 DEF FqdnsDone, BeginAdds, BeginRemoves, hvars, vars, memoryVars, passVars
  <2>. QED  BY <2>1, OwnerSame
<1>5. CASE AdminStep
  <2>1. PICK r \in RuleId, k \in Key, comment \in {Admin, None} : AdminEdits(r, k, comment)
    BY <1>5 DEF AdminStep
  <2>. QED  BY <2>1, OwnerPut DEF AdminEdits, memoryVars, passVars
<1>6. CASE ListRule \/ WriteStep
  BY <1>6, OwnerList, OwnerWrite
<1>. QED  BY <1>1, <1>2, <1>3, <1>4, <1>5, <1>6 DEF HNext

\* What history remembers of a name changes with its lookups, or is forgotten.
LEMMA RemembersLookups ==
  ASSUME TypeOK, HistoryInv, OwnerInv, [HNext]_hvars,
         ~\E m \in Fqdn : \E a \in Outcomes[m] \cup {Failure} : HResolve(m, a)
  PROVE  \A n \in Fqdn : lastKnown'[n] \subseteq Reach(n)
<1>1. CASE lastKnown' = lastKnown
  BY <1>1 DEF OwnerInv
<1>2. CASE HFinish
  BY <1>2, FinishTogether DEF OwnerInv
<1>3. CASE \/ \E c \in Configs, force \in BOOLEAN : HStart(c, force)
           \/ \E id \in Provider : HFetch(id)
           \/ HTick \/ HRestart \/ UNCHANGED history \/ UNCHANGED hvars
  BY <1>1, <1>3 DEF HStart, HFetch, HTick, HRestart, hvars, history
<1>. QED  BY <1>2, <1>3 DEF HNext

\* Every step leaves an address with its owner.
LEMMA OwnerNext ==
  ASSUME OneOwner, TypeOK, HistoryInv, OwnerInv, [HNext]_hvars
  PROVE  OwnerInv'
<1>1. CASE \E m \in Fqdn : \E a \in Outcomes[m] \cup {Failure} : HResolve(m, a)
  BY <1>1, OwnerResolve
<1>2. CASE ~\E m \in Fqdn : \E a \in Outcomes[m] \cup {Failure} : HResolve(m, a)
  <2>1. \A n \in Fqdn : lastKnown'[n] \subseteq Reach(n)
    BY <1>2, RemembersLookups
  <2>2. \A n \in Fqdn : \A h \in Reach(n) : Owns(n, h)'
    BY <1>2, OwnerStep
  <2>. QED  BY <2>1, <2>2 DEF OwnerInv, Owns
<1>. QED  BY <1>1, <1>2

\* Between passes nothing has failed.
LEMMA FailedNot ==
  ASSUME report' = NoReport
  PROVE  FailedInv'
<1>1. \A n \in Fqdn : report'[n] = "none"
  BY DEF NoReport, Source
<1>. QED  BY <1>1 DEF FailedInv

\* The clock of a name that failed moves forward only.
LEMMA FailedSame ==
  ASSUME TypeOK, FailedInv, UNCHANGED <<cfg, entries>>,
         \A n \in Fqdn : report'[n] = report[n] /\ failing'[n] >= failing[n],
         \A n \in Fqdn : failing'[n] \in Int
  PROVE  FailedInv'
<1>1. cfg.grace \in Int /\ \A n \in Fqdn : failing[n] \in Int
  BY TimeAssumption DEF TypeOK, Config, NotFailing
<1>2. \A n \in Fqdn : OwnedBy(n)' = OwnedBy(n)
  BY DEF OwnedBy
<1>. QED  BY <1>1, <1>2 DEF FailedInv

\* A lookup shown as failed found the window used up, or nothing to keep.
LEMMA FailedResolve ==
  ASSUME KeepsGrace, TypeOK, HistoryInv, FailedInv,
         NEW m \in Fqdn, NEW a \in Outcomes[m] \cup {Failure}, ResolveFqdn(m, a)
  PROVE  FailedInv'
<1>1. cfg.grace \in Nat /\ cfg.grace > 0
  BY LooksUpItsOwn
<1>2. a.kind \in {"ok", "notfound", "fail"} /\ m \in Source
  BY InputAssumption DEF Answer, Failure, Source
<1>3. UNCHANGED <<cfg, entries>>
  BY DEF ResolveFqdn
<1>4. \A n \in Fqdn : OwnedBy(n)' = OwnedBy(n)
  BY <1>3 DEF OwnedBy
<1>5. \A n \in Fqdn : n # m => report'[n] = report[n] /\ failing'[n] = failing[n]
  BY <1>2 DEF ResolveFqdn, ResolveSucceeds, ResolveNotFound, ResolveFails, TypeOK, Source
<1>6. report'[m] = "failed" => /\ failing'[m] = Outage(m)
                               /\ \/ ~graceLeft(m)
                                  \/ keepableOwned(cfg.blocked, OwnedBy(m)) = {}
  <2>1. CASE a.kind # "fail"
    <3>1. report'[m] \in {"ok", "offline", "notfound"}
      BY <1>2, <2>1 DEF ResolveFqdn, ResolveSucceeds, ResolveNotFound, TypeOK
    <3>. QED  BY <3>1
  <2>2. CASE a.kind = "fail"
    <3>1. ResolveFails(m)
      BY <2>2 DEF ResolveFqdn
    <3>2. failing'[m] = Outage(m)
      BY <1>1, <3>1 DEF ResolveFails, TypeOK
    <3>3. report'[m] = IF graceLeft(m) /\ keepableOwned(cfg.blocked, OwnedBy(m)) # {}
                       THEN "grace" ELSE "failed"
      BY <1>2, <3>1 DEF ResolveFails, TypeOK
    <3>. QED  BY <3>2, <3>3
  <2>. QED  BY <2>1, <2>2
<1>7. Outage(m) \in Int
  BY TimeAssumption DEF Outage, TypeOK, NotFailing
<1>8. ~graceLeft(m) => Outage(m) >= cfg.grace
  BY <1>1, <1>7 DEF graceLeft
<1>9. ASSUME NEW n \in Fqdn, report'[n] = "failed"
      PROVE  /\ cfg'.grace > 0
             /\ \/ failing'[n] >= cfg'.grace
                \/ keepableOwned(cfg'.blocked, OwnedBy(n)') = {}
  <2>1. CASE n = m
    BY <1>1, <1>3, <1>4, <1>6, <1>8, <1>9, <2>1
  <2>2. CASE n # m
    BY <1>3, <1>4, <1>5, <1>9, <2>2 DEF FailedInv
  <2>. QED  BY <2>1, <2>2
<1>. QED  BY <1>9 DEF FailedInv

\* Every step keeps the reason why a name is shown as failed.
LEMMA FailedNext ==
  ASSUME KeepsGrace, TypeOK, HistoryInv, GraceKeeps, FailedInv, [Next]_vars
  PROVE  FailedInv'
<1>1. CASE \/ FinishCycle \/ ListRule
           \/ \E c \in Configs, force \in BOOLEAN : StartCycle(c, force)
  <2>1. report' = report /\ Between
    BY <1>1 DEF FinishCycle, ListRule, StartCycle, passVars, Between
  <2>. QED  BY <2>1, FailedNot DEF GraceKeeps
<1>2. CASE Restart \/ ListFails \/ RuleReturns
  BY <1>2, FailedNot DEF Restart, ListFails, RuleReturns, NextRule, ClearPass
<1>3. CASE FqdnStep
  BY <1>3, FailedResolve DEF FqdnStep
<1>4. CASE Tick
  <2>1. \A n \in Fqdn : failing[n] \in Int /\ failing'[n] \in Int /\ failing'[n] >= failing[n]
    BY <1>4, TimeAssumption DEF Tick, TypeOK, Older, NotFailing
  <2>2. UNCHANGED <<cfg, entries, report>>
    BY <1>4 DEF Tick, passVars
  <2>. QED  BY <2>1, <2>2, FailedSame
<1>5. CASE \/ FqdnsDone \/ ProviderStep \/ BeginAdds \/ BeginRemoves \/ WriteStep
           \/ AdminStep \/ UNCHANGED vars
  <2>1. UNCHANGED <<cfg, entries, failing>>
    BY <1>5 DEF FqdnsDone, ProviderStep, UseWithoutFetch, BeginFetch, FetchReturns, FetchFails,
                providerRest, BeginAdds, BeginRemoves, WriteStep, AddEntry, AddFails,
                RemoveEntry, RemoveFails, AdminStep, AdminEdits, vars, memoryVars, passVars
  <2>2. \A n \in Fqdn : report'[n] = report[n]
    <3>1. CASE ProviderStep
      <4>1. \A id \in Provider, n \in Fqdn : id # n /\ n \in Source
        BY SourceAssumption DEF Source
      <4>2. report' = report \/ \E id \in Provider : \E row : report' = [report EXCEPT ![id] = row]
        <5>1. ASSUME NEW id \in Provider, NEW st, Authorise(id, st)
              PROVE  \E row : report' = [report EXCEPT ![id] = row]
          BY <5>1 DEF Authorise
        <5>2. report' = report \/ \E id \in Provider : \E st : Authorise(id, st)
          BY <3>1 DEF ProviderStep, UseWithoutFetch, BeginFetch, FetchReturns, FetchFails
        <5>. QED  BY <5>1, <5>2
      <4>. QED  BY <4>1, <4>2 DEF TypeOK
    <3>2. CASE ~ProviderStep
      BY <1>5, <3>2 DEF FqdnsDone, BeginAdds, BeginRemoves, WriteStep, AddEntry, AddFails,
                        RemoveEntry, RemoveFails, AdminStep, AdminEdits, vars, passVars
    <3>. QED  BY <3>1, <3>2
  <2>3. \A n \in Fqdn : failing[n] \in Int
    BY TimeAssumption DEF TypeOK, NotFailing
  <2>. QED  BY <2>1, <2>2, <2>3, FailedSame
<1>. QED  BY <1>1, <1>2, <1>3, <1>4, <1>5 DEF Next, PluginStep

\* The addresses a name was last known to have stay in the whitelist while its
\* lookups fail within the window, whatever a cycle deletes, if an address has
\* one owner and the names have a window; only the never-authorise list goes
\* before the grace.
THEOREM LastKnownStays ==
  ASSUME OneOwner, KeepsGrace
  PROVE  HSpec => LastKnownKept
<1>1. HSpec => []OwnerInv
  BY OwnerInit, OwnerNext, HistoryCorrect, HistoryObserves, TypeCorrect, PTL DEF HSpec
<1>2. Init => FailedInv
  BY DEF Init, FailedInv, NoReport, Source
<1>3. HSpec => []ClaimInv
  BY HistoryObserves, ClaimCorrect, PTL
<1>4. ClaimInv => GraceKeeps
  BY DEF ClaimInv
<1>5. HInit => Init
  BY DEF HInit
<1>6. HSpec => []FailedInv
  BY <1>2, <1>3, <1>4, <1>5, ObservedNext, FailedNext, HistoryCorrect, HistoryObserves,
     TypeCorrect, PTL DEF HSpec
<1>7. TypeOK /\ PassInv /\ OwnerInv /\ GraceKeeps /\ FailedInv =>
        [WriteStep => \A f \in Fqdn, h \in Host :
           /\ h \in lastKnown[f] /\ Deletes(Cidr({h}))
           /\ report[f] \in {"grace", "failed"} /\ failing[f] < cfg.grace
           => Overlaps(cfg.blocked, {h})]_hvars
  <2>1. SUFFICES ASSUME TypeOK, PassInv, OwnerInv, GraceKeeps, FailedInv, WriteStep,
                        NEW f \in Fqdn, NEW h \in Host, h \in lastKnown[f],
                        Deletes(Cidr({h})),
                        report[f] \in {"grace", "failed"}, failing[f] < cfg.grace,
                        ~Overlaps(cfg.blocked, {h})
                 PROVE  FALSE
    OBVIOUS
  <2>. DEFINE k == Cidr({h})
  <2>2. k \in Key /\ canonicalEntry(k) = {h} /\ k = Cidr(canonicalEntry(k)) /\ {h} \in Prefix
    BY PrefixAssumption DEF Key, Cidr, canonicalEntry
  <2>. HIDE DEF k
  <2>3. Obsolete(k) /\ entries[k] \in Source
    BY <2>1, <2>2, DeletesObsolete
  <2>4. desired[{h}] = None
    BY <2>2, <2>3 DEF Obsolete
  <2>5. h \in Reach(f)
    BY <2>1 DEF OwnerInv
  <2>6. entries[k] = f
    BY <2>1, <2>2, <2>3, <2>5, SourceAssumption DEF OwnerInv
  <2>7. {h} \in keepableOwned(cfg.blocked, OwnedBy(f))
    BY <2>1, <2>2, <2>6 DEF keepableOwned, ownedAddressIsUnroutable, OwnedBy
  <2>8. CASE report[f] = "grace"
    BY <2>1, <2>4, <2>7, <2>8 DEF GraceKeeps, Wanted
  <2>9. CASE report[f] = "failed"
    <3>1. failing[f] >= cfg.grace
      BY <2>1, <2>7, <2>9 DEF FailedInv
    <3>2. failing[f] \in Int /\ cfg.grace \in Int
      BY <2>1, TimeAssumption DEF TypeOK, Config, NotFailing
    <3>. QED  BY <2>1, <3>1, <3>2
  <2>. QED  BY <2>1, <2>8, <2>9
<1>. QED
  BY <1>1, <1>3, <1>4, <1>6, <1>7, HistoryObserves, PassCorrect, TypeCorrect, PTL
  DEF LastKnownKept
===============================================================================
