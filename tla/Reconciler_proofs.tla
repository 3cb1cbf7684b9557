--------------------------- MODULE Reconciler_proofs ---------------------------
(***************************************************************************)
(* Proofs about Reconciler, for every set of addresses, names, providers,  *)
(* rules and configurations and for any number of faults.                  *)
(*                                                                         *)
(* TypeOK: the variables keep their types.                                 *)
(*                                                                         *)
(* PassInv: what the pass knows of the whitelist.  The plugin wants        *)
(* nothing on the never-authorise list, touches only entries that were its *)
(* own, and takes no wanted access away.                                   *)
(*                                                                         *)
(* ClaimInv: what the names and providers visited have claimed.  No entry  *)
(* of a name in grace is deleted, and a provider's only when a list leaves *)
(* it out.                                                                 *)
(*                                                                         *)
(* BookInv: what the pass still has to write.  A pass without an error     *)
(* leaves the rule exactly as it wants it.                                 *)
(***************************************************************************)
EXTENDS Reconciler, SequenceTheorems, FiniteSetTheorems, TLAPS

-------------------------------------------------------------------------------
(* Types.                                                                    *)

\* While a pass runs, Rule is one of the configured rules.
LEMMA RuleType == TypeOK /\ ri # 0 => Rule \in RuleConfig
  BY DEF TypeOK, Rule, Config

\* What a pass sets for its next rule is well typed, wherever it was.
LEMMA NextRuleType == TypeOK /\ ri # 0 /\ NextRule
    => /\ cfg' = cfg
       /\ pc' \in {"list", "forget"} /\ ri' \in 0..Len(cfg.rules)
       /\ pc' = "forget" <=> ri' = 0
  BY DEF TypeOK, NextRule, Config

\* The values the locals of a pass have when there is none.
LEMMA ClearPassType == ClearPass
    => /\ todo' \in Seq(Source) /\ entries' \in [Key -> Comment]
       /\ managed' \in SUBSET Key /\ desired' \in [Prefix -> Source \cup {None}]
       /\ adding' \in SUBSET Prefix /\ authorised' \in SUBSET Prefix
       /\ removing' \in SUBSET Key /\ errs' \in SUBSET Key
       /\ report' \in [Source -> Row]
       /\ edited' \in SUBSET Key
  BY DEF ClearPass, NoEntries, NoDesired, NoReport, Comment, Row

\* Claiming prefixes for a source keeps the desired set a function to sources.
LEMMA ClaimType ==
  ASSUME NEW d \in [Prefix -> Source \cup {None}], NEW s \in Source, NEW ps
  PROVE  Claim(d, ps, s) \in [Prefix -> Source \cup {None}]
  BY DEF Claim

\* Counting a fault keeps the count within its bound.
LEMMA FaultType ==
  ASSUME faults \in 0..MaxFaults, NEW kind, Fault(kind)
  PROVE  faults' \in 0..MaxFaults
  BY TimeAssumption DEF Fault

\* The provider states a pass can leave behind.
LEMMA ProviderStateType ==
  ASSUME TypeOK, NEW id \in Provider, NEW list \in Lists, NEW b \in BOOLEAN
  PROVE  /\ prov[id] \in ProviderState
         /\ NewProviderState \in ProviderState
         /\ [prov[id] EXCEPT !.err = TRUE] \in ProviderState
         /\ [prov[id] EXCEPT !.forcedSeen = b] \in ProviderState
         /\ FetchFailed(prov[id]) \in ProviderState
         /\ Fetched(prov[id], list) \in ProviderState
<1>1. prov[id] \in ProviderState
  BY DEF TypeOK
<1>2. /\ list \in SUBSET Prefix
      /\ cfg.period \in 0..MaxAge /\ Retry \in 0..MaxAge
  BY TimeAssumption, InputAssumption DEF TypeOK, Config
<1>3. NewProviderState \in ProviderState
  BY TimeAssumption DEF ProviderState, NewProviderState
<1>4. /\ [prov[id] EXCEPT !.err = TRUE] \in ProviderState
      /\ [prov[id] EXCEPT !.forcedSeen = b] \in ProviderState
  BY <1>1 DEF ProviderState
<1>5. FetchFailed(prov[id]) \in ProviderState
  BY <1>1, <1>2 DEF ProviderState, FetchFailed
<1>6. Fetched(prov[id], list) \in ProviderState
  BY <1>1, <1>2 DEF ProviderState, Fetched
<1>. QED  BY <1>1, <1>3, <1>4, <1>5, <1>6

\* Between cycles the configuration held is one, with no rules.
LEMMA NoConfigType == NoConfig \in Config /\ Len(NoConfig.rules) = 0
  BY TimeAssumption, EmptySeq DEF NoConfig, Config

\* Sequences of names, and of providers, are sequences of sources.
LEMMA SeqOfSources ==
  ASSUME NEW S \in SUBSET Source, NEW s \in Seq(S)
  PROVE  s \in Seq(Source)
  BY SeqDef, LenProperties

\* The first state is well typed.
LEMMA TypeInit == Init => TypeOK
<1>1. SUFFICES ASSUME Init PROVE TypeOK
  OBVIOUS
<1>2. wl \in [RuleId -> [Key -> Comment]]
  BY <1>1, InputAssumption DEF Init
<1>3. prov \in [Provider -> ProviderState]
  BY <1>1, TimeAssumption DEF Init, NewProviderState, ProviderState
<1>4. cfg \in Config /\ ri \in 0..Len(cfg.rules)
  BY <1>1, NoConfigType DEF Init
<1>5. /\ entries \in [Key -> Comment]
      /\ desired \in [Prefix -> Source \cup {None}]
      /\ report \in [Source -> Row]
  BY <1>1 DEF Init, NoEntries, NoDesired, NoReport, Comment, Row
<1>6. todo \in Seq(Source) /\ failing \in [Fqdn -> {NotFailing} \cup 0..MaxAge]
  BY <1>1, EmptySeq DEF Init
<1>7. forceAge \in 0..Floor /\ faults \in 0..MaxFaults
  BY <1>1, TimeAssumption DEF Init
<1>. QED
  BY <1>1, <1>2, <1>3, <1>4, <1>5, <1>6, <1>7 DEF Init, TypeOK

\* One lemma for each group of steps that changes much.
LEMMA TypeStart ==
  ASSUME TypeOK, NEW c \in Configs, NEW force \in BOOLEAN, StartCycle(c, force)
  PROVE  TypeOK'
<1>1. c \in Config
  BY InputAssumption
<1>2. prov' \in [Provider -> ProviderState]
  <2>1. CASE forced'
    BY <2>1 DEF TypeOK, StartCycle, ProviderState
  <2>2. CASE ~forced'
    BY <2>2 DEF TypeOK, StartCycle
  <2>. QED  BY <2>1, <2>2
<1>3. /\ forceAge' \in 0..Floor /\ forced' \in BOOLEAN
      /\ pc' \in {"list", "forget"} /\ ri' \in 0..Len(cfg'.rules)
      /\ pc' = "forget" <=> ri' = 0
  <2>1. c.rules \in Seq(RuleConfig)
    BY <1>1 DEF Config
  <2>2. c.rules # <<>> => 1 \in 0..Len(c.rules)
    BY <2>1, EmptySeq
  <2>. QED
    BY <2>1, <2>2, TimeAssumption DEF TypeOK, StartCycle
<1>. QED
  BY <1>1, <1>2, <1>3 DEF TypeOK, StartCycle, passVars

\* Reading the list of a rule, or failing to, keeps the types.
LEMMA TypeListRule == TypeOK /\ ListRule => TypeOK'
<1>1. SUFFICES ASSUME TypeOK, ListRule PROVE TypeOK'
  OBVIOUS
<1>2. Rule \in RuleConfig
  BY <1>1, RuleType DEF TypeOK, ListRule
<1>3. entries' \in [Key -> Comment]
  BY <1>1, <1>2 DEF TypeOK, ListRule, RuleConfig
<1>4. managed' \in SUBSET Key
  BY <1>1 DEF ListRule, ManagedChoices, Owned
<1>5. todo' \in Seq(Source)
  <2>1. Rule.fqdns \in Seq(Fqdn)
    BY <1>2 DEF RuleConfig
  <2>. QED  BY <1>1, <2>1, SeqOfSources DEF ListRule, Source
<1>. QED
  BY <1>1, <1>3, <1>4, <1>5 DEF TypeOK, ListRule, memoryVars

\* A lookup, whatever it answers, keeps the types.
LEMMA TypeResolve ==
  ASSUME TypeOK, NEW n \in Fqdn, NEW a \in Outcomes[n] \cup {Failure}, ResolveFqdn(n, a)
  PROVE  TypeOK'
<1>1. a.kind \in {"ok", "notfound", "fail"}
  BY InputAssumption DEF Answer, Failure
<1>2. n \in Source
  BY DEF Source
<1>3. Outage(n) \in 0..MaxAge
  BY TimeAssumption DEF TypeOK, Outage
<1>4. /\ failing' \in [Fqdn -> {NotFailing} \cup 0..MaxAge]
      /\ desired' \in [Prefix -> Source \cup {None}]
      /\ report' \in [Source -> Row]
  <2>1. CASE a.kind = "ok"
    <3>1. failing' \in [Fqdn -> {NotFailing} \cup 0..MaxAge]
      BY <2>1 DEF TypeOK, ResolveFqdn, ResolveSucceeds
    <3>2. report' \in [Source -> Row]
      BY <2>1 DEF TypeOK, ResolveFqdn, ResolveSucceeds, Row
    <3>3. desired' \in [Prefix -> Source \cup {None}]
      <4>1. \E ps : desired' = Claim(desired, ps, n)
        BY <2>1 DEF ResolveFqdn, ResolveSucceeds
      <4>. QED  BY <1>2, <4>1, ClaimType DEF TypeOK
    <3>. QED  BY <3>1, <3>2, <3>3
  <2>2. CASE a.kind = "notfound"
    BY <1>2, <2>2 DEF TypeOK, ResolveFqdn, ResolveNotFound, Row
  <2>3. CASE a.kind = "fail"
    <3>1. failing' \in [Fqdn -> {NotFailing} \cup 0..MaxAge]
      BY <1>3, <2>3 DEF TypeOK, ResolveFqdn, ResolveFails
    <3>2. report' \in [Source -> Row]
      BY <2>3 DEF TypeOK, ResolveFqdn, ResolveFails, Row
    <3>3. desired' \in [Prefix -> Source \cup {None}]
      <4>1. desired' = desired \/ \E ps : desired' = Claim(desired, ps, n)
        BY <2>3 DEF ResolveFqdn, ResolveFails
      <4>. QED  BY <1>2, <4>1, ClaimType DEF TypeOK
    <3>. QED  BY <3>1, <3>2, <3>3
  <2>. QED  BY <1>1, <2>1, <2>2, <2>3
<1>5. faults' \in 0..MaxFaults
  BY FaultType DEF TypeOK, ResolveFqdn
<1>6. todo' \in Seq(Source)
  BY HeadTailProperties DEF TypeOK, ResolveFqdn
<1>. QED
  BY <1>4, <1>5, <1>6 DEF TypeOK, ResolveFqdn

\* Going from the names to the providers keeps the types.
LEMMA TypeFqdnsDone == TypeOK /\ FqdnsDone => TypeOK'
<1>1. SUFFICES ASSUME TypeOK, FqdnsDone PROVE TypeOK'
  OBVIOUS
<1>2. Rule.providers \in Seq(Provider)
  BY <1>1, RuleType DEF TypeOK, FqdnsDone, RuleConfig
<1>3. todo' \in Seq(Source)
  BY <1>1, <1>2, SeqOfSources DEF FqdnsDone, Source
<1>. QED
  BY <1>1, <1>3 DEF TypeOK, FqdnsDone, memoryVars, passVars

\* Authorise, whichever provider state it is given.
LEMMA TypeAuthorise ==
  ASSUME TypeOK, NEW id \in Provider, NEW st \in ProviderState,
         todo # <<>>, Authorise(id, st)
  PROVE  /\ prov' \in [Provider -> ProviderState]
         /\ desired' \in [Prefix -> Source \cup {None}]
         /\ report' \in [Source -> Row]
         /\ todo' \in Seq(Source)
         /\ pc' = "providers"
<1>1. prov' \in [Provider -> ProviderState]
  BY DEF TypeOK, Authorise
<1>2. desired' \in [Prefix -> Source \cup {None}]
  <2>1. \E ps : desired' = Claim(desired, ps, id)
    BY DEF Authorise
  <2>. QED  BY <2>1, ClaimType DEF TypeOK, Source
<1>3. report' \in [Source -> Row]
  <2>1. \A rejected, err, ps : ProviderRow(rejected, err, ps) \in Row
    BY DEF ProviderRow, Row
  <2>2. \E row \in Row : report' = [report EXCEPT ![id] = row]
    BY <2>1 DEF Authorise
  <2>. QED  BY <2>2 DEF TypeOK
<1>4. todo' \in Seq(Source)
  BY HeadTailProperties DEF TypeOK, Authorise
<1>. QED  BY <1>1, <1>2, <1>3, <1>4 DEF Authorise

\* Every step of the provider pass keeps the types.
LEMMA TypeProvider ==
  ASSUME TypeOK, NEW id \in Provider,
         \/ UseWithoutFetch(id)
         \/ BeginFetch(id)
         \/ \E list \in Lists : FetchReturns(id, list)
         \/ FetchFails(id)
  PROVE  TypeOK'
<1>1. prov[id] \in ProviderState
  BY DEF TypeOK
<1>2. CASE UseWithoutFetch(id)
  <2>1. \E st \in ProviderState : Authorise(id, st)
    BY <1>1, <1>2 DEF UseWithoutFetch, ProviderState
  <2>. QED
    BY <1>2, <2>1, TypeAuthorise DEF TypeOK, UseWithoutFetch, providerRest
<1>3. CASE BeginFetch(id)
  <2>1. prov' \in [Provider -> ProviderState]
    BY <1>1, <1>3 DEF TypeOK, BeginFetch, ProviderState
  <2>. QED
    BY <1>3, <2>1 DEF TypeOK, BeginFetch, providerRest
<1>4. ASSUME NEW list \in Lists, FetchReturns(id, list)
      PROVE  TypeOK'
  <2>1. \E st \in ProviderState : Authorise(id, st)
    BY <1>4, ProviderStateType DEF FetchReturns
  <2>2. todo # <<>>
    BY <1>4 DEF TypeOK, FetchReturns
  <2>. QED
    BY <1>4, <2>1, <2>2, TypeAuthorise DEF TypeOK, FetchReturns, providerRest
<1>5. CASE FetchFails(id)
  <2>1. FetchFailed(prov[id]) \in ProviderState
    <3>1. Retry \in 0..MaxAge
      BY TimeAssumption
    <3>. QED  BY <1>1, <3>1 DEF FetchFailed, ProviderState
  <2>2. todo # <<>> /\ Authorise(id, FetchFailed(prov[id]))
    BY <1>5 DEF TypeOK, FetchFails
  <2>3. faults' \in 0..MaxFaults
    BY <1>5, FaultType DEF TypeOK, FetchFails
  <2>. QED
    BY <1>5, <2>1, <2>2, <2>3, TypeAuthorise DEF TypeOK, FetchFails, providerRest
<1>. QED  BY <1>2, <1>3, <1>4, <1>5

\* Writing a comment to an entry of the rule at hand.
LEMMA TypePut ==
  ASSUME TypeOK, NEW k \in Key, NEW comment \in Comment, Put(k, comment)
  PROVE  wl' \in [RuleId -> [Key -> Comment]]
  BY DEF TypeOK, Put

\* Every step of the adds keeps the types.
LEMMA TypeAdds ==
  ASSUME TypeOK, BeginAdds \/ BeginRemoves \/ \E p \in Prefix : AddEntry(p) \/ AddFails(p)
  PROVE  TypeOK'
<1>1. CASE BeginAdds
  BY <1>1 DEF TypeOK, BeginAdds, memoryVars
<1>2. CASE BeginRemoves
  BY <1>2 DEF TypeOK, BeginRemoves, memoryVars
<1>3. ASSUME NEW p \in Prefix, AddEntry(p) \/ AddFails(p)
      PROVE  TypeOK'
  <2>1. Cidr(p) \in Key /\ desired[p] \in Comment
    BY DEF TypeOK, Key, Comment
  <2>2. CASE AddEntry(p)
    BY <2>1, <2>2, TypePut DEF TypeOK, AddEntry, memoryVars
  <2>3. CASE AddFails(p)
    <3>1. wl' \in [RuleId -> [Key -> Comment]]
      BY <2>1, <2>3, TypePut DEF TypeOK, AddFails
    <3>2. faults' \in 0..MaxFaults
      BY <2>3, FaultType DEF TypeOK, AddFails
    <3>. QED  BY <2>1, <2>3, <3>1, <3>2 DEF TypeOK, AddFails, memoryVars
  <2>. QED  BY <1>3, <2>2, <2>3
<1>. QED  BY <1>1, <1>2, <1>3

\* Every step of the removes keeps the types.
LEMMA TypeRemoves ==
  ASSUME TypeOK, NEW k \in Key, RemoveEntry(k) \/ RemoveFails(k)
  PROVE  TypeOK'
<1>1. None \in Comment
  BY DEF Comment
<1>2. CASE RemoveEntry(k)
  BY <1>1, <1>2, TypePut DEF TypeOK, RemoveEntry, memoryVars
<1>3. CASE RemoveFails(k)
  <2>1. wl' \in [RuleId -> [Key -> Comment]]
    BY <1>1, <1>3, TypePut DEF TypeOK, RemoveFails
  <2>2. faults' \in 0..MaxFaults
    BY <1>3, FaultType DEF TypeOK, RemoveFails
  <2>. QED  BY <1>3, <2>1, <2>2 DEF TypeOK, RemoveFails, memoryVars
<1>. QED  BY <1>2, <1>3

\* Returning from a rule keeps the types.
LEMMA TypeNextRule ==
  ASSUME TypeOK, ListFails \/ RuleReturns
  PROVE  TypeOK'
<1>1. ri # 0 /\ NextRule
  BY DEF TypeOK, ListFails, RuleReturns
<1>2. faults' \in 0..MaxFaults
  BY FaultType DEF TypeOK, ListFails, RuleReturns
<1>3. UNCHANGED <<wl, memoryVars>>
  BY DEF ListFails, RuleReturns
<1>4. ClearPass
  BY <1>1 DEF NextRule
<1>. QED
  BY <1>1, <1>2, <1>3, <1>4, NextRuleType, ClearPassType DEF TypeOK, memoryVars

\* Forgetting what is no longer configured keeps the types.
LEMMA TypeFinish == TypeOK /\ FinishCycle => TypeOK'
<1>1. SUFFICES ASSUME TypeOK, FinishCycle PROVE TypeOK'
  OBVIOUS
<1>2. prov' \in [Provider -> ProviderState]
  <2>1. NewProviderState \in ProviderState
    BY TimeAssumption DEF NewProviderState, ProviderState
  <2>. QED  BY <1>1, <2>1 DEF TypeOK, FinishCycle
<1>3. failing' \in [Fqdn -> {NotFailing} \cup 0..MaxAge]
  BY <1>1 DEF TypeOK, FinishCycle
<1>4. cfg' \in Config /\ ri' = 0 /\ ri' \in 0..Len(cfg'.rules) /\ pc' = "idle"
  BY <1>1, NoConfigType DEF TypeOK, FinishCycle
<1>. QED
  BY <1>1, <1>2, <1>3, <1>4 DEF TypeOK, FinishCycle, passVars

\* The passing of time keeps the types: ages and countdowns stop at their bounds.
LEMMA TypeTick == TypeOK /\ Tick => TypeOK'
<1>1. SUFFICES ASSUME TypeOK, Tick PROVE TypeOK'
  OBVIOUS
<1>2. failing' \in [Fqdn -> {NotFailing} \cup 0..MaxAge]
  BY <1>1, TimeAssumption DEF TypeOK, Tick, Older, NotFailing
<1>3. prov' \in [Provider -> ProviderState]
  <2>1. ASSUME NEW st \in ProviderState
        PROVE  [st EXCEPT !.due = IF @ > 0 THEN @ - 1 ELSE 0] \in ProviderState
    <3>1. (IF st.due > 0 THEN st.due - 1 ELSE 0) \in 0..MaxAge
      BY TimeAssumption DEF ProviderState
    <3>. QED  BY <3>1 DEF ProviderState
  <2>. QED  BY <1>1, <2>1 DEF TypeOK, Tick
<1>4. forceAge' \in 0..Floor
  BY <1>1, TimeAssumption DEF TypeOK, Tick, Older
<1>. QED
  BY <1>1, <1>2, <1>3, <1>4 DEF TypeOK, Tick, passVars

\* An edit by the administrator and a restart keep the types.
LEMMA TypeEnvironment ==
  ASSUME TypeOK, AdminStep \/ Restart
  PROVE  TypeOK'
<1>1. ASSUME NEW r \in RuleId, NEW k \in Key, NEW comment \in {Admin, None},
             AdminEdits(r, k, comment)
      PROVE  TypeOK'
  <2>1. wl' \in [RuleId -> [Key -> Comment]] /\ edited' \in SUBSET Key
    BY <1>1 DEF TypeOK, AdminEdits, Comment
  <2>2. faults' \in 0..MaxFaults
    BY <1>1, FaultType DEF TypeOK, AdminEdits
  <2>. QED
    BY <1>1, <2>1, <2>2 DEF TypeOK, AdminEdits, memoryVars, passVars
<1>2. CASE Restart
  <2>1. NewProviderState \in ProviderState
    BY TimeAssumption DEF NewProviderState, ProviderState
  <2>2. faults' \in 0..MaxFaults /\ forceAge' \in 0..Floor
    BY <1>2, FaultType, TimeAssumption DEF TypeOK, Restart
  <2>3. cfg' \in Config /\ ri' = 0 /\ ri' \in 0..Len(cfg'.rules)
    BY <1>2, NoConfigType DEF Restart
  <2>4. ClearPass
    BY <1>2 DEF Restart
  <2>. QED
    BY <1>2, <2>1, <2>2, <2>3, <2>4, ClearPassType DEF TypeOK, Restart
<1>. QED  BY <1>1, <1>2 DEF AdminStep

\* Every step keeps the types.
LEMMA TypeNext == TypeOK /\ [Next]_vars => TypeOK'
<1>1. SUFFICES ASSUME TypeOK, [Next]_vars PROVE TypeOK'
  OBVIOUS
<1>2. CASE UNCHANGED vars
  BY <1>1, <1>2 DEF TypeOK, vars, memoryVars, passVars
<1>3. CASE PluginStep
  BY <1>1, <1>3, TypeStart, TypeListRule, TypeNextRule, TypeResolve,
     TypeFqdnsDone, TypeProvider, TypeAdds, TypeRemoves, TypeFinish
  DEF PluginStep, FqdnStep, ProviderStep, WriteStep
<1>. QED
  BY <1>1, <1>2, <1>3, TypeTick, TypeEnvironment DEF Next

\* Every variable keeps its type: in particular a pass never reads past the
\* configured rules, and a fetch is always for the provider at hand.
THEOREM TypeCorrect == Spec => []TypeOK
  BY TypeInit, TypeNext, PTL DEF Spec

-------------------------------------------------------------------------------
(* What a pass knows of the whitelist: PassInv.                              *)

\* Claiming prefixes that do not overlap the list wants nothing that does.
LEMMA ClaimAllowed ==
  ASSUME NEW d \in [Prefix -> Source \cup {None}], NEW ps, NEW s, NEW b,
         \A p \in Prefix : d[p] # None => ~Overlaps(b, p),
         \A p \in ps : ~Overlaps(b, p)
  PROVE  \A p \in Prefix : Claim(d, ps, s)[p] # None => ~Overlaps(b, p)
  BY DEF Claim

\* Nothing is wanted when desired is empty.
LEMMA WantsNothing == desired = NoDesired => \A p \in Prefix : ~Wanted(p)
  BY DEF NoDesired, Wanted

\* At its first start the plugin holds nothing.
LEMMA PassInit == Init => PassInv
  BY WantsNothing
  DEF Init, PassInv, HoldsNothing, NeverWantsBlocked, ListIsCurrent, HoldsItsOwn,
      AuthorisedHolds, RemovesObsolete, Reading

\* Between passes there is nothing to hold.
LEMMA PassCleared ==
  ASSUME ClearPass, pc' \in {"idle", "list", "forget"}
  PROVE  PassInv'
<1>1. \A p \in Prefix : desired'[p] = None
  BY DEF ClearPass, NoDesired
<1>. QED
  BY <1>1
  DEF ClearPass, PassInv, HoldsNothing, NeverWantsBlocked, ListIsCurrent,
      HoldsItsOwn, AuthorisedHolds, RemovesObsolete, Reading, Wanted

\* A step between two passes leaves nothing held.
LEMMA PassBetween ==
  ASSUME TypeOK, PassInv,
         \/ ListFails \/ RuleReturns \/ FinishCycle \/ Restart
         \/ \E c \in Configs, force \in BOOLEAN : StartCycle(c, force)
  PROVE  PassInv'
<1>1. CASE ListFails \/ RuleReturns \/ Restart
  BY <1>1, PassCleared DEF ListFails, RuleReturns, Restart, NextRule
<1>2. CASE FinishCycle \/ \E c \in Configs, force \in BOOLEAN : StartCycle(c, force)
  <2>1. /\ pc \in {"idle", "forget"} /\ pc' \in {"idle", "list", "forget"}
        /\ UNCHANGED passVars
    BY <1>2 DEF FinishCycle, StartCycle
  <2>2. /\ desired' = NoDesired /\ managed' = {} /\ adding' = {}
        /\ authorised' = {} /\ removing' = {}
    BY <2>1 DEF PassInv, HoldsNothing, passVars
  <2>3. \A p \in Prefix : desired'[p] = None
    BY <2>2 DEF NoDesired
  <2>. QED
    BY <2>1, <2>2, <2>3
    DEF PassInv, HoldsNothing, NeverWantsBlocked, ListIsCurrent, HoldsItsOwn,
        AuthorisedHolds, RemovesObsolete, Reading, Wanted
<1>. QED  BY <1>1, <1>2

\* The list a pass starts from is the current one.
LEMMA PassListRule == TypeOK /\ PassInv /\ ListRule => PassInv'
<1>1. SUFFICES ASSUME TypeOK, PassInv, ListRule PROVE PassInv'
  OBVIOUS
<1>2. /\ desired' = NoDesired /\ adding' = {} /\ authorised' = {} /\ removing' = {}
      /\ pc' = "fqdns"
  BY <1>1 DEF PassInv, HoldsNothing, ListRule
<1>3. \A p \in Prefix : desired'[p] = None
  BY <1>2 DEF NoDesired
<1>4. managed' \subseteq Owned(entries')
  BY <1>1 DEF ListRule, ManagedChoices
<1>5. \A k \in Key : wl'[Rule'.id][k] = entries'[k]
  BY <1>1 DEF ListRule, Rule
<1>. QED
  BY <1>2, <1>3, <1>4, <1>5
  DEF PassInv, HoldsNothing, NeverWantsBlocked, ListIsCurrent, HoldsItsOwn,
      AuthorisedHolds, RemovesObsolete, Reading, Wanted

\* A reading step changes desired, and wants nothing that is not allowed.
LEMMA PassReading ==
  ASSUME TypeOK, PassInv, Reading, Reading',
         UNCHANGED <<wl, cfg, ri, entries, managed, adding, authorised, removing, edited>>,
         \A p \in Prefix : Wanted(p)' => ~Overlaps(cfg.blocked, p)
  PROVE  PassInv'
<1>1. adding' = {} /\ authorised' = {} /\ removing' = {}
  BY DEF PassInv, HoldsNothing, Reading
<1>2. ListIsCurrent'
  <2>1. Rule' = Rule
    BY DEF Rule
  <2>2. \A k \in Key : k \in edited \/ wl[Rule.id][k] = entries[k]
    BY DEF PassInv, ListIsCurrent
  <2>. QED  BY <2>1, <2>2 DEF ListIsCurrent
<1>3. managed' \subseteq Owned(entries')
  BY DEF PassInv, HoldsItsOwn
<1>4. NeverWantsBlocked'
  BY DEF NeverWantsBlocked
<1>. QED
  BY <1>1, <1>2, <1>3, <1>4
  DEF PassInv, HoldsNothing, HoldsItsOwn, AuthorisedHolds, RemovesObsolete, Reading

\* The prefixes a name or a provider claims keep what is wanted allowed.
LEMMA PassClaim ==
  ASSUME TypeOK, PassInv, NEW s, NEW ps, \A p \in ps : ~Overlaps(cfg.blocked, p),
         desired' = Claim(desired, ps, s)
  PROVE  \A p \in Prefix : Wanted(p)' => ~Overlaps(cfg.blocked, p)
<1>1. /\ desired \in [Prefix -> Source \cup {None}]
      /\ \A p \in Prefix : desired[p] # None => ~Overlaps(cfg.blocked, p)
  BY DEF TypeOK, PassInv, NeverWantsBlocked, Wanted
<1>2. \A p \in Prefix : Claim(desired, ps, s)[p] # None => ~Overlaps(cfg.blocked, p)
  BY <1>1, ClaimAllowed
<1>. QED  BY <1>2 DEF Wanted

\* A lookup, whatever it answers, wants nothing on the never-authorise list.
LEMMA PassFqdn ==
  ASSUME TypeOK, PassInv, NEW n \in Fqdn, NEW a \in Outcomes[n] \cup {Failure},
         ResolveFqdn(n, a)
  PROVE  PassInv'
<1>1. a.kind \in {"ok", "notfound", "fail"}
  BY InputAssumption DEF Answer, Failure
<1>2. CASE UNCHANGED desired
  <2>1. \A p \in Prefix : Wanted(p)' => ~Overlaps(cfg.blocked, p)
    BY <1>2 DEF PassInv, NeverWantsBlocked, Wanted
  <2>. QED  BY <2>1, PassReading DEF ResolveFqdn, Reading
<1>3. CASE a.kind = "ok"
  <2>. DEFINE ips == {toCIDR(h) : h \in {i \in a.ips : ~Contains(cfg.blocked, i)}}
  <2>1. \A p \in ips : ~Overlaps(cfg.blocked, p)
    BY DEF toCIDR, Contains, Overlaps
  <2>2. desired' = Claim(desired, ips, n)
    BY <1>3 DEF ResolveFqdn, ResolveSucceeds
  <2>3. \A p \in Prefix : Wanted(p)' => ~Overlaps(cfg.blocked, p)
    <3>. HIDE DEF ips
    <3>. QED  BY <2>1, <2>2, PassClaim
  <2>. QED  BY <2>3, PassReading DEF ResolveFqdn, Reading
<1>4. CASE a.kind = "fail" /\ desired' = Claim(desired, keepableOwned(cfg.blocked, OwnedBy(n)), n)
  <2>1. \A p \in keepableOwned(cfg.blocked, OwnedBy(n)) : ~Overlaps(cfg.blocked, p)
    BY DEF keepableOwned, ownedAddressIsUnroutable
  <2>2. \A p \in Prefix : Wanted(p)' => ~Overlaps(cfg.blocked, p)
    BY <1>4, <2>1, PassClaim
  <2>. QED  BY <2>2, PassReading DEF ResolveFqdn, Reading
<1>. QED
  BY <1>1, <1>2, <1>3, <1>4 DEF ResolveFqdn, ResolveNotFound, ResolveFails

\* What a provider is authorised for passes the list, cached or owned.
LEMMA PassAuthorise ==
  ASSUME TypeOK, PassInv, NEW id, NEW st, Authorise(id, st)
  PROVE  \A p \in Prefix : Wanted(p)' => ~Overlaps(cfg.blocked, p)
<1>1. CASE desired' = Claim(desired, keepableOwned(cfg.blocked, OwnedBy(id)), id)
  <2>1. \A p \in keepableOwned(cfg.blocked, OwnedBy(id)) : ~Overlaps(cfg.blocked, p)
    BY DEF keepableOwned, ownedAddressIsUnroutable
  <2>. QED  BY <1>1, <2>1, PassClaim
<1>2. CASE /\ validateAgainstUnroutable(st.prefixes, cfg.blocked)
           /\ desired' = Claim(desired, st.prefixes, id)
  <2>1. \A p \in st.prefixes : ~Overlaps(cfg.blocked, p)
    BY <1>2 DEF validateAgainstUnroutable
  <2>. QED  BY <1>2, <2>1, PassClaim
<1>. QED  BY <1>1, <1>2 DEF Authorise

\* A step of the provider pass wants nothing on the never-authorise list.
LEMMA PassProvider ==
  ASSUME TypeOK, PassInv, ProviderStep \/ FqdnsDone
  PROVE  PassInv'
<1>1. CASE FqdnsDone \/ \E id \in Provider : BeginFetch(id)
  <2>1. /\ Reading /\ Reading'
        /\ UNCHANGED <<wl, cfg, ri, entries, managed, desired, adding, authorised,
                       removing, edited>>
    BY <1>1 DEF FqdnsDone, BeginFetch, providerRest, passVars, Reading
  <2>2. \A p \in Prefix : Wanted(p)' => ~Overlaps(cfg.blocked, p)
    BY <2>1 DEF PassInv, NeverWantsBlocked, Wanted
  <2>. QED  BY <2>1, <2>2, PassReading
<1>2. CASE \E id \in Provider : \/ UseWithoutFetch(id) \/ FetchFails(id)
                                \/ \E list \in Lists : FetchReturns(id, list)
  <2>1. PICK id \in Provider : \/ UseWithoutFetch(id) \/ FetchFails(id)
                               \/ \E list \in Lists : FetchReturns(id, list)
    BY <1>2
  <2>2. PICK st : Authorise(id, st)
    BY <2>1 DEF UseWithoutFetch, FetchFails, FetchReturns
  <2>3. /\ Reading /\ pc' = "providers"
        /\ UNCHANGED <<wl, cfg, ri, entries, managed, adding, authorised, removing, edited>>
    BY <2>1, <2>2
    DEF UseWithoutFetch, FetchFails, FetchReturns, Authorise, providerRest, Reading
  <2>4. \A p \in Prefix : Wanted(p)' => ~Overlaps(cfg.blocked, p)
    BY <2>2, PassAuthorise
  <2>. QED  BY <2>3, <2>4, PassReading DEF Reading
<1>. QED  BY <1>1, <1>2 DEF ProviderStep

\* What is already there is the plugin's own or an administrator's.
LEMMA PassBeginAdds == TypeOK /\ PassInv /\ BeginAdds => PassInv'
<1>1. SUFFICES ASSUME TypeOK, PassInv, BeginAdds PROVE PassInv'
  OBVIOUS
<1>2. /\ pc = "providers" /\ pc' = "adds" /\ removing' = {}
      /\ UNCHANGED <<wl, cfg, ri, entries, managed, desired, edited>>
  BY <1>1 DEF PassInv, HoldsNothing, BeginAdds
<1>3. \A p \in adding' : Wanted(p)' /\ p \notin AdminPresent'
  BY <1>1 DEF BeginAdds, Wanted, AdminPresent
<1>4. AuthorisedHolds'
  <2>1. SUFFICES ASSUME NEW p \in authorised'
                 PROVE  /\ Wanted(p)'
                        /\ \/ Cidr(p) \in edited
                           \/ wl[Rule.id][Cidr(p)] # None
                           \/ \E h \in Host : p = {h} /\ entries[Bare(h)] = Admin
    BY <1>2 DEF AuthorisedHolds, Rule
  <2>2. p \in Prefix /\ Wanted(p)' /\ (p \in AdminPresent \/ Cidr(p) \in managed)
    BY <1>1 DEF BeginAdds, Wanted
  <2>3. \A k \in Key : k \in edited \/ wl[Rule.id][k] = entries[k]
    BY <1>1, <1>2 DEF PassInv, ListIsCurrent, Reading
  <2>4. Cidr(p) \in Key
    BY <2>2 DEF Key
  <2>5. CASE Cidr(p) \in managed
    BY <1>1, <2>2, <2>3, <2>4, <2>5, SourceAssumption DEF PassInv, HoldsItsOwn, Owned
  <2>6. CASE p \in AdminPresent
    <3>1. PICK k \in Key : entries[k] = Admin /\ canonicalEntry(k) = p
      BY <2>6 DEF AdminPresent
    <3>2. k = Cidr(p) \/ \E h \in Host : k = Bare(h) /\ p = {h}
      BY <3>1 DEF Key, Cidr, Bare, canonicalEntry
    <3>. QED  BY <2>2, <2>3, <2>4, <3>1, <3>2, SourceAssumption
  <2>. QED  BY <2>2, <2>5, <2>6
<1>. QED
  BY <1>1, <1>2, <1>3, <1>4
  DEF PassInv, HoldsNothing, NeverWantsBlocked, ListIsCurrent, HoldsItsOwn,
      RemovesObsolete, Reading, Wanted

\* The entries to be removed are owned and obsolete.
LEMMA PassBeginRemoves == TypeOK /\ PassInv /\ BeginRemoves => PassInv'
<1>1. SUFFICES ASSUME TypeOK, PassInv, BeginRemoves PROVE PassInv'
  OBVIOUS
<1>2. /\ pc' = "removes" /\ removing' \subseteq managed
      /\ \A k \in removing' : Obsolete(k)
      /\ UNCHANGED <<wl, cfg, ri, entries, managed, desired, adding, authorised, edited>>
  BY <1>1 DEF BeginRemoves
<1>. QED
  BY <1>1, <1>2
  DEF PassInv, HoldsNothing, NeverWantsBlocked, ListIsCurrent, HoldsItsOwn,
      AuthorisedHolds, RemovesObsolete, Reading, Wanted, Obsolete, AdminPresent, Rule

\* A write changes one entry of the rule at hand.
LEMMA PutChanges ==
  ASSUME TypeOK, ri # 0, NEW k \in Key, NEW comment, Put(k, comment)
  PROVE  \A j \in Key : wl'[Rule.id][j] = IF j = k THEN comment ELSE wl[Rule.id][j]
<1>1. Rule.id \in RuleId
  BY RuleType DEF RuleConfig
<1>. QED  BY <1>1 DEF TypeOK, Put

\* An add writes the entry of one form still to be added, or nothing at all.
LEMMA AddChanges ==
  ASSUME TypeOK, NEW p \in Prefix, AddEntry(p) \/ AddFails(p)
  PROVE  \A j \in Key : \/ wl'[Rule.id][j] = wl[Rule.id][j]
                        \/ j = Cidr(p) /\ wl'[Rule.id][j] = desired[p]
<1>1. Cidr(p) \in Key /\ ri # 0
  BY DEF Key, AddEntry, AddFails, TypeOK
<1>2. CASE UNCHANGED wl
  BY <1>2
<1>3. CASE Put(Cidr(p), desired[p])
  BY <1>1, <1>3, PutChanges
<1>. QED  BY <1>2, <1>3 DEF AddEntry, AddFails

\* A remove deletes one owned, obsolete entry, or nothing at all.
LEMMA RemoveChanges ==
  ASSUME TypeOK, NEW k \in Key, RemoveEntry(k) \/ RemoveFails(k)
  PROVE  \A j \in Key : \/ wl'[Rule.id][j] = wl[Rule.id][j]
                        \/ j = k /\ wl'[Rule.id][j] = None
<1>1. ri # 0
  BY DEF RemoveEntry, RemoveFails, TypeOK
<1>2. CASE UNCHANGED wl
  BY <1>2
<1>3. CASE Put(k, None)
  BY <1>1, <1>3, PutChanges
<1>. QED  BY <1>2, <1>3 DEF RemoveEntry, RemoveFails

\* An add puts what it records as authorised.
LEMMA PassAdd ==
  ASSUME TypeOK, PassInv, NEW q \in Prefix, AddEntry(q) \/ AddFails(q)
  PROVE  PassInv'
<1>1. /\ pc = "adds" /\ q \in adding /\ removing' = {} /\ adding' \subseteq adding
      /\ UNCHANGED <<cfg, pc, ri, entries, managed, desired, edited>>
  BY DEF PassInv, HoldsNothing, AddEntry, AddFails
<1>2. Wanted(q)
  BY <1>1 DEF PassInv, HoldsItsOwn
<1>3. AuthorisedHolds'
  <2>1. SUFFICES ASSUME NEW p \in authorised'
                 PROVE  /\ Wanted(p)
                        /\ \/ Cidr(p) \in edited
                           \/ wl'[Rule.id][Cidr(p)] # None
                           \/ \E h \in Host : p = {h} /\ entries[Bare(h)] = Admin
    BY <1>1 DEF AuthorisedHolds, Rule, Wanted
  <2>2. p \in Prefix /\ Cidr(p) \in Key
    BY TypeNext DEF TypeOK, AddEntry, AddFails, Key
  <2>3. CASE p \in authorised
    BY <1>2, <2>2, <2>3, AddChanges DEF PassInv, AuthorisedHolds, Wanted
  <2>4. CASE p = q /\ AddEntry(q)
    <3>1. wl'[Rule.id][Cidr(q)] = desired[q]
      BY <1>1, <2>2, <2>4, PutChanges DEF AddEntry, TypeOK
    <3>. QED  BY <1>2, <2>4, <3>1 DEF Wanted
  <2>. QED  BY <2>3, <2>4 DEF AddEntry, AddFails
<1>. QED
  BY <1>1, <1>3
  DEF PassInv, HoldsNothing, NeverWantsBlocked, ListIsCurrent, HoldsItsOwn,
      RemovesObsolete, Reading, Wanted, AdminPresent

\* A remove deletes nothing that is recorded as authorised.
LEMMA PassRemove ==
  ASSUME TypeOK, PassInv, NEW j \in Key, RemoveEntry(j) \/ RemoveFails(j)
  PROVE  PassInv'
<1>1. /\ pc = "removes" /\ j \in removing /\ removing' \subseteq removing
      /\ UNCHANGED <<cfg, pc, ri, entries, managed, desired, adding, authorised, edited>>
  BY DEF RemoveEntry, RemoveFails
<1>2. Obsolete(j)
  BY <1>1 DEF PassInv, RemovesObsolete
<1>3. AuthorisedHolds'
  <2>1. SUFFICES ASSUME NEW p \in authorised
                 PROVE  /\ Wanted(p)
                        /\ \/ Cidr(p) \in edited
                           \/ wl'[Rule.id][Cidr(p)] # None
                           \/ \E h \in Host : p = {h} /\ entries[Bare(h)] = Admin
    BY <1>1 DEF AuthorisedHolds, Rule, Wanted
  <2>2. Wanted(p) /\ Cidr(p) \in Key
    BY DEF PassInv, AuthorisedHolds, TypeOK, Key
  <2>3. j # Cidr(p)
    BY <1>2, <2>2 DEF Obsolete, Wanted, canonicalEntry, Cidr
  <2>4. wl'[Rule.id][Cidr(p)] = wl[Rule.id][Cidr(p)]
    BY <2>2, <2>3, RemoveChanges
  <2>. QED  BY <2>2, <2>4 DEF PassInv, AuthorisedHolds
<1>4. RemovesObsolete'
  BY <1>1 DEF PassInv, RemovesObsolete, Obsolete
<1>. QED
  BY <1>1, <1>3, <1>4
  DEF PassInv, HoldsNothing, NeverWantsBlocked, ListIsCurrent, HoldsItsOwn,
      Reading, Wanted, AdminPresent

\* Within a pass an administrator's edit of its rule is recorded as such.
LEMMA EditRecorded ==
  ASSUME TypeOK, NEW r \in RuleId, NEW k \in Key, NEW comment \in {Admin, None},
         AdminEdits(r, k, comment), pc \notin {"idle", "list", "forget"}
  PROVE  \A j \in Key : j \in edited' \/ wl'[Rule.id][j] = wl[Rule.id][j]
<1>1. ri > 0 /\ Rule.id \in RuleId
  BY RuleType DEF TypeOK, RuleConfig
<1>2. CASE Rule.id = r
  BY <1>1, <1>2 DEF AdminEdits, TypeOK
<1>3. CASE Rule.id # r
  BY <1>1, <1>3 DEF AdminEdits, TypeOK
<1>. QED  BY <1>2, <1>3

\* An administrator's edit falsifies nothing the pass knows: the entry is marked
\* as edited.
LEMMA PassAdmin ==
  ASSUME TypeOK, PassInv, NEW r \in RuleId, NEW k \in Key,
         NEW comment \in {Admin, None}, AdminEdits(r, k, comment)
  PROVE  PassInv'
<1>1. /\ UNCHANGED <<cfg, pc, ri, entries, managed, desired, adding, authorised, removing>>
      /\ edited \subseteq edited'
  BY DEF AdminEdits, passVars
<1>2. CASE pc \in {"idle", "list", "forget"}
  BY <1>1, <1>2
  DEF PassInv, HoldsNothing, NeverWantsBlocked, ListIsCurrent, HoldsItsOwn,
      AuthorisedHolds, RemovesObsolete, Reading, Wanted, AdminPresent
<1>3. CASE pc \notin {"idle", "list", "forget"}
  <2>1. \A j \in Key : j \in edited' \/ wl'[Rule.id][j] = wl[Rule.id][j]
    BY <1>3, EditRecorded
  <2>2. ListIsCurrent'
    BY <1>1, <2>1 DEF PassInv, ListIsCurrent, Reading, Rule
  <2>3. AuthorisedHolds'
    <3>1. SUFFICES ASSUME NEW p \in authorised
                   PROVE  /\ Wanted(p)
                          /\ \/ Cidr(p) \in edited'
                             \/ wl'[Rule.id][Cidr(p)] # None
                             \/ \E h \in Host : p = {h} /\ entries[Bare(h)] = Admin
      BY <1>1 DEF AuthorisedHolds, Rule, Wanted
    <3>2. Cidr(p) \in Key
      BY DEF TypeOK, Key
    <3>. QED  BY <1>1, <2>1, <3>2 DEF PassInv, AuthorisedHolds
  <2>4. RemovesObsolete'
    BY <1>1 DEF PassInv, RemovesObsolete, Obsolete
  <2>. QED
    BY <1>1, <2>2, <2>3, <2>4
    DEF PassInv, HoldsNothing, NeverWantsBlocked, HoldsItsOwn, Wanted, AdminPresent
<1>. QED  BY <1>2, <1>3

\* Neither a tick nor a stuttering step touches a pass.
LEMMA PassIdle == PassInv /\ (Tick \/ UNCHANGED vars) => PassInv'
  BY DEF Tick, vars, memoryVars, passVars, PassInv, HoldsNothing, NeverWantsBlocked,
         ListIsCurrent, HoldsItsOwn, AuthorisedHolds, RemovesObsolete, Obsolete,
         Reading, Wanted, AdminPresent, Rule

\* Every step keeps what a pass knows.
LEMMA PassNext == TypeOK /\ PassInv /\ [Next]_vars => PassInv'
<1>1. SUFFICES ASSUME TypeOK, PassInv, [Next]_vars PROVE PassInv'
  OBVIOUS
<1>2. CASE PluginStep
  BY <1>1, <1>2, PassBetween, PassListRule, PassFqdn, PassProvider, PassBeginAdds,
     PassBeginRemoves, PassAdd, PassRemove
  DEF PluginStep, FqdnStep, WriteStep
<1>3. CASE AdminStep
  BY <1>1, <1>3, PassAdmin DEF AdminStep
<1>. QED
  BY <1>1, <1>2, <1>3, PassBetween, PassIdle DEF Next

\* PassInv holds in every reachable state.
THEOREM PassCorrect == Spec => []PassInv
  BY PassInit, PassNext, TypeCorrect, PTL DEF Spec

\* Nothing that overlaps the never-authorise list is ever wanted, whatever the
\* prefixes, the lists published and the configuration changes in between.
THEOREM NeverAuthorised == Spec => []NeverWantsBlocked
<1>1. PassInv => NeverWantsBlocked
  BY DEF PassInv
<1>. QED  BY <1>1, PassCorrect, PTL

\* One write changes only what was the plugin's own when the list was read.
LEMMA WriteTouchesOwn ==
  ASSUME TypeOK, PassInv, WriteStep, NEW k \in Key,
         wl[Rule.id][k] # wl'[Rule.id][k]
  PROVE  /\ entries[k] # Admin
         /\ wl'[Rule.id][k] # None =>
               \A j \in Forms(canonicalEntry(k)) : entries[j] # Admin
<1>1. ASSUME NEW p \in Prefix, AddEntry(p) \/ AddFails(p)
      PROVE  entries[k] # Admin /\ \A j \in Forms(canonicalEntry(k)) : entries[j] # Admin
  <2>1. k = Cidr(p) /\ p \notin AdminPresent
    BY <1>1, AddChanges DEF PassInv, HoldsItsOwn, AddEntry, AddFails
  <2>2. canonicalEntry(k) = p
    BY <2>1 DEF canonicalEntry, Cidr
  <2>. QED  BY <2>1, <2>2 DEF AdminPresent, Forms
<1>2. ASSUME NEW j \in Key, RemoveEntry(j) \/ RemoveFails(j)
      PROVE  entries[k] # Admin /\ wl'[Rule.id][k] = None
  <2>1. k = j /\ wl'[Rule.id][k] = None
    BY <1>2, RemoveChanges
  <2>2. entries[j] \in Source
    BY <1>2 DEF PassInv, HoldsItsOwn, Owned, RemoveEntry, RemoveFails
  <2>. QED  BY <2>1, <2>2, SourceAssumption
<1>. QED  BY <1>1, <1>2 DEF WriteStep

\* The plugin never rewrites, deletes or doubles an entry that was somebody
\* else's when it read the list, for any whitelist and any failures.
THEOREM OwnershipRespected == Spec => TouchesOnlyItsOwn
<1>1. TypeOK /\ PassInv =>
        [WriteStep => \A k \in Key : wl[Rule.id][k] # wl'[Rule.id][k] =>
            /\ entries[k] # Admin
            /\ wl'[Rule.id][k] # None =>
                  \A j \in Forms(canonicalEntry(k)) : entries[j] # Admin]_vars
  BY WriteTouchesOwn
<1>. QED  BY <1>1, TypeCorrect, PassCorrect, PTL DEF TouchesOnlyItsOwn

\* A write that deletes an entry the pass still wants deletes its legacy form,
\* and leaves its CIDR, which is there already.
LEMMA DeletesObsolete ==
  ASSUME TypeOK, PassInv, WriteStep, NEW k \in Key, Deletes(k)
  PROVE  /\ pc = "removes"
         /\ Obsolete(k) /\ entries[k] \in Source
         /\ Wanted(canonicalEntry(k)) /\ Forms(canonicalEntry(k)) \cap edited = {}
            => k # Cidr(canonicalEntry(k)) /\ wl[Rule.id][Cidr(canonicalEntry(k))] # None
<1>. DEFINE p == canonicalEntry(k)
<1>1. ASSUME NEW q \in Prefix, AddEntry(q) \/ AddFails(q) PROVE FALSE
  BY <1>1, AddChanges DEF Deletes, PassInv, HoldsItsOwn, Wanted, AddEntry, AddFails
<1>2. PICK j \in Key : RemoveEntry(j) \/ RemoveFails(j)
  BY <1>1 DEF WriteStep
<1>3. k = j
  BY <1>2, RemoveChanges DEF Deletes
<1>4. pc = "removes" /\ Obsolete(k) /\ entries[k] \in Source
  BY <1>2, <1>3
  DEF PassInv, RemovesObsolete, HoldsItsOwn, Owned, RemoveEntry, RemoveFails
<1>5. SUFFICES ASSUME Wanted(p), Forms(p) \cap edited = {}
               PROVE  k # Cidr(p) /\ wl[Rule.id][Cidr(p)] # None
  BY <1>4
<1>6. k # Cidr(p) /\ p \in authorised
  BY <1>4, <1>5 DEF Obsolete, Wanted
<1>7. Cidr(p) \notin edited
  BY <1>5, <1>6 DEF TypeOK, Key, Forms, Cidr, canonicalEntry
<1>8. ~ \E h \in Host : p = {h} /\ entries[Bare(h)] = Admin
  <2>1. \E h \in Host : k = Bare(h) /\ p = {h}
    BY <1>6 DEF Key, Cidr, Bare, canonicalEntry
  <2>. QED  BY <1>4, <2>1, SourceAssumption
<1>. QED  BY <1>6, <1>7, <1>8 DEF PassInv, AuthorisedHolds

\* One write leaves a wanted prefix that is let in let in.
LEMMA WriteKeepsAccess ==
  ASSUME TypeOK, PassInv, WriteStep, NEW p \in Prefix,
         Wanted(p), Forms(p) \cap edited = {}, Admits(wl[Rule.id], p)
  PROVE  Admits(wl'[Rule.id], p)
<1>1. PICK k \in Key : /\ canonicalEntry(k) = p /\ wl[Rule.id][k] # None
                       /\ \A h \in p : Matches(k, h)
  BY DEF Admits, Forms
<1>2. SUFFICES ASSUME wl'[Rule.id][k] = None PROVE Admits(wl'[Rule.id], p)
  BY <1>1 DEF Admits, Forms
<1>3. wl[Rule.id][Cidr(p)] # None
  BY <1>1, <1>2, DeletesObsolete DEF Deletes
<1>4. Cidr(p) \in Forms(p) /\ \A h \in p : Matches(Cidr(p), h)
  BY DEF Key, Forms, Cidr, canonicalEntry, Matches
<1>5. wl'[Rule.id][Cidr(p)] # None
  BY <1>3, <1>4, DeletesObsolete DEF Deletes, Forms
<1>. QED  BY <1>4, <1>5 DEF Admits

\* No migration and no failure, in any order, locks out an address or a range
\* the pass wants and nobody else edited.
THEOREM AccessKept == Spec => NeverLocksOut
<1>1. TypeOK /\ PassInv =>
        [WriteStep => \A p \in Prefix :
            /\ Wanted(p)
            /\ Forms(p) \cap edited = {}
            /\ Admits(wl[Rule.id], p)
            => Admits(wl'[Rule.id], p)]_vars
  BY WriteKeepsAccess
<1>. QED  BY <1>1, TypeCorrect, PassCorrect, PTL DEF NeverLocksOut

-------------------------------------------------------------------------------
(* What a pass reports and claims, behind GraceProtects and                  *)
(* ProviderNeverRevokes.                                                     *)

Between == pc \in {"idle", "list", "forget"}
Writing == pc \in {"adds", "removes"}

\* A name shown in grace has all its unblocked entries wanted.
GraceKeeps ==
    /\ Between => report = NoReport
    /\ \A f \in Fqdn : report[f] = "grace" =>
           \A p \in keepableOwned(cfg.blocked, OwnedBy(f)) : Wanted(p)

\* A provider that was visited has its cache wanted, if it has one that passes the
\* never-authorise list, or else all the unblocked entries it owns.
Claimed(id) ==
    \/ \A p \in keepableOwned(cfg.blocked, OwnedBy(id)) : Wanted(p)
    \/ /\ prov[id].prefixes # {}
       /\ validateAgainstUnroutable(prov[id].prefixes, cfg.blocked)
       /\ \A p \in prov[id].prefixes : Wanted(p)

\* A configured provider is still to be visited, or it was.
ProvidersVisited ==
    \A id \in Provider :
        /\ pc \in {"providers", "fetch"} /\ IsConfigured(id) =>
               (\E j \in DOMAIN todo : todo[j] = id) \/ Claimed(id)
        /\ Writing /\ IsConfigured(id) => Claimed(id)

ClaimInv == GraceKeeps /\ ProvidersVisited

\* Claiming for a source makes what it claims wanted, and unwants nothing.
LEMMA ClaimWants ==
  ASSUME TypeOK, NEW s \in Source, NEW ps, desired' = Claim(desired, ps, s)
  PROVE  \A p \in Prefix : /\ Wanted(p) => Wanted(p)'
                           /\ p \in ps => Wanted(p)'
<1>1. \A p \in Prefix : desired'[p] = IF p \in ps /\ desired[p] = None THEN s ELSE desired[p]
  BY DEF Claim
<1>. QED  BY <1>1, SourceAssumption DEF Wanted

\* The authorisations an entry stands for are among the prefixes.
LEMMA OwnedPrefixes ==
  /\ \A k \in Key : canonicalEntry(k) \in Prefix
  /\ \A s, b : keepableOwned(b, OwnedBy(s)) \subseteq Prefix
<1>1. \A k \in Key : canonicalEntry(k) \in Prefix
  BY PrefixAssumption DEF Key, Cidr, Bare, canonicalEntry
<1>. QED  BY <1>1 DEF keepableOwned, OwnedBy

\* Nothing is claimed or reported at first.
LEMMA ClaimInit == Init => ClaimInv
  BY SourceAssumption
  DEF Init, ClaimInv, GraceKeeps, ProvidersVisited, Between, Writing, NoReport, Source

\* Between passes there is nothing to claim.
LEMMA ClaimCleared ==
  ASSUME report' = NoReport, pc' \in {"idle", "list", "forget", "fqdns"}
  PROVE  ClaimInv'
<1>1. \A f \in Fqdn : report'[f] # "grace"
  BY DEF NoReport, Source
<1>. QED  BY <1>1 DEF ClaimInv, GraceKeeps, ProvidersVisited, Writing

\* A step that unwants nothing, reports nothing and visits nobody.
LEMMA ClaimSame ==
  ASSUME ClaimInv, UNCHANGED <<cfg, ri, entries, report>>,
         \A p \in Prefix : Wanted(p) => Wanted(p)',
         \A id \in Provider : prov'[id].prefixes = prov[id].prefixes,
         \A id \in Provider : prov[id].prefixes \subseteq Prefix,
         \/ UNCHANGED <<pc, todo>>
         \/ pc \in {"providers", "fetch"} /\ pc' = "fetch" /\ todo' = todo
         \/ pc = "providers" /\ todo = <<>> /\ pc' = "adds"
         \/ Writing /\ Writing'
  PROVE  ClaimInv'
<1>1. GraceKeeps'
  <2>1. Between' => Between
    BY DEF Between, Writing
  <2>2. \A f \in Fqdn : report'[f] = "grace" =>
            \A p \in keepableOwned(cfg'.blocked, OwnedBy(f)') : Wanted(p)'
    BY OwnedPrefixes DEF ClaimInv, GraceKeeps, OwnedBy
  <2>. QED  BY <2>1, <2>2 DEF ClaimInv, GraceKeeps
<1>2. \A id \in Provider : Claimed(id) => Claimed(id)'
  BY OwnedPrefixes DEF Claimed, OwnedBy, validateAgainstUnroutable
<1>3. \A id \in Provider : IsConfigured(id)' <=> IsConfigured(id)
  BY DEF IsConfigured, Rule
<1>4. ProvidersVisited'
  BY <1>2, <1>3 DEF ClaimInv, ProvidersVisited, Writing
<1>. QED  BY <1>1, <1>4 DEF ClaimInv

\* A lookup that is shown in grace has claimed all the name owned.
LEMMA ClaimFqdn ==
  ASSUME TypeOK, ClaimInv, NEW n \in Fqdn, NEW a \in Outcomes[n] \cup {Failure},
         ResolveFqdn(n, a)
  PROVE  ClaimInv'
<1>1. /\ pc = "fqdns" /\ pc' = "fqdns" /\ n \in Source
      /\ UNCHANGED <<cfg, ri, entries>>
      /\ a.kind \in {"ok", "notfound", "fail"}
  BY InputAssumption DEF ResolveFqdn, Source, Answer, Failure
<1>2. \A p \in Prefix : Wanted(p) => Wanted(p)'
  <2>1. desired' = desired \/ \E ps : desired' = Claim(desired, ps, n)
    BY <1>1 DEF ResolveFqdn, ResolveSucceeds, ResolveNotFound, ResolveFails
  <2>. QED  BY <1>1, <2>1, ClaimWants DEF Wanted
<1>3. \A f \in Fqdn : f # n => report'[f] = report[f]
  <2>1. \E row : report' = [report EXCEPT ![n] = row]
    BY <1>1 DEF ResolveFqdn, ResolveSucceeds, ResolveNotFound, ResolveFails
  <2>. QED  BY <2>1 DEF TypeOK, Source
<1>4. report'[n] = "grace" =>
        \A p \in keepableOwned(cfg.blocked, OwnedBy(n)) : Wanted(p)'
  <2>1. SUFFICES ASSUME report'[n] = "grace"
                 PROVE  desired' = Claim(desired, keepableOwned(cfg.blocked, OwnedBy(n)), n)
    BY <1>1, ClaimWants, OwnedPrefixes
  <2>2. a.kind = "fail"
    BY <1>1, <2>1 DEF TypeOK, ResolveFqdn, ResolveSucceeds, ResolveNotFound
  <2>. QED  BY <1>1, <2>1, <2>2 DEF TypeOK, ResolveFqdn, ResolveFails
<1>5. GraceKeeps'
  <2>1. \A f \in Fqdn : report'[f] = "grace" =>
            \A p \in keepableOwned(cfg'.blocked, OwnedBy(f)') : Wanted(p)'
    BY <1>1, <1>2, <1>3, <1>4, OwnedPrefixes DEF ClaimInv, GraceKeeps, OwnedBy
  <2>. QED  BY <1>1, <2>1 DEF GraceKeeps, Between
<1>. QED  BY <1>1, <1>5 DEF ClaimInv, ProvidersVisited, Writing

\* A provider that was visited has claimed its cache, or what it owns.
LEMMA ClaimAuthorise ==
  ASSUME TypeOK, ClaimInv, NEW id \in Provider, NEW st \in ProviderState, Authorise(id, st),
         pc \in {"providers", "fetch"}, todo # <<>>, id = Head(todo),
         UNCHANGED <<cfg, ri, entries>>
  PROVE  ClaimInv'
<1>1. id \in Source
  BY DEF Source
<1>2. /\ pc' = "providers" /\ todo' = Tail(todo)
      /\ prov' = [prov EXCEPT ![id] = st]
  BY DEF Authorise
<1>3. prov'[id] = st /\ \A i \in Provider : i # id => prov'[i] = prov[i]
  BY <1>2 DEF TypeOK
<1>4. \/ desired' = Claim(desired, keepableOwned(cfg.blocked, OwnedBy(id)), id)
      \/ /\ st.prefixes # {} /\ validateAgainstUnroutable(st.prefixes, cfg.blocked)
         /\ desired' = Claim(desired, st.prefixes, id)
  BY DEF Authorise
<1>5. \A p \in Prefix : Wanted(p) => Wanted(p)'
  BY <1>1, <1>4, ClaimWants
<1>6. \A i \in Provider : prov[i].prefixes \subseteq Prefix /\ st.prefixes \subseteq Prefix
  BY DEF TypeOK, ProviderState
<1>7. Claimed(id)'
  <2>1. CASE desired' = Claim(desired, keepableOwned(cfg.blocked, OwnedBy(id)), id)
    <3>1. \A p \in keepableOwned(cfg.blocked, OwnedBy(id)) : Wanted(p)'
      BY <1>1, <2>1, ClaimWants, OwnedPrefixes
    <3>. QED  BY <3>1 DEF Claimed, OwnedBy
  <2>2. CASE /\ st.prefixes # {} /\ validateAgainstUnroutable(st.prefixes, cfg.blocked)
             /\ desired' = Claim(desired, st.prefixes, id)
    <3>1. \A p \in st.prefixes : Wanted(p)'
      BY <1>1, <1>6, <2>2, ClaimWants
    <3>. QED  BY <1>3, <2>2, <3>1 DEF Claimed, validateAgainstUnroutable
  <2>. QED  BY <1>4, <2>1, <2>2
<1>8. \A i \in Provider : i # id /\ Claimed(i) => Claimed(i)'
  BY <1>3, <1>5, <1>6, OwnedPrefixes DEF Claimed, OwnedBy, validateAgainstUnroutable
<1>9. \A i \in Provider : i # id /\ (\E j \in DOMAIN todo : todo[j] = i) =>
          \E j \in DOMAIN todo' : todo'[j] = i
  <2>1. SUFFICES ASSUME NEW i \in Provider, i # id, NEW j \in DOMAIN todo, todo[j] = i
                 PROVE  \E l \in DOMAIN todo' : todo'[l] = i
    OBVIOUS
  <2>2. /\ todo \in Seq(Source) /\ Len(todo) \in Nat /\ j \in 1..Len(todo) /\ j # 1
        /\ Len(todo') = Len(todo) - 1 /\ DOMAIN todo' = 1..(Len(todo) - 1)
        /\ \A l \in 1..(Len(todo) - 1) : todo'[l] = todo[l + 1]
    BY <1>2, <2>1 DEF TypeOK
  <2>3. j - 1 \in DOMAIN todo' /\ todo'[j - 1] = i
    BY <2>1, <2>2
  <2>. QED  BY <2>3
<1>10. \A i \in Provider : IsConfigured(i)' <=> IsConfigured(i)
  BY DEF IsConfigured, Rule
<1>11. ProvidersVisited'
  BY <1>2, <1>7, <1>8, <1>9, <1>10 DEF ClaimInv, ProvidersVisited, Writing
<1>12. GraceKeeps'
  <2>1. \A f \in Fqdn : report'[f] = report[f]
    BY SourceAssumption DEF Authorise, TypeOK, Source
  <2>2. \A f \in Fqdn : report'[f] = "grace" =>
            \A p \in keepableOwned(cfg'.blocked, OwnedBy(f)') : Wanted(p)'
    BY <1>5, <2>1, OwnedPrefixes DEF ClaimInv, GraceKeeps, OwnedBy
  <2>. QED  BY <1>2, <2>2 DEF GraceKeeps, Between
<1>. QED  BY <1>11, <1>12 DEF ClaimInv

\* Every step of the provider pass keeps the claims.
LEMMA ClaimProvider ==
  ASSUME TypeOK, ClaimInv, NEW id \in Provider,
         \/ UseWithoutFetch(id)
         \/ BeginFetch(id)
         \/ \E list \in Lists : FetchReturns(id, list)
         \/ FetchFails(id)
  PROVE  ClaimInv'
<1>1. prov[id] \in ProviderState /\ (pc = "fetch" => todo # <<>>)
  BY DEF TypeOK
<1>2. CASE BeginFetch(id)
  <2>1. \A i \in Provider : prov'[i].prefixes = prov[i].prefixes
    BY <1>1, <1>2 DEF BeginFetch, TypeOK, ProviderState
  <2>2. \A i \in Provider : prov[i].prefixes \subseteq Prefix
    BY DEF TypeOK, ProviderState
  <2>3. /\ UNCHANGED <<cfg, ri, entries, report, desired, todo>>
        /\ pc = "providers" /\ pc' = "fetch"
    BY <1>2 DEF BeginFetch, providerRest
  <2>4. \A p \in Prefix : Wanted(p) => Wanted(p)'
    BY <2>3 DEF Wanted
  <2>. QED  BY <2>1, <2>2, <2>3, <2>4, ClaimSame
<1>3. CASE UseWithoutFetch(id)
  <2>1. \E st \in ProviderState : Authorise(id, st)
    BY <1>1, <1>3 DEF UseWithoutFetch, ProviderState
  <2>. QED  BY <1>3, <2>1, ClaimAuthorise DEF UseWithoutFetch, providerRest
<1>4. ASSUME NEW list \in Lists, FetchReturns(id, list)
      PROVE  ClaimInv'
  <2>1. \E st \in ProviderState : Authorise(id, st)
    BY <1>4, ProviderStateType DEF FetchReturns
  <2>. QED  BY <1>1, <1>4, <2>1, ClaimAuthorise DEF FetchReturns, providerRest
<1>5. CASE FetchFails(id)
  <2>1. FetchFailed(prov[id]) \in ProviderState
    <3>1. Retry \in 0..MaxAge
      BY TimeAssumption
    <3>. QED  BY <1>1, <3>1 DEF FetchFailed, ProviderState
  <2>. QED  BY <1>1, <1>5, <2>1, ClaimAuthorise DEF FetchFails, providerRest
<1>. QED  BY <1>2, <1>3, <1>4, <1>5

\* Every other step keeps them too.
LEMMA ClaimNext == TypeOK /\ ClaimInv /\ [Next]_vars => ClaimInv'
<1>1. SUFFICES ASSUME TypeOK, ClaimInv, [Next]_vars PROVE ClaimInv'
  OBVIOUS
<1>2. \A id \in Provider : prov[id] \in ProviderState /\ prov[id].prefixes \subseteq Prefix
  BY <1>1 DEF TypeOK, ProviderState
<1>3. CASE ListFails \/ RuleReturns \/ Restart
  <2>1. report' = NoReport /\ pc' \in {"idle", "list", "forget"}
    BY <1>3 DEF ListFails, RuleReturns, Restart, NextRule, ClearPass
  <2>. QED  BY <2>1, ClaimCleared
<1>4. CASE ListRule \/ FinishCycle \/ \E c \in Configs, force \in BOOLEAN : StartCycle(c, force)
  <2>1. report' = NoReport /\ pc' \in {"idle", "list", "forget", "fqdns"}
    BY <1>1, <1>4
    DEF ListRule, FinishCycle, StartCycle, passVars, ClaimInv, GraceKeeps, Between
  <2>. QED  BY <2>1, ClaimCleared
<1>5. CASE FqdnStep
  BY <1>1, <1>5, ClaimFqdn DEF FqdnStep
<1>6. CASE FqdnsDone
  <2>1. /\ pc = "fqdns" /\ pc' = "providers" /\ todo' = Rule.providers
        /\ UNCHANGED <<cfg, ri, entries, desired, report>>
    BY <1>6 DEF FqdnsDone, passVars
  <2>2. ProvidersVisited'
    BY <2>1 DEF ProvidersVisited, IsConfigured, Rule, Writing
  <2>3. GraceKeeps'
    BY <1>1, <2>1 DEF ClaimInv, GraceKeeps, Between, OwnedBy, Wanted
  <2>. QED  BY <2>2, <2>3 DEF ClaimInv
<1>7. CASE ProviderStep
  BY <1>1, <1>7, ClaimProvider DEF ProviderStep
<1>8. CASE BeginAdds \/ BeginRemoves \/ WriteStep \/ AdminStep \/ UNCHANGED vars
  <2>1. UNCHANGED <<cfg, ri, entries, report, desired, prov>>
    BY <1>8 DEF BeginAdds, BeginRemoves, WriteStep, AddEntry, AddFails, RemoveEntry,
                RemoveFails, AdminStep, AdminEdits, vars, passVars, memoryVars
  <2>2. \/ UNCHANGED <<pc, todo>>
        \/ pc = "providers" /\ todo = <<>> /\ pc' = "adds"
        \/ Writing /\ Writing'
    BY <1>8 DEF BeginAdds, BeginRemoves, WriteStep, AddEntry, AddFails, RemoveEntry,
                RemoveFails, AdminStep, AdminEdits, vars, Writing
  <2>3. \A p \in Prefix : Wanted(p) => Wanted(p)'
    BY <2>1 DEF Wanted
  <2>. QED  BY <1>1, <1>2, <2>1, <2>2, <2>3, ClaimSame
<1>9. CASE Tick
  <2>1. UNCHANGED <<cfg, ri, entries, report, desired, pc, todo>>
    BY <1>9 DEF Tick, passVars
  <2>2. \A id \in Provider : prov'[id].prefixes = prov[id].prefixes
    BY <1>2, <1>9 DEF Tick, ProviderState
  <2>3. \A p \in Prefix : Wanted(p) => Wanted(p)'
    BY <2>1 DEF Wanted
  <2>. QED  BY <1>1, <1>2, <2>1, <2>2, <2>3, ClaimSame
<1>. QED
  BY <1>1, <1>3, <1>4, <1>5, <1>6, <1>7, <1>8, <1>9 DEF Next, PluginStep

\* ClaimInv holds in every reachable state.
THEOREM ClaimCorrect == Spec => []ClaimInv
  BY ClaimInit, ClaimNext, TypeCorrect, PTL DEF Spec

\* While a name is in grace its allowed entries are wanted, so that a write
\* deletes one of them only in legacy form beside its CIDR.
THEOREM GraceHolds == Spec => GraceProtects
<1>1. ASSUME TypeOK, PassInv, ClaimInv, WriteStep, NEW k \in Key, NEW f \in Fqdn,
             Deletes(k), entries[k] = f, report[f] = "grace",
             ~Overlaps(cfg.blocked, canonicalEntry(k)),
             Forms(canonicalEntry(k)) \cap edited = {}
      PROVE  k # Cidr(canonicalEntry(k)) /\ wl[Rule.id][Cidr(canonicalEntry(k))] # None
  <2>1. canonicalEntry(k) \in keepableOwned(cfg.blocked, OwnedBy(f))
    BY <1>1 DEF keepableOwned, OwnedBy, ownedAddressIsUnroutable
  <2>2. Wanted(canonicalEntry(k))
    BY <1>1, <2>1 DEF ClaimInv, GraceKeeps
  <2>. QED  BY <1>1, <2>2, DeletesObsolete
<1>2. TypeOK /\ PassInv /\ ClaimInv =>
        [WriteStep => \A k \in Key, f \in Fqdn :
            LET p == canonicalEntry(k) IN
            /\ Deletes(k) /\ entries[k] = f /\ report[f] = "grace"
            /\ ~Overlaps(cfg.blocked, p) /\ Forms(p) \cap edited = {}
            => k # Cidr(p) /\ wl[Rule.id][Cidr(p)] # None]_vars
  BY <1>1
<1>. QED  BY <1>2, TypeCorrect, PassCorrect, ClaimCorrect, PTL DEF GraceProtects

\* A configured provider's unblocked range is deleted only when its cached list
\* leaves it out and still passes the never-authorise list: no failed fetch,
\* refused list or restart revokes one, and when the operator extends the
\* never-authorise list over part of a cache, the ranges it does not touch stay.
THEOREM RevokedByListOnly == Spec => ProviderNeverRevokes
<1>1. ASSUME TypeOK, PassInv, ClaimInv, WriteStep, NEW k \in Key, NEW id \in Provider,
             Deletes(k), entries[k] = id, IsConfigured(id),
             ~Overlaps(cfg.blocked, canonicalEntry(k)),
             Forms(canonicalEntry(k)) \cap edited = {}
      PROVE  \/ /\ prov[id].prefixes # {} /\ canonicalEntry(k) \notin prov[id].prefixes
                /\ validateAgainstUnroutable(prov[id].prefixes, cfg.blocked)
             \/ k # Cidr(canonicalEntry(k)) /\ wl[Rule.id][Cidr(canonicalEntry(k))] # None
  <2>1. canonicalEntry(k) \in keepableOwned(cfg.blocked, OwnedBy(id))
    BY <1>1 DEF keepableOwned, OwnedBy, ownedAddressIsUnroutable
  <2>2. Claimed(id)
    BY <1>1, DeletesObsolete DEF ClaimInv, ProvidersVisited, Writing
  <2>3. CASE Wanted(canonicalEntry(k))
    BY <1>1, <2>3, DeletesObsolete
  <2>4. CASE ~Wanted(canonicalEntry(k))
    BY <2>1, <2>2, <2>4 DEF Claimed
  <2>. QED  BY <2>3, <2>4
<1>2. TypeOK /\ PassInv /\ ClaimInv =>
        [WriteStep => \A k \in Key, id \in Provider :
            LET p == canonicalEntry(k) IN
            /\ Deletes(k) /\ entries[k] = id /\ IsConfigured(id)
            /\ ~Overlaps(cfg.blocked, p) /\ Forms(p) \cap edited = {}
            => \/ /\ prov[id].prefixes # {} /\ p \notin prov[id].prefixes
                  /\ validateAgainstUnroutable(prov[id].prefixes, cfg.blocked)
               \/ k # Cidr(p) /\ wl[Rule.id][Cidr(p)] # None]_vars
  BY <1>1
<1>. QED  BY <1>2, TypeCorrect, PassCorrect, ClaimCorrect, PTL DEF ProviderNeverRevokes

-------------------------------------------------------------------------------
(* The books a pass keeps while it writes, behind PassExact.                 *)

\* Of every authorisation that is owned, one entry is managed.
ManagedComplete ==
    /\ ~Between => managed \in ManagedChoices(entries)
    /\ pc = "removes" => adding = {}

\* What is wanted is still to be added, known to be there, or failed to be added.
WantedHandled ==
    Writing => \A p \in Prefix : Wanted(p) =>
        p \in adding \/ p \in authorised \/ Cidr(p) \in errs

\* What is known to be there is an entry of the plugin's or an administrator's.
AuthorisedExact ==
    \A p \in authorised :
        Cidr(p) \in edited \/ wl[Rule.id][Cidr(p)] \in Source \/ p \in AdminPresent

\* What the rule owns it owned when the list was read, or the pass wants it.
OwnTracked ==
    Writing => \A k \in Key :
        k \in edited \/ wl[Rule.id][k] \notin Source \/ entries[k] \in Source
        \/ (Wanted(canonicalEntry(k)) /\ k = Cidr(canonicalEntry(k)))

\* What is obsolete is still to be removed, gone, or failed to be removed.
ObsoleteHandled ==
    pc = "removes" => \A k \in managed : Obsolete(k) =>
        k \in removing \/ k \in edited \/ k \in errs \/ wl[Rule.id][k] = None

BookInv ==
    /\ ManagedComplete
    /\ WantedHandled
    /\ AuthorisedExact
    /\ OwnTracked
    /\ ObsoleteHandled

\* At its first start the plugin has no books to keep, nor between two passes.
LEMMA BookCleared ==
  /\ Init => BookInv
  /\ authorised' = {} /\ Between' => BookInv'
<1>1. Init => BookInv
  BY DEF Init, BookInv, ManagedComplete, WantedHandled, AuthorisedExact, OwnTracked,
         ObsoleteHandled, Between, Writing
<1>2. authorised' = {} /\ Between' => BookInv'
  BY DEF BookInv, ManagedComplete, WantedHandled, AuthorisedExact, OwnTracked,
         ObsoleteHandled, Between, Writing
<1>. QED  BY <1>1, <1>2

\* While the list is read and the sources asked, only what is managed counts.
LEMMA BookReading ==
  ASSUME authorised' = {}, Reading', managed' \in ManagedChoices(entries)'
  PROVE  BookInv'
  BY DEF BookInv, ManagedComplete, WantedHandled, AuthorisedExact, OwnTracked,
         ObsoleteHandled, Between, Writing, Reading

\* The steps up to the writes keep the books.
LEMMA BookBefore ==
  ASSUME TypeOK, PassInv, BookInv,
         \/ \E c \in Configs, force \in BOOLEAN : StartCycle(c, force)
         \/ ListRule \/ ListFails
         \/ FqdnStep \/ FqdnsDone
         \/ ProviderStep
         \/ RuleReturns \/ FinishCycle \/ Restart
  PROVE  BookInv'
<1>1. CASE ListFails \/ RuleReturns \/ Restart
  <2>1. authorised' = {} /\ Between'
    BY <1>1 DEF ListFails, RuleReturns, Restart, NextRule, ClearPass, Between
  <2>. QED  BY <2>1, BookCleared
<1>2. CASE FinishCycle \/ \E c \in Configs, force \in BOOLEAN : StartCycle(c, force)
  <2>1. authorised' = {} /\ Between'
    BY <1>2 DEF FinishCycle, StartCycle, passVars, PassInv, HoldsNothing, Between
  <2>. QED  BY <2>1, BookCleared
<1>3. CASE ListRule
  <2>1. authorised' = {} /\ Reading' /\ managed' \in ManagedChoices(entries)'
    BY <1>3 DEF ListRule, PassInv, HoldsNothing, Reading, ManagedChoices, Owned
  <2>. QED  BY <2>1, BookReading
<1>4. CASE FqdnStep \/ FqdnsDone \/ ProviderStep
  <2>1. Reading /\ Reading' /\ UNCHANGED <<authorised, managed, entries>>
    <3>1. CASE FqdnStep \/ FqdnsDone
      BY <3>1 DEF FqdnStep, ResolveFqdn, FqdnsDone, passVars, Reading
    <3>2. CASE ProviderStep
      <4>1. PICK id \in Provider : \/ UseWithoutFetch(id) \/ BeginFetch(id) \/ FetchFails(id)
                                   \/ \E list \in Lists : FetchReturns(id, list)
        BY <3>2 DEF ProviderStep
      <4>2. pc \in {"providers", "fetch"} /\ pc' \in {"providers", "fetch"}
        BY <4>1 DEF UseWithoutFetch, BeginFetch, FetchReturns, FetchFails, Authorise
      <4>3. UNCHANGED <<authorised, managed, entries>>
        BY <4>1 DEF UseWithoutFetch, BeginFetch, FetchReturns, FetchFails, providerRest
      <4>. QED  BY <4>2, <4>3 DEF Reading
    <3>. QED  BY <1>4, <3>1, <3>2
  <2>2. authorised' = {} /\ managed \in ManagedChoices(entries)
    BY <2>1 DEF PassInv, HoldsNothing, BookInv, ManagedComplete, Reading, Between
  <2>3. managed' \in ManagedChoices(entries)'
    BY <2>1, <2>2 DEF ManagedChoices, Owned
  <2>. QED  BY <2>1, <2>2, <2>3, BookReading
<1>. QED  BY <1>1, <1>2, <1>3, <1>4

\* When the adds begin, all that is wanted is there or to be added, and the
\* rule owns what the list said it does.
LEMMA BookBeginAdds == TypeOK /\ PassInv /\ BookInv /\ BeginAdds => BookInv'
<1>1. SUFFICES ASSUME TypeOK, PassInv, BookInv, BeginAdds PROVE BookInv'
  OBVIOUS
<1>2. /\ pc = "providers" /\ pc' = "adds"
      /\ UNCHANGED <<wl, cfg, ri, entries, managed, desired, edited>>
      /\ Rule' = Rule
  BY <1>1 DEF BeginAdds, Rule
<1>3. \A k \in Key : k \in edited \/ wl[Rule.id][k] = entries[k]
  BY <1>1, <1>2 DEF PassInv, ListIsCurrent, Reading
<1>4. ManagedComplete'
  BY <1>1, <1>2 DEF BookInv, ManagedComplete, ManagedChoices, Owned, Between
<1>5. WantedHandled'
  BY <1>1, <1>2 DEF WantedHandled, BeginAdds, Wanted
<1>6. AuthorisedExact'
  <2>1. SUFFICES ASSUME NEW p \in authorised'
                 PROVE  \/ Cidr(p) \in edited \/ wl[Rule.id][Cidr(p)] \in Source
                        \/ p \in AdminPresent
    BY <1>2 DEF AuthorisedExact, AdminPresent
  <2>2. p \in Prefix /\ (p \in AdminPresent \/ Cidr(p) \in managed)
    BY <1>1 DEF BeginAdds
  <2>3. Cidr(p) \in managed => entries[Cidr(p)] \in Source
    BY <1>1 DEF PassInv, HoldsItsOwn, Owned
  <2>4. Cidr(p) \in Key
    BY <2>2 DEF Key
  <2>. QED  BY <1>3, <2>2, <2>3, <2>4
<1>7. OwnTracked'
  BY <1>2, <1>3 DEF OwnTracked
<1>8. ObsoleteHandled'
  BY <1>2 DEF ObsoleteHandled
<1>. QED  BY <1>4, <1>5, <1>6, <1>7, <1>8 DEF BookInv

\* When the removes begin, nothing is left to be added and all that is
\* obsolete is to be removed.
LEMMA BookBeginRemoves == BookInv /\ BeginRemoves => BookInv'
<1>1. SUFFICES ASSUME BookInv, BeginRemoves PROVE BookInv'
  OBVIOUS
<1>2. /\ pc = "adds" /\ adding = {} /\ pc' = "removes"
      /\ UNCHANGED <<wl, cfg, ri, entries, managed, desired, adding, authorised, errs, edited>>
      /\ Rule' = Rule
  BY <1>1 DEF BeginRemoves, Rule
<1>3. ManagedComplete'
  BY <1>1, <1>2 DEF BookInv, ManagedComplete, ManagedChoices, Owned, Between
<1>4. WantedHandled' /\ OwnTracked'
  BY <1>1, <1>2 DEF BookInv, WantedHandled, OwnTracked, Writing, Wanted
<1>5. AuthorisedExact'
  BY <1>1, <1>2 DEF BookInv, AuthorisedExact, AdminPresent
<1>6. ObsoleteHandled'
  BY <1>1, <1>2 DEF BeginRemoves, ObsoleteHandled, Obsolete
<1>. QED  BY <1>3, <1>4, <1>5, <1>6 DEF BookInv

\* An add, confirmed or not, moves its form from one book to another.
LEMMA BookAdd ==
  ASSUME TypeOK, PassInv, BookInv, NEW q \in Prefix, AddEntry(q) \/ AddFails(q)
  PROVE  BookInv'
<1>1. /\ pc = "adds" /\ q \in adding
      /\ UNCHANGED <<cfg, pc, ri, entries, managed, desired, edited>>
      /\ Rule' = Rule
  BY DEF AddEntry, AddFails, Rule
<1>2. Wanted(q) /\ desired[q] \in Source /\ Cidr(q) \in Key /\ canonicalEntry(Cidr(q)) = q
  BY <1>1 DEF PassInv, HoldsItsOwn, Wanted, TypeOK, Key, Cidr, canonicalEntry
<1>3. \A j \in Key : \/ wl'[Rule.id][j] = wl[Rule.id][j]
                     \/ j = Cidr(q) /\ wl'[Rule.id][j] = desired[q]
  BY AddChanges
<1>4. ManagedComplete'
  BY <1>1 DEF BookInv, ManagedComplete, ManagedChoices, Owned, Between
<1>5. WantedHandled'
  BY <1>1 DEF BookInv, WantedHandled, Writing, Wanted, AddEntry, AddFails
<1>6. AuthorisedExact'
  <2>1. SUFFICES ASSUME NEW p \in authorised'
                 PROVE  \/ Cidr(p) \in edited \/ wl'[Rule.id][Cidr(p)] \in Source
                        \/ p \in AdminPresent
    BY <1>1 DEF AuthorisedExact, AdminPresent
  <2>2. CASE p \in authorised
    <3>1. Cidr(p) \in Key
      BY <2>2 DEF TypeOK, Key
    <3>. QED  BY <1>2, <1>3, <2>2, <3>1 DEF BookInv, AuthorisedExact
  <2>3. CASE p = q /\ AddEntry(q)
    <3>1. wl'[Rule.id][Cidr(q)] = desired[q]
      BY <1>1, <1>2, <2>3, PutChanges DEF AddEntry, TypeOK
    <3>. QED  BY <1>2, <2>3, <3>1
  <2>. QED  BY <2>2, <2>3 DEF AddEntry, AddFails
<1>7. OwnTracked'
  BY <1>1, <1>2, <1>3 DEF BookInv, OwnTracked, Writing, Wanted
<1>8. ObsoleteHandled'
  BY <1>1 DEF ObsoleteHandled
<1>. QED  BY <1>4, <1>5, <1>6, <1>7, <1>8 DEF BookInv

\* A remove takes its entry away, or is recorded as failed.
LEMMA BookRemove ==
  ASSUME TypeOK, PassInv, BookInv, NEW j \in Key, RemoveEntry(j) \/ RemoveFails(j)
  PROVE  BookInv'
<1>1. /\ pc = "removes" /\ j \in removing /\ errs \subseteq errs'
      /\ UNCHANGED <<cfg, pc, ri, entries, managed, desired, adding, authorised, edited>>
      /\ Rule' = Rule
  BY DEF RemoveEntry, RemoveFails, Rule
<1>2. Obsolete(j)
  BY <1>1 DEF PassInv, RemovesObsolete
<1>3. \A k \in Key : \/ wl'[Rule.id][k] = wl[Rule.id][k]
                     \/ k = j /\ wl'[Rule.id][k] = None
  BY RemoveChanges
<1>4. ManagedComplete'
  BY <1>1 DEF BookInv, ManagedComplete, ManagedChoices, Owned, Between
<1>5. WantedHandled'
  BY <1>1 DEF BookInv, WantedHandled, Writing, Wanted
<1>6. AuthorisedExact'
  <2>1. SUFFICES ASSUME NEW p \in authorised
                 PROVE  \/ Cidr(p) \in edited \/ wl'[Rule.id][Cidr(p)] \in Source
                        \/ p \in AdminPresent
    BY <1>1 DEF AuthorisedExact, AdminPresent
  <2>2. Wanted(p) /\ Cidr(p) \in Key
    BY DEF PassInv, AuthorisedHolds, TypeOK, Key
  <2>3. j # Cidr(p)
    BY <1>2, <2>2 DEF Obsolete, Wanted, canonicalEntry, Cidr
  <2>. QED  BY <1>3, <2>2, <2>3 DEF BookInv, AuthorisedExact
<1>7. OwnTracked'
  BY <1>1, <1>3, SourceAssumption DEF BookInv, OwnTracked, Writing, Wanted
<1>8. ObsoleteHandled'
  <2>1. SUFFICES ASSUME NEW k \in managed, Obsolete(k)
                 PROVE  k \in removing' \/ k \in edited \/ k \in errs' \/ wl'[Rule.id][k] = None
    BY <1>1 DEF ObsoleteHandled, Obsolete
  <2>2. k \in Key
    BY DEF TypeOK
  <2>3. CASE k # j
    BY <1>1, <1>3, <2>1, <2>2, <2>3 DEF BookInv, ObsoleteHandled, RemoveEntry, RemoveFails
  <2>4. CASE k = j /\ RemoveFails(j)
    BY <2>4 DEF RemoveFails
  <2>5. CASE k = j /\ RemoveEntry(j)
    BY <1>1, <2>5, PutChanges DEF RemoveEntry, TypeOK
  <2>. QED  BY <2>3, <2>4, <2>5
<1>. QED  BY <1>4, <1>5, <1>6, <1>7, <1>8 DEF BookInv

\* An administrator's edit falsifies no book: the entry is marked as edited.
LEMMA BookAdmin ==
  ASSUME TypeOK, PassInv, BookInv, NEW r \in RuleId, NEW k \in Key,
         NEW comment \in {Admin, None}, AdminEdits(r, k, comment)
  PROVE  BookInv'
<1>1. /\ UNCHANGED <<cfg, pc, ri, entries, managed, desired, adding, authorised, removing, errs>>
      /\ edited \subseteq edited' /\ Rule' = Rule
  BY DEF AdminEdits, passVars, Rule
<1>2. CASE Between
  BY <1>1, <1>2, BookCleared DEF PassInv, HoldsNothing, Between
<1>3. CASE ~Between
  <2>1. \A j \in Key : j \in edited' \/ wl'[Rule.id][j] = wl[Rule.id][j]
    BY <1>3, EditRecorded DEF Between
  <2>2. ManagedComplete'
    BY <1>1 DEF BookInv, ManagedComplete, ManagedChoices, Owned, Between
  <2>3. WantedHandled'
    BY <1>1 DEF BookInv, WantedHandled, Writing, Wanted
  <2>4. AuthorisedExact'
    <3>1. SUFFICES ASSUME NEW p \in authorised
                   PROVE  \/ Cidr(p) \in edited' \/ wl'[Rule.id][Cidr(p)] \in Source
                          \/ p \in AdminPresent
      BY <1>1 DEF AuthorisedExact, AdminPresent
    <3>2. Cidr(p) \in Key
      BY DEF TypeOK, Key
    <3>. QED  BY <1>1, <2>1, <3>2 DEF BookInv, AuthorisedExact
  <2>5. OwnTracked'
    BY <1>1, <2>1 DEF BookInv, OwnTracked, Writing, Wanted
  <2>6. ObsoleteHandled'
    BY <1>1, <2>1 DEF BookInv, ObsoleteHandled, Obsolete, TypeOK
  <2>. QED  BY <2>2, <2>3, <2>4, <2>5, <2>6 DEF BookInv
<1>. QED  BY <1>2, <1>3

\* Neither a tick nor a stuttering step touches the books.
LEMMA BookIdle == BookInv /\ (Tick \/ UNCHANGED vars) => BookInv'
<1>1. SUFFICES ASSUME BookInv, Tick \/ UNCHANGED vars PROVE BookInv'
  OBVIOUS
<1>2. /\ UNCHANGED <<wl, cfg, pc, ri, entries, managed, desired, adding, authorised,
                     removing, errs, edited>>
      /\ Rule' = Rule
  BY <1>1 DEF Tick, vars, passVars, Rule
<1>3. ManagedComplete'
  BY <1>1, <1>2 DEF BookInv, ManagedComplete, ManagedChoices, Owned, Between
<1>4. WantedHandled' /\ AuthorisedExact' /\ OwnTracked' /\ ObsoleteHandled'
  BY <1>1, <1>2
  DEF BookInv, WantedHandled, AuthorisedExact, OwnTracked, ObsoleteHandled, Writing,
      Wanted, AdminPresent, Obsolete
<1>. QED  BY <1>3, <1>4 DEF BookInv

\* BookInv holds in every reachable state.
THEOREM BooksCorrect == Spec => []BookInv
<1>1. TypeOK /\ PassInv /\ BookInv /\ [Next]_vars => BookInv'
  <2>1. SUFFICES ASSUME TypeOK, PassInv, BookInv, [Next]_vars PROVE BookInv'
    OBVIOUS
  <2>2. CASE PluginStep
    BY <2>1, <2>2, BookBefore, BookBeginAdds, BookBeginRemoves, BookAdd, BookRemove
    DEF PluginStep, WriteStep
  <2>3. CASE AdminStep
    BY <2>1, <2>3, BookAdmin DEF AdminStep
  <2>. QED  BY <2>1, <2>2, <2>3, BookBefore, BookIdle DEF Next
<1>. QED  BY <1>1, BookCleared, TypeCorrect, PassCorrect, PTL DEF Spec

\* Of two owned entries for one authorisation, one is the legacy form of the
\* other: the rule held it twice.
LEMMA TwoFormsAreTwin ==
  ASSUME NEW p \in Prefix, NEW j \in Forms(p), NEW k \in Forms(p), j # k,
         entries[j] \in Source, entries[k] \in Source
  PROVE  Twin(p)
<1>1. \A x \in Forms(p) : x = Cidr(p) \/ x = [form |-> "bare", net |-> p]
  BY DEF Forms, Key, Cidr, Bare, canonicalEntry
<1>2. {x \in Forms(p) : entries[x] \in Source} = {j, k}
  BY <1>1
<1>3. Cardinality({j, k}) = 2
  <2>1. IsFiniteSet({j}) /\ Cardinality({j}) = 1 /\ {j, k} = {j} \cup {k}
    BY FS_Singleton
  <2>2. Cardinality({j} \cup {k}) = IF k \in {j} THEN Cardinality({j}) ELSE Cardinality({j}) + 1
    BY <2>1, FS_AddElement
  <2>. QED  BY <2>1, <2>2
<1>. QED  BY <1>2, <1>3 DEF Twin

\* A pass in which no call failed, whatever it found, leaves the rule with
\* exactly what it wants: all of it, and nothing else of its own.
THEOREM PassLeavesExact == Spec => []PassExact
<1>1. ASSUME TypeOK, PassInv, BookInv, PassEnds, errs = {}, NEW p \in Prefix,
             Forms(p) \cap edited = {}
      PROVE  /\ Wanted(p) => p \in AdminPresent \/ wl[Rule.id][Cidr(p)] \in Source
             /\ ~Twin(p) => \A k \in Forms(p) :
                    wl[Rule.id][k] \in Source => k = Cidr(p) /\ Wanted(p)
  <2>1. pc = "removes" /\ removing = {} /\ adding = {}
    BY <1>1 DEF PassEnds, BookInv, ManagedComplete
  <2>2. Wanted(p) => p \in authorised
    BY <1>1, <2>1 DEF BookInv, WantedHandled, Writing
  <2>3. Cidr(p) \in Forms(p)
    BY DEF Forms, Key, Cidr, canonicalEntry
  <2>4. Wanted(p) => p \in AdminPresent \/ wl[Rule.id][Cidr(p)] \in Source
    BY <1>1, <2>2, <2>3 DEF BookInv, AuthorisedExact
  <2>5. ASSUME ~Twin(p), NEW k \in Forms(p), wl[Rule.id][k] \in Source
        PROVE  k = Cidr(p) /\ Wanted(p)
    <3>1. k \in Key /\ canonicalEntry(k) = p /\ k \notin edited
      BY <1>1 DEF Forms
    <3>2. CASE entries[k] \notin Source
      BY <1>1, <2>1, <2>5, <3>1, <3>2 DEF BookInv, OwnTracked, Writing
    <3>3. CASE entries[k] \in Source
      <4>1. PICK j \in managed : canonicalEntry(j) = p /\ entries[j] \in Source /\ j \in Key
        BY <1>1, <2>1, <3>1, <3>3
        DEF BookInv, ManagedComplete, ManagedChoices, Owned, Between
      <4>2. k \in managed
        BY <2>5, <3>3, <4>1, TwoFormsAreTwin DEF Forms
      <4>3. ~Obsolete(k)
        BY <1>1, <2>1, <2>5, <3>1, <4>2, SourceAssumption DEF BookInv, ObsoleteHandled
      <4>. QED  BY <2>2, <3>1, <4>3 DEF Obsolete, Wanted
    <3>. QED  BY <3>2, <3>3
  <2>. QED  BY <2>4, <2>5
<1>2. TypeOK /\ PassInv /\ BookInv => PassExact
  BY <1>1 DEF PassExact
<1>. QED  BY <1>2, TypeCorrect, PassCorrect, BooksCorrect, PTL
===============================================================================
