----------------------------- MODULE MCReconciler -----------------------------
(***************************************************************************)
(* Small instances of Reconciler.  Each scenario gives the constants one   *)
(* question needs; the .cfg files choose among them.                       *)
(***************************************************************************)
EXTENDS Reconciler, TLC

CONSTANTS h1, h2, h3, f, g, cf, other, r1, r2

RuleOf(id, fqdns, providers) == [id |-> id, fqdns |-> fqdns, providers |-> providers]
ConfigOf(rules, grace, blocked) ==
    [rules |-> rules, grace |-> grace, blocked |-> blocked, period |-> MaxAge]

Singletons == {{h} : h \in Host}

\* Whitelists in which each key of keys is absent or has one of comments.
ListsOver(keys, comments) ==
    {[r \in RuleId |-> [k \in Key |-> IF k \in keys THEN m[k] ELSE None]] :
        m \in [keys -> comments \cup {None}]}

\* What two DNS servers, asked in turn, make of their answers.
TwoServers(answers) == {Resolve(<<a, b>>) : a, b \in answers}

\* What two endpoints make of their replies.
TwoEndpoints(replies) ==
    {Fetch(both) : both \in {b \in [1..2 -> replies] : FetchSucceeds(b)}}
BodyOf(lines) == [kind |-> "body", body |-> lines]
Broken == [kind |-> "status", body |-> <<>>]

-------------------------------------------------------------------------------
\* Names: one rule, two names, an IPv4 and an IPv6 address, legacy entries.
NamesConfigs ==
    {ConfigOf(<<RuleOf(r1, fs, <<>>)>>, grace, blocked) :
        fs \in {<<f>>, <<f, g>>}, grace \in {1}, blocked \in {{}, {h1}}}
NamesOutcomes == (f :> {Resolved({h1}), Resolved({h1, h2}), NotFound}) @@ (g :> {Resolved({h1})})
NamesLists == ListsOver({Bare(h) : h \in Host} \cup {Cidr({h1})}, {f, Admin})

-------------------------------------------------------------------------------
\* Providers: one known, one unknown, a range of two hosts and one of one, a
\* list that is empty and one with a prefix broader than the floor.
Range12 == {h1, h2}
Everything == {h1, h2, h3}
RangePrefixes == Singletons \cup {Range12, Everything}
ProviderConfigs ==
    {ConfigOf(<<RuleOf(r1, <<>>, <<cf, other>>)>>, 0, blocked) : blocked \in {{}, {h1}}}
    \cup {ConfigOf(<<>>, 0, {})}
ProviderReplies ==
    {BodyOf(<<CidrLine(Range12), BlankLine>>), BodyOf(<<CidrLine({h3})>>),
     BodyOf(<<CidrLine(Range12), GarbledLine>>), BodyOf(<<CidrLine(Everything)>>),
     BodyOf(<<BlankLine>>), Broken}
\* The last two are a fetcher's that does not keep the contract.
ProviderLists == TwoEndpoints(ProviderReplies) \cup {{}, {Everything}}
NoOutcomes == [x \in {} |-> {}]
ProviderInitialLists ==
    {[r \in RuleId |-> [k \in Key |->
        IF k \in owned THEN cf ELSE IF k = Cidr({h2}) THEN other ELSE None]] :
        owned \in SUBSET {Cidr(Range12), Cidr({h3})}}

-------------------------------------------------------------------------------
\* One provider shared by two rules.
SharedConfigs ==
    {ConfigOf(<<RuleOf(r1, <<>>, <<cf>>), RuleOf(r2, <<>>, <<cf>>)>>, 0, {})}

\* One name whose lookups fail at will; the same name in two rules.
OneNameConfigs == {ConfigOf(<<RuleOf(r1, <<f>>, <<>>)>>, 2, blocked) : blocked \in {{}, {h1}}}
TwoRuleConfigs == {ConfigOf(<<RuleOf(r1, <<f>>, <<>>), RuleOf(r2, <<f>>, <<>>)>>, 1, {})}
MovingOutcomes ==
    [x \in Fqdn |-> TwoServers({Resolved({h}) : h \in Host} \cup {NotFound, Failure})]

\* A name alone in a rule, or a provider shared by two; no address is both's.
HistoryConfigs == OneNameConfigs \cup SharedConfigs
HistoryOutcomes == [x \in Fqdn |-> TwoServers({Resolved({h1}), Resolved({h2}), NotFound, Failure})]
HistoryLists == {{}, {{h3}}}
EmptyLists == ListsOver({}, {})

-------------------------------------------------------------------------------
\* A steady world: f always resolves, g always fails, cf publishes one list,
\* the configuration stays; the whitelist starts in any state, and faults,
\* edits and restarts are finitely many.
HostPairPrefixes == Singletons \cup {Host}
SteadyConfigs == {ConfigOf(<<RuleOf(r1, <<f, g>>, <<cf>>)>>, 1, {})}
SteadyOutcomes == (f :> {Resolved({h1})}) @@ (g :> {Failure})
SteadyLists == TwoEndpoints({BodyOf(<<CidrLine(Host)>>), Broken})
SteadyInitialLists ==
    ListsOver({Bare(h1), Cidr({h1}), Cidr({h2})}, {f, g, Admin}) \cup ListsOver({Cidr(Host)}, {cf, f})

SteadyWants == {{h1}, Host}

Synced ==
    \A p \in Prefix :
        /\ (\E k \in Forms(p) : wl[r1][k] \in Source) => p \in SteadyWants
        /\ p \in SteadyWants => Admits(wl[r1], p)

\* "It converges, so nothing it owns stays wrong for long": once nothing goes
\* wrong any more the whitelist becomes, and stays, what the sources say -
\* what it owns and nobody wants is gone, the addresses of a name that keeps
\* failing included, and everything wanted is let in.
Converges == <>[]Synced
===============================================================================
