-------------------------- MODULE ReconcilerHistory --------------------------
(***************************************************************************)
(* The reconciler with three history variables, for the properties that    *)
(* relate a step to what happened in earlier cycles.  They only observe:   *)
(* every behaviour of Reconciler has one here with the same values of the  *)
(* reconciler's own variables.                                             *)
(***************************************************************************)
EXTENDS Reconciler

VARIABLES
    lastKnown,   \* the routable addresses of f's last definitive answer
    outage,      \* outage[r][f]: age of f's outage as rule r has seen it
    fetchLog     \* when each provider was last fetched, and if in this cycle

history == <<lastKnown, outage, fetchLog>>
hvars == <<vars, history>>

NotFetched == [ago |-> Retry, thisCycle |-> FALSE]

HInit ==
    /\ Init
    /\ lastKnown = [f \in Fqdn |-> {}]
    /\ outage = [r \in RuleId |-> [f \in Fqdn |-> NotFailing]]
    /\ fetchLog = [id \in Provider |-> NotFetched]

HResolve(f, a) ==
    /\ ResolveFqdn(f, a)
    /\ lastKnown' = IF a.kind = "fail" THEN lastKnown
                    ELSE [lastKnown EXCEPT ![f] = a.ips \ cfg.blocked]
    /\ outage' = [outage EXCEPT ![Rule.id][f] =
                     IF a.kind # "fail" THEN NotFailing
                     ELSE IF @ = NotFailing THEN 0 ELSE @]
    /\ UNCHANGED fetchLog

HStart(c, force) ==
    /\ StartCycle(c, force)
    /\ fetchLog' = [id \in Provider |-> [fetchLog[id] EXCEPT !.thisCycle = FALSE]]
    /\ UNCHANGED <<lastKnown, outage>>

HFetch(id) ==
    /\ BeginFetch(id)
    /\ fetchLog' = [fetchLog EXCEPT ![id] = [ago |-> 0, thisCycle |-> TRUE]]
    /\ UNCHANGED <<lastKnown, outage>>

\* What the reconciler forgets, history forgets.
HFinish ==
    /\ FinishCycle
    /\ LET named(s) == \E i \in DOMAIN cfg.rules : \E j \in
               DOMAIN (cfg.rules[i].fqdns \o cfg.rules[i].providers) :
                   (cfg.rules[i].fqdns \o cfg.rules[i].providers)[j] = s
       IN  /\ outage' = [r \in RuleId |-> [f \in Fqdn |->
                            IF named(f) THEN outage[r][f] ELSE NotFailing]]
           /\ fetchLog' = [id \in Provider |->
                            IF named(id) THEN fetchLog[id] ELSE NotFetched]
           /\ lastKnown' = [f \in Fqdn |-> IF named(f) THEN lastKnown[f] ELSE {}]

HTick ==
    /\ Tick
    /\ outage' = [r \in RuleId |-> [f \in Fqdn |->
                     IF outage[r][f] = NotFailing THEN NotFailing
                     ELSE Older(outage[r][f], MaxAge)]]
    /\ fetchLog' = [id \in Provider |-> [fetchLog[id] EXCEPT !.ago = Older(@, Retry)]]
    /\ UNCHANGED lastKnown

HRestart ==
    /\ Restart
    /\ outage' = [r \in RuleId |-> [f \in Fqdn |-> NotFailing]]
    /\ fetchLog' = [id \in Provider |-> NotFetched]
    /\ UNCHANGED lastKnown

HNext ==
    \/ \E c \in Configs, force \in BOOLEAN : HStart(c, force)
    \/ \E f \in Fqdn : \E a \in Outcomes[f] \cup {Failure} : HResolve(f, a)
    \/ \E id \in Provider : HFetch(id)
    \/ HFinish \/ HTick \/ HRestart
    \/ /\ \/ ListRule \/ ListFails \/ FqdnsDone
          \/ \E id \in Provider : UseWithoutFetch(id) \/ FetchFails(id)
          \/ \E id \in Provider, list \in Lists : FetchReturns(id, list)
          \/ BeginAdds \/ BeginRemoves \/ WriteStep
          \/ RuleReturns \/ AdminStep
       /\ UNCHANGED history

HSpec == HInit /\ [][HNext]_hvars

-------------------------------------------------------------------------------
\* The grace window bounds an outage as each rule sees it: a rule keeps the
\* addresses of a name whose lookups for it have been failing for less than
\* the window, and no longer (dns_failure_grace_seconds).
GraceWindowEnds ==
    [][\A f \in Fqdn :
          ResolveFqdn(f, Failure) /\ report'[f] = "grace"
          => outage'[Rule.id][f] < cfg.grace]_hvars

\* "the last known addresses are kept for a configurable window": an address
\* of a name's last definitive answer is not deleted while the lookups of that
\* name fail within the window.
LastKnownKept ==
    [][WriteStep => \A f \in Fqdn, h \in Host :
          /\ h \in lastKnown[f] /\ Deletes(Cidr({h}))
          /\ report[f] \in {"grace", "failed"} /\ failing[f] < cfg.grace
          => Overlaps(cfg.blocked, {h})]_hvars

\* Two fetches of a provider are a retry interval apart, be they of one cycle or
\* of two, and however many rules share it; only a cycle forced by Refresh may
\* fetch it sooner, and that once.  So a cycle that outlasts the retry interval
\* may fetch a provider twice: shouldAttempt asks for the time at each rule
\* (reconciler.go:526-531), and nextAttempt blocks a repeat in the same cycle
\* for the retry interval, not for the cycle.  A provider that was forgotten, by
\* a restart or because no rule has it, starts afresh.
PoliteFetching ==
    [][\A id \in Provider : BeginFetch(id) =>
          \/ fetchLog[id].ago = Retry
          \/ forced /\ ~fetchLog[id].thisCycle]_hvars
===============================================================================
