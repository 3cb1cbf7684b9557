------------------------------ MODULE ConfigData ------------------------------
(***************************************************************************)
(* The configuration as a value (src/config.go): what a file may hold,     *)
(* what LoadConfig makes of it, and what each request of the panel does to *)
(* it.                                                                     *)
(***************************************************************************)
EXTENDS Integers, Sequences

CONSTANTS
    Value,             \* texts: rule ids, names, providers, servers, CIDR lists
    Malformed,         \* the texts their validator refuses
    MinInterval, DefaultInterval,  \* seconds between cycles
    MinPeriod, DefaultPeriod,      \* seconds between fetches of a provider
    DefaultGrace,
    DefaultBlocked,    \* DefaultUnroutableCIDRs
    Absent             \* a key the JSON does not have

ASSUME DefaultAssumption ==
    /\ Malformed \subseteq Value /\ Absent \notin Value \cup Int
    /\ DefaultBlocked \in Value \ Malformed
    /\ MinInterval \in Nat \ {0} /\ DefaultInterval \in Nat /\ DefaultInterval >= MinInterval
    /\ MinPeriod \in Nat \ {0} /\ DefaultPeriod \in Nat /\ DefaultPeriod >= MinPeriod
    /\ DefaultGrace \in Nat

RuleConfig == [id : Value, fqdns : Seq(Value), providers : Seq(Value)]

\* What a file may say: written by saveConfig, by an older version or by hand.
\* A missing interval decodes to 0.  server is the superseded dns_server.
RawConfig ==
    [interval : Int, period : Int, grace : Int \cup {Absent},
     servers : Seq(Value), server : Value \cup {Absent},
     blocked : Value \cup {Absent}, rules : Seq(RuleConfig)]

\* What the store holds: every key set and the superseded one gone.
Config ==
    [interval : Nat, period : Nat, grace : Nat, servers : Seq(Value),
     server : {Absent}, blocked : Value, rules : Seq(RuleConfig)]

DefaultConfig ==
    [interval |-> DefaultInterval, period |-> DefaultPeriod, grace |-> DefaultGrace,
     servers |-> <<>>, server |-> Absent, blocked |-> DefaultBlocked, rules |-> <<>>]

\* Variant: the floor is not applied on load.
AtLeastOne(v, min, default) == IF v <= 0 THEN default ELSE v

AtLeast(v, min, default) ==
    IF v <= 0 THEN default ELSE IF v < min THEN min ELSE v

\* Variant: the superseded server is migrated and not cleared.
LoadedTwice(raw) ==
    [raw EXCEPT
        !.interval = AtLeast(@, MinInterval, DefaultInterval),
        !.period = AtLeast(@, MinPeriod, DefaultPeriod),
        !.grace = IF @ = Absent THEN DefaultGrace ELSE IF @ < 0 THEN 0 ELSE @,
        !.servers = IF @ = <<>> /\ raw.server # Absent THEN <<raw.server>> ELSE @,
        !.blocked = IF @ = Absent THEN DefaultBlocked ELSE @]

\* LoadConfig on a file that parses.
Loaded(raw) ==
    [raw EXCEPT
        !.interval = AtLeast(@, MinInterval, DefaultInterval),
        !.period = AtLeast(@, MinPeriod, DefaultPeriod),
        !.grace = IF @ = Absent THEN DefaultGrace ELSE IF @ < 0 THEN 0 ELSE @,
        !.servers = IF @ = <<>> /\ raw.server # Absent THEN <<raw.server>> ELSE @,
        !.server = Absent,
        !.blocked = IF @ = Absent THEN DefaultBlocked ELSE @]

\* LoadConfig refuses a list of CIDRs that does not compile.
Loadable(raw) == raw.blocked \notin Malformed

-------------------------------------------------------------------------------
(* Requests.  A setting is set; a name or a provider is added to a rule or   *)
(* removed from it.                                                          *)

Request ==
    [op : {"set"}, field : {"interval", "period", "grace"}, value : Int]
    \cup [op : {"set"}, field : {"blocked"}, value : Value]
    \cup [op : {"set"}, field : {"servers"}, value : Seq(Value)]
    \cup [op : {"add", "remove"}, rule : Value, field : {"fqdns", "providers"}, value : Value]

\* What is checked before the lock is taken.  RemoveFQDN and RemoveProvider
\* check nothing; AddProvider knows the registry, AddFQDN the syntax.
Valid(req) ==
    CASE req.op = "remove" -> TRUE
      [] req.op = "add" -> req.value \notin Malformed /\ req.rule \notin Malformed
      [] req.field = "interval" -> req.value >= MinInterval
      [] req.field = "period" -> req.value >= MinPeriod
      [] req.field = "grace" -> req.value >= 0
      [] req.field = "blocked" -> req.value \notin Malformed
      [] req.field = "servers" -> \A i \in DOMAIN req.value : req.value[i] \notin Malformed

Listed(seq, v) == \E i \in DOMAIN seq : seq[i] = v

\* The first rule with this id, 0 if there is none.
RuleIndex(rules, id) ==
    IF \E i \in DOMAIN rules : rules[i].id = id
    THEN CHOOSE i \in DOMAIN rules :
             rules[i].id = id /\ \A j \in 1..(i - 1) : rules[j].id # id
    ELSE 0

WithRule(rules, id) ==
    IF RuleIndex(rules, id) # 0 THEN rules
    ELSE Append(rules, [id |-> id, fqdns |-> <<>>, providers |-> <<>>])

\* What is checked under the lock: an addition is new, a removal is there.
Accepts(req, c) ==
    LET i == RuleIndex(c.rules, req.rule)
        there == i # 0 /\ Listed(c.rules[i][req.field], req.value)
    IN  CASE req.op = "set" -> TRUE
          [] req.op = "add" -> ~there
          [] req.op = "remove" -> there

\* The loop of a removal: what is not v, in the order it was in.
Kept(seq, v) ==
    LET kept[n \in 0..Len(seq)] ==
            IF n = 0 THEN <<>>
            ELSE IF seq[n] = v THEN kept[n - 1] ELSE Append(kept[n - 1], seq[n])
    IN  kept[Len(seq)]

Effect(req, c) ==
    CASE req.op = "set" -> [c EXCEPT ![req.field] = req.value]
      [] req.op = "add" ->
            LET rules == WithRule(c.rules, req.rule)
            IN  [c EXCEPT !.rules =
                    [rules EXCEPT ![RuleIndex(rules, req.rule)][req.field] =
                        Append(@, req.value)]]
      [] req.op = "remove" ->
            [c EXCEPT !.rules[RuleIndex(c.rules, req.rule)][req.field] =
                Kept(@, req.value)]

-------------------------------------------------------------------------------
\* A configuration the reconcile loop can use without checking it again.
Usable(c) ==
    /\ c.interval >= MinInterval
    /\ c.period >= MinPeriod
    /\ c.grace # Absent /\ c.grace >= 0
    /\ c.blocked \in Value \ Malformed
    /\ \A i \in DOMAIN c.rules : \A field \in {"fqdns", "providers"} :
           \A j, k \in DOMAIN c.rules[i][field] :
               c.rules[i][field][j] = c.rules[i][field][k] => j = k
===============================================================================
