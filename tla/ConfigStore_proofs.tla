-------------------------- MODULE ConfigStore_proofs --------------------------
(***************************************************************************)
(* What the persisted configuration promises, for any number of handlers,  *)
(* any requests, any files written by hand and any failures of the disk:   *)
(* the file is whole and is what the store holds, a confirmed change is    *)
(* the one a start finds, the loop never gets a configuration it cannot    *)
(* use, and the store implements the register of ConfigRegister.           *)
(***************************************************************************)
EXTENDS ConfigStore, WellFoundedInduction, TLAPS

\* A set of natural numbers that is not empty has a least element.
LEMMA LeastElement ==
  ASSUME NEW S \in SUBSET Nat, S # {}
  PROVE  \E i \in S : \A j \in S : i <= j
<1>1. \E i \in S : \A j \in S : ~(<<j, i>> \in OpToRel(<, Nat))
  BY NatLessThanWellFounded, WFMin
<1>2. PICK i \in S : \A j \in S : ~(<<j, i>> \in OpToRel(<, Nat))
  BY <1>1
<1>3. \A j \in S : ~(j < i)
  BY <1>2 DEF OpToRel
<1>. QED  BY <1>3

\* Induction on the natural numbers up to n, for a set instead of a predicate.
LEMMA Upwards ==
  ASSUME NEW n \in Nat, NEW S, 0 \in S, \A m \in 0..(n - 1) : m \in S => m + 1 \in S
  PROVE  \A m \in 0..n : m \in S
<1>. SUFFICES ASSUME (0..n) \ S # {}
              PROVE  FALSE
  OBVIOUS
<1>1. PICK i \in (0..n) \ S : \A j \in (0..n) \ S : i <= j
  <2>1. (0..n) \ S \in SUBSET Nat
    OBVIOUS
  <2>. QED  BY <2>1, LeastElement
<1>2. i # 0 /\ i \in Nat
  BY <1>1
<1>3. i - 1 \in S
  BY <1>1, <1>2
<1>. QED  BY <1>1, <1>2, <1>3

-------------------------------------------------------------------------------
(* Lists: what the loop of a removal leaves, and where a rule is found.      *)

NoRepeat(seq) == \A j, k \in DOMAIN seq : seq[j] = seq[k] => j = k

\* The unfolding of the loop of Kept, which TLA+ defines by a CHOOSE.
Loop(seq, v, f) ==
    f = [n \in 0..Len(seq) |->
            IF n = 0 THEN <<>>
            ELSE IF seq[n] = v THEN f[n - 1] ELSE Append(f[n - 1], seq[n])]

\* There is a function that unfolds the loop: it is built one element at a time.
LEMMA LoopRuns ==
  ASSUME NEW seq \in Seq(Value), NEW v
  PROVE  \E f : Loop(seq, v, f)
<1>. DEFINE Upto(f, m) ==
        f = [n \in 0..m |->
                IF n = 0 THEN <<>>
                ELSE IF seq[n] = v THEN f[n - 1] ELSE Append(f[n - 1], seq[n])]
            S == {m \in 0..Len(seq) : \E f : Upto(f, m)}
<1>1. Len(seq) \in Nat
  OBVIOUS
<1>2. 0 \in S
  <2>1. Upto([n \in 0..0 |-> <<>>], 0)
    OBVIOUS
  <2>. HIDE DEF Upto
  <2>. QED  BY <1>1, <2>1
<1>3. ASSUME NEW m \in 0..(Len(seq) - 1), m \in S
      PROVE  m + 1 \in S
  <2>1. PICK f : Upto(f, m)
    BY <1>3
  <2>. DEFINE g == [n \in 0..(m + 1) |->
                      IF n = m + 1
                      THEN IF seq[n] = v THEN f[n - 1] ELSE Append(f[n - 1], seq[n])
                      ELSE f[n]]
              h == [n \in 0..(m + 1) |->
                      IF n = 0 THEN <<>>
                      ELSE IF seq[n] = v THEN g[n - 1] ELSE Append(g[n - 1], seq[n])]
  <2>2. \A n \in 0..m : g[n] = f[n]
    BY <1>1
  <2>3. ASSUME NEW n \in 0..(m + 1)
        PROVE  g[n] = h[n]
    <3>1. CASE n = m + 1
      <4>1. g[m] = f[m]
        BY <2>2, <1>1
      <4>2. g[n] = IF seq[n] = v THEN f[n - 1] ELSE Append(f[n - 1], seq[n])
        BY <3>1
      <4>. QED  BY <3>1, <4>1, <4>2, <1>1
    <3>2. CASE n \in 0..m
      <4>1. f[n] = IF n = 0 THEN <<>>
                   ELSE IF seq[n] = v THEN f[n - 1] ELSE Append(f[n - 1], seq[n])
        BY <2>1, <3>2
      <4>2. n # 0 => g[n - 1] = f[n - 1]
        BY <2>2, <3>2, <1>1
      <4>. QED  BY <4>1, <4>2, <2>2, <3>2
    <3>. QED  BY <3>1, <3>2, <1>1
  <2>4. g = h
    BY <2>3
  <2>5. Upto(g, m + 1)
    BY <2>4
  <2>. HIDE DEF Upto, g, h
  <2>. QED  BY <2>5, <1>1
<1>4. \A m \in 0..Len(seq) : m \in S
  BY <1>1, <1>2, <1>3, Upwards
<1>5. \E f : Upto(f, Len(seq))
  <2>. HIDE DEF Upto
  <2>. QED  BY <1>1, <1>4
<1>. QED  BY <1>5 DEF Loop

\* A removal leaves a list of texts, and one without repetitions if it was.
LEMMA KeptIs ==
  ASSUME NEW seq \in Seq(Value), NEW v
  PROVE  /\ Kept(seq, v) \in Seq(Value)
         /\ NoRepeat(seq) => NoRepeat(Kept(seq, v))
<1>1. PICK f : Loop(seq, v, f) /\ Kept(seq, v) = f[Len(seq)]
  <2>. DEFINE kept == CHOOSE f : Loop(seq, v, f)
  <2>1. Kept(seq, v) = kept[Len(seq)]
    BY DEF Kept, Loop
  <2>2. Loop(seq, v, kept)
    <3>. HIDE DEF kept
    <3>1. kept = CHOOSE f : Loop(seq, v, f)
      BY DEF kept
    <3>. QED  BY <3>1, LoopRuns
  <2>. HIDE DEF kept
  <2>. QED  BY <2>1, <2>2
<1>2. Len(seq) \in Nat
  OBVIOUS
<1>. DEFINE From(s, m) == \A j \in DOMAIN s : \E k \in 1..m : s[j] = seq[k]
            S == {m \in 0..Len(seq) : /\ f[m] \in Seq(Value)
                                      /\ From(f[m], m)
                                      /\ NoRepeat(seq) => NoRepeat(f[m])}
<1>3. f[0] = <<>>
  BY <1>1, <1>2 DEF Loop
<1>4. 0 \in S
  <2>1. f[0] \in Seq(Value) /\ DOMAIN f[0] = {}
    BY <1>3
  <2>2. From(f[0], 0) /\ NoRepeat(f[0])
    BY <2>1 DEF NoRepeat
  <2>. QED  BY <1>2, <2>1, <2>2
<1>5. ASSUME NEW m \in 0..(Len(seq) - 1), m \in S
      PROVE  m + 1 \in S
  <2>1. m + 1 \in 1..Len(seq) /\ m \in Nat
    BY <1>2
  <2>2. f[m + 1] = IF seq[m + 1] = v THEN f[m] ELSE Append(f[m], seq[m + 1])
    <3>1. m + 1 \in 0..Len(seq) /\ m + 1 # 0 /\ (m + 1) - 1 = m
      BY <2>1, <1>2
    <3>2. f[m + 1] = IF m + 1 = 0 THEN <<>>
                     ELSE IF seq[m + 1] = v THEN f[(m + 1) - 1]
                          ELSE Append(f[(m + 1) - 1], seq[m + 1])
      BY <1>1, <3>1, Zenon DEF Loop
    <3>. QED  BY <3>1, <3>2
  <2>3. f[m] \in Seq(Value) /\ From(f[m], m) /\ (NoRepeat(seq) => NoRepeat(f[m]))
    BY <1>5
  <2>4. seq[m + 1] \in Value
    BY <2>1
  <2>5. CASE seq[m + 1] = v
    <3>1. From(f[m], m + 1)
      BY <2>1, <2>3
    <3>. QED  BY <2>1, <2>2, <2>3, <2>5, <3>1
  <2>6. CASE seq[m + 1] # v
    <3>. DEFINE s == f[m]
                a == Append(s, seq[m + 1])
    <3>1. /\ a \in Seq(Value) /\ DOMAIN a = 1..(Len(s) + 1) /\ DOMAIN s = 1..Len(s)
          /\ a[Len(s) + 1] = seq[m + 1] /\ \A j \in 1..Len(s) : a[j] = s[j]
          /\ Len(s) \in Nat
      BY <2>3, <2>4
    <3>. HIDE DEF a
    <3>2. From(a, m + 1)
      BY <2>1, <2>3, <3>1
    <3>3. ASSUME NoRepeat(seq)
          PROVE  NoRepeat(a)
      <4>1. \A j \in 1..Len(s) : a[j] # seq[m + 1]
        <5>1. SUFFICES ASSUME NEW j \in 1..Len(s), s[j] = seq[m + 1]
                       PROVE  FALSE
          BY <3>1
        <5>2. PICK k \in 1..m : s[j] = seq[k]
          BY <2>3, <3>1, <5>1
        <5>3. k \in 1..Len(seq) /\ k # m + 1 /\ DOMAIN seq = 1..Len(seq)
          BY <2>1, <1>2
        <5>. QED  BY <5>1, <5>2, <5>3, <3>3, <2>1 DEF NoRepeat
      <4>2. NoRepeat(s)
        BY <2>3, <3>3
      <4>. HIDE DEF s
      <4>. QED  BY <4>1, <4>2, <3>1 DEF NoRepeat
    <3>4. f[m + 1] = a
      BY <2>2, <2>6 DEF a
    <3>. HIDE DEF From
    <3>. QED  BY <2>1, <3>1, <3>2, <3>3, <3>4
  <2>. QED  BY <2>5, <2>6
<1>6. \A m \in 0..Len(seq) : m \in S
  BY <1>2, <1>4, <1>5, Upwards
<1>. QED  BY <1>1, <1>2, <1>6

\* The search for a rule ends at one with that id, or there is none.
LEMMA RuleIndexIs ==
  ASSUME NEW rules \in Seq(RuleConfig), NEW id
  PROVE  \/ /\ RuleIndex(rules, id) \in 1..Len(rules)
            /\ rules[RuleIndex(rules, id)].id = id
         \/ /\ RuleIndex(rules, id) = 0
            /\ \A i \in 1..Len(rules) : rules[i].id # id
<1>. DEFINE Named == {i \in 1..Len(rules) : rules[i].id = id}
<1>1. Len(rules) \in Nat /\ DOMAIN rules = 1..Len(rules)
  OBVIOUS
<1>2. CASE Named = {}
  BY <1>1, <1>2 DEF RuleIndex
<1>3. CASE Named # {}
  <2>1. PICK i \in Named : \A j \in Named : i <= j
    <3>1. Named \in SUBSET Nat
      BY <1>1
    <3>. QED  BY <1>3, <3>1, LeastElement
  <2>2. i \in 1..Len(rules) /\ rules[i].id = id /\ \A j \in 1..(i - 1) : rules[j].id # id
    BY <1>1, <2>1
  <2>3. RuleIndex(rules, id) =
            CHOOSE k \in DOMAIN rules :
                rules[k].id = id /\ \A j \in 1..(k - 1) : rules[j].id # id
    BY <1>1, <2>2 DEF RuleIndex
  <2>4. \E k \in DOMAIN rules : rules[k].id = id /\ \A j \in 1..(k - 1) : rules[j].id # id
    BY <1>1, <2>2
  <2>5. RuleIndex(rules, id) \in DOMAIN rules /\ rules[RuleIndex(rules, id)].id = id
    BY <2>3, <2>4, Zenon
  <2>. QED  BY <1>1, <2>5
<1>. QED  BY <1>2, <1>3

\* An addition to a rule finds it, where it was or at the end and empty.
LEMMA WithRuleIs ==
  ASSUME NEW rules \in Seq(RuleConfig), NEW id \in Value
  PROVE  LET new == WithRule(rules, id)
             at == RuleIndex(new, id)
         IN  /\ new \in Seq(RuleConfig) /\ at \in 1..Len(new)
             /\ \/ new = rules /\ RuleIndex(rules, id) = at
                \/ /\ RuleIndex(rules, id) = 0
                   /\ Len(new) = Len(rules) + 1 /\ at = Len(new)
                   /\ \A i \in 1..Len(rules) : new[i] = rules[i]
                   /\ new[at].fqdns = <<>> /\ new[at].providers = <<>>
<1>. DEFINE new == WithRule(rules, id)
            at == RuleIndex(new, id)
            rule == [id |-> id, fqdns |-> <<>>, providers |-> <<>>]
<1>1. CASE RuleIndex(rules, id) # 0
  BY <1>1, RuleIndexIs DEF WithRule
<1>2. CASE RuleIndex(rules, id) = 0
  <2>1. rule \in RuleConfig
    BY DEF RuleConfig
  <2>2. new = Append(rules, rule)
    BY <1>2 DEF WithRule
  <2>. HIDE DEF new, rule
  <2>3. /\ new \in Seq(RuleConfig) /\ Len(new) = Len(rules) + 1 /\ new[Len(new)] = rule
        /\ \A i \in 1..Len(rules) : new[i] = rules[i]
        /\ Len(rules) \in Nat
    BY <2>1, <2>2
  <2>4. rule.id = id /\ rule.fqdns = <<>> /\ rule.providers = <<>>
    BY DEF rule
  <2>5. \A i \in 1..Len(rules) : rules[i].id # id
    BY <1>2, RuleIndexIs
  <2>6. at \in 1..Len(new) /\ new[at].id = id
    <3>1. Len(new) \in 1..Len(new) /\ new[Len(new)].id = id
      BY <2>3, <2>4
    <3>. QED  BY <2>3, <3>1, RuleIndexIs
  <2>7. at = Len(new)
    <3>. HIDE DEF at
    <3>. QED  BY <2>3, <2>5, <2>6
  <2>. QED  BY <1>2, <2>3, <2>4, <2>6, <2>7 DEF new
<1>. QED  BY <1>1, <1>2

-------------------------------------------------------------------------------
(* Configurations: what a load makes of a file and a change makes of one.    *)

\* A configuration the store may hold: past the floors, with a list that compiles.
InForce(c) ==
    /\ c \in Config
    /\ c.interval >= MinInterval /\ c.period >= MinPeriod
    /\ c.blocked \notin Malformed

\* No rule lists a name or a provider twice.
Tidy(c) ==
    \A i \in DOMAIN c.rules : NoRepeat(c.rules[i].fqdns) /\ NoRepeat(c.rules[i].providers)

\* What the store holds can be written to a file.
LEMMA ConfigIsRaw == Config \subseteq RawConfig
BY DEF Config, RawConfig

\* The configuration createDefaultConfig writes can be held.
LEMMA DefaultInForce == InForce(DefaultConfig) /\ Tidy(DefaultConfig)
BY DefaultAssumption DEF InForce, Tidy, Config, DefaultConfig

\* LoadConfig raises everything to its floor and sets every key, whatever an
\* older version or a hand wrote, and leaves the rules as they are.
LEMMA LoadedIs ==
  ASSUME NEW raw \in RawConfig
  PROVE  /\ Loaded(raw) \in Config
         /\ Loaded(raw).interval >= MinInterval /\ Loaded(raw).period >= MinPeriod
         /\ Loaded(raw).rules = raw.rules
         /\ Loadable(raw) => Loaded(raw).blocked \notin Malformed
<1>. DEFINE interval == AtLeast(raw.interval, MinInterval, DefaultInterval)
            period == AtLeast(raw.period, MinPeriod, DefaultPeriod)
            grace == IF raw.grace = Absent THEN DefaultGrace
                     ELSE IF raw.grace < 0 THEN 0 ELSE raw.grace
            servers == IF raw.servers = <<>> /\ raw.server # Absent THEN <<raw.server>>
                       ELSE raw.servers
            blocked == IF raw.blocked = Absent THEN DefaultBlocked ELSE raw.blocked
<1>1. /\ raw.interval \in Int /\ raw.period \in Int /\ raw.grace \in Int \cup {Absent}
      /\ raw.servers \in Seq(Value) /\ raw.server \in Value \cup {Absent}
      /\ raw.blocked \in Value \cup {Absent} /\ raw.rules \in Seq(RuleConfig)
  BY DEF RawConfig
<1>2. /\ interval \in Nat /\ interval >= MinInterval
      /\ period \in Nat /\ period >= MinPeriod
  BY <1>1, DefaultAssumption DEF AtLeast
<1>3. grace \in Nat /\ servers \in Seq(Value) /\ blocked \in Value
  <2>1. grace \in Nat
    BY <1>1, DefaultAssumption
  <2>2. servers \in Seq(Value)
    BY <1>1
  <2>3. blocked \in Value
    BY <1>1, DefaultAssumption
  <2>. QED  BY <2>1, <2>2, <2>3
<1>4. Loadable(raw) => blocked \notin Malformed
  BY DefaultAssumption DEF Loadable
<1>5. Loaded(raw) = [raw EXCEPT !.interval = interval, !.period = period, !.grace = grace,
                                !.servers = servers, !.server = Absent, !.blocked = blocked]
  BY Zenon DEF Loaded
<1>. HIDE DEF interval, period, grace, servers, blocked
<1>6. Loaded(raw) = [interval |-> interval, period |-> period, grace |-> grace,
                     servers |-> servers, server |-> Absent, blocked |-> blocked,
                     rules |-> raw.rules]
  BY <1>5 DEF RawConfig
<1>. QED  BY <1>1, <1>2, <1>3, <1>4, <1>6 DEF Config

\* Loading what the store wrote gives back what it held.
LEMMA LoadedAgain ==
  ASSUME NEW c, InForce(c)
  PROVE  Loaded(c) = c
<1>1. /\ c.interval \in Nat /\ c.period \in Nat /\ c.grace \in Nat
      /\ c.server = Absent /\ c.blocked \in Value
      /\ c.interval >= MinInterval /\ c.period >= MinPeriod
  BY DEF InForce, Config
<1>2. /\ AtLeast(c.interval, MinInterval, DefaultInterval) = c.interval
      /\ AtLeast(c.period, MinPeriod, DefaultPeriod) = c.period
  BY <1>1, DefaultAssumption DEF AtLeast
<1>3. c.grace # Absent /\ c.blocked # Absent /\ ~(c.grace < 0)
  BY <1>1, DefaultAssumption
<1>4. Loaded(c) = [c EXCEPT !.interval = c.interval, !.period = c.period,
                            !.grace = c.grace, !.servers = c.servers,
                            !.server = c.server, !.blocked = c.blocked]
  BY <1>1, <1>2, <1>3, Zenon DEF Loaded
<1>. QED  BY <1>4 DEF InForce, Config

-------------------------------------------------------------------------------
TidyRules(rules) ==
    \A i \in DOMAIN rules : NoRepeat(rules[i].fqdns) /\ NoRepeat(rules[i].providers)

\* Setting one list of one rule leaves rules, tidy ones if the list is.
LEMMA ListSet ==
  ASSUME NEW rules \in Seq(RuleConfig), NEW i \in 1..Len(rules),
         NEW field \in {"fqdns", "providers"}, NEW list \in Seq(Value)
  PROVE  LET new == [rules EXCEPT ![i][field] = list]
         IN  /\ new \in Seq(RuleConfig)
             /\ TidyRules(rules) /\ NoRepeat(list) => TidyRules(new)
<1>. DEFINE new == [rules EXCEPT ![i][field] = list]
            rule == [rules[i] EXCEPT ![field] = list]
<1>1. Len(rules) \in Nat /\ DOMAIN rules = 1..Len(rules) /\ rules[i] \in RuleConfig
  OBVIOUS
<1>2. /\ rule \in RuleConfig
      /\ rule.fqdns = (IF field = "fqdns" THEN list ELSE rules[i].fqdns)
      /\ rule.providers = (IF field = "providers" THEN list ELSE rules[i].providers)
  BY <1>1 DEF RuleConfig
<1>3. new = [rules EXCEPT ![i] = rule]
  OBVIOUS
<1>. HIDE DEF rule, new
<1>4. /\ new \in Seq(RuleConfig) /\ DOMAIN new = 1..Len(rules)
      /\ \A j \in 1..Len(rules) : new[j] = IF j = i THEN rule ELSE rules[j]
  BY <1>1, <1>2, <1>3
<1>5. TidyRules(rules) /\ NoRepeat(list) => TidyRules(new)
  <2>. HAVE TidyRules(rules) /\ NoRepeat(list)
  <2>1. \A j \in 1..Len(rules) : NoRepeat(rules[j].fqdns) /\ NoRepeat(rules[j].providers)
    BY <1>1 DEF TidyRules
  <2>2. \A j \in 1..Len(rules) : NoRepeat(new[j].fqdns) /\ NoRepeat(new[j].providers)
    BY <1>2, <1>4, <2>1
  <2>. QED  BY <1>4, <2>2 DEF TidyRules
<1>. QED  BY <1>4, <1>5 DEF new

\* Appending what is not listed repeats nothing.
LEMMA AppendNew ==
  ASSUME NEW seq \in Seq(Value), NEW v \in Value, ~Listed(seq, v), NoRepeat(seq)
  PROVE  NoRepeat(Append(seq, v))
<1>. DEFINE a == Append(seq, v)
<1>1. /\ Len(seq) \in Nat /\ DOMAIN seq = 1..Len(seq) /\ DOMAIN a = 1..(Len(seq) + 1)
      /\ a[Len(seq) + 1] = v /\ \A j \in 1..Len(seq) : a[j] = seq[j] /\ seq[j] # v
  BY DEF Listed
<1>. HIDE DEF a
<1>2. NoRepeat(a)
  BY <1>1 DEF NoRepeat
<1>. QED  BY <1>2 DEF a

\* The rules are no part of what makes a configuration one that can be held.
LEMMA RulesSet ==
  ASSUME NEW c, InForce(c), NEW new \in Seq(RuleConfig),
         Tidy(c) => TidyRules(new)
  PROVE  /\ InForce([c EXCEPT !.rules = new])
         /\ Tidy(c) => Tidy([c EXCEPT !.rules = new])
BY DEF InForce, Config, Tidy, TidyRules

\* A valid setting keeps the configuration one that can be held.
LEMMA SetIs ==
  ASSUME NEW c, InForce(c), NEW req \in Request, Valid(req), req.op = "set"
  PROVE  InForce(Effect(req, c)) /\ (Tidy(c) => Tidy(Effect(req, c)))
<1>. DEFINE d == [c EXCEPT ![req.field] = req.value]
<1>1. Effect(req, c) = d
  BY DEF Effect
<1>2. /\ c.interval \in Nat /\ c.period \in Nat /\ c.grace \in Nat
      /\ c.interval >= MinInterval /\ c.period >= MinPeriod
      /\ c.servers \in Seq(Value) /\ c.server = Absent
      /\ c.blocked \in Value /\ c.blocked \notin Malformed /\ c.rules \in Seq(RuleConfig)
  BY DEF InForce, Config
<1>3. d.rules = c.rules /\ InForce(d)
  <2>1. CASE req.field = "interval"
    <3>1. req.value \in Nat /\ req.value >= MinInterval
      BY <2>1, DefaultAssumption DEF Request, Valid
    <3>2. d = [c EXCEPT !.interval = req.value]
      BY <2>1
    <3>. HIDE DEF d
    <3>. QED  BY <1>2, <3>1, <3>2 DEF InForce, Config
  <2>2. CASE req.field = "period"
    <3>1. req.value \in Nat /\ req.value >= MinPeriod
      BY <2>2, DefaultAssumption DEF Request, Valid
    <3>2. d = [c EXCEPT !.period = req.value]
      BY <2>2
    <3>. HIDE DEF d
    <3>. QED  BY <1>2, <3>1, <3>2 DEF InForce, Config
  <2>3. CASE req.field = "grace"
    <3>1. req.value \in Nat
      BY <2>3 DEF Request, Valid
    <3>2. d = [c EXCEPT !.grace = req.value]
      BY <2>3
    <3>. HIDE DEF d
    <3>. QED  BY <1>2, <3>1, <3>2 DEF InForce, Config
  <2>4. CASE req.field = "blocked"
    <3>1. req.value \in Value /\ req.value \notin Malformed
      BY <2>4 DEF Request, Valid
    <3>2. d = [c EXCEPT !.blocked = req.value]
      BY <2>4
    <3>. HIDE DEF d
    <3>. QED  BY <1>2, <3>1, <3>2 DEF InForce, Config
  <2>5. CASE req.field = "servers"
    <3>1. req.value \in Seq(Value)
      BY <2>5 DEF Request
    <3>2. d = [c EXCEPT !.servers = req.value]
      BY <2>5
    <3>. HIDE DEF d
    <3>. QED  BY <1>2, <3>1, <3>2 DEF InForce, Config
  <2>6. req.field \in {"interval", "period", "grace", "blocked", "servers"}
    BY DEF Request
  <2>. QED  BY <2>1, <2>2, <2>3, <2>4, <2>5, <2>6
<1>. HIDE DEF d
<1>4. Tidy(c) => Tidy(d)
  BY <1>3 DEF Tidy
<1>. QED  BY <1>1, <1>3, <1>4, Zenon

\* So does an addition that is not a duplicate.
LEMMA AddIs ==
  ASSUME NEW c, InForce(c), NEW req \in Request, Valid(req), req.op = "add", Accepts(req, c)
  PROVE  InForce(Effect(req, c)) /\ (Tidy(c) => Tidy(Effect(req, c)))
<1>. DEFINE rules == WithRule(c.rules, req.rule)
            at == RuleIndex(rules, req.rule)
            list == rules[at][req.field]
            new == [rules EXCEPT ![at][req.field] = Append(list, req.value)]
            d == [c EXCEPT !.rules = new]
<1>1. /\ req.rule \in Value /\ req.value \in Value /\ req.field \in {"fqdns", "providers"}
      /\ c.rules \in Seq(RuleConfig)
  BY DEF Request, InForce, Config
<1>2. Effect(req, c) = d
  BY DEF Effect
<1>3. ~(RuleIndex(c.rules, req.rule) # 0
        /\ Listed(c.rules[RuleIndex(c.rules, req.rule)][req.field], req.value))
  BY DEF Accepts
<1>4. /\ rules \in Seq(RuleConfig) /\ at \in 1..Len(rules)
      /\ \/ rules = c.rules /\ RuleIndex(c.rules, req.rule) = at
         \/ /\ RuleIndex(c.rules, req.rule) = 0
            /\ Len(rules) = Len(c.rules) + 1 /\ at = Len(rules)
            /\ \A i \in 1..Len(c.rules) : rules[i] = c.rules[i]
            /\ rules[at].fqdns = <<>> /\ rules[at].providers = <<>>
  BY <1>1, WithRuleIs
<1>5. list \in Seq(Value)
  <2>1. \A rule \in RuleConfig : \A field \in {"fqdns", "providers"} :
            rule[field] \in Seq(Value)
    BY DEF RuleConfig
  <2>. HIDE DEF at, rules
  <2>2. rules[at] \in RuleConfig
    BY <1>1, <1>4
  <2>. QED  BY <1>1, <2>1, <2>2
<1>6. ~Listed(list, req.value)
  <2>1. CASE rules = c.rules /\ RuleIndex(c.rules, req.rule) = at
    BY <1>3, <1>4, <2>1
  <2>2. CASE rules[at].fqdns = <<>> /\ rules[at].providers = <<>>
    BY <1>1, <2>2 DEF Listed
  <2>. QED  BY <1>4, <2>1, <2>2
<1>7. Tidy(c) => TidyRules(rules)
  <2>1. CASE rules = c.rules
    BY <2>1 DEF Tidy, TidyRules
  <2>2. CASE /\ Len(rules) = Len(c.rules) + 1 /\ at = Len(rules)
             /\ \A i \in 1..Len(c.rules) : rules[i] = c.rules[i]
             /\ rules[at].fqdns = <<>> /\ rules[at].providers = <<>>
    <3>1. NoRepeat(<<>>)
      BY DEF NoRepeat
    <3>2. DOMAIN rules = 1..(Len(c.rules) + 1) /\ DOMAIN c.rules = 1..Len(c.rules)
          /\ Len(c.rules) \in Nat
      BY <1>1, <1>4, <2>2
    <3>. HIDE DEF rules, at
    <3>. QED  BY <2>2, <3>1, <3>2 DEF Tidy, TidyRules
  <2>. QED  BY <1>4, <2>1, <2>2
<1>8. Tidy(c) => NoRepeat(list)
  <2>. HAVE Tidy(c)
  <2>1. at \in DOMAIN rules
    BY <1>4
  <2>. QED  BY <1>1, <1>7, <2>1 DEF TidyRules
<1>. HIDE DEF rules, at, list
<1>9. Append(list, req.value) \in Seq(Value)
      /\ (Tidy(c) => NoRepeat(Append(list, req.value)))
  BY <1>1, <1>5, <1>6, <1>8, AppendNew
<1>10. new \in Seq(RuleConfig) /\ (Tidy(c) => TidyRules(new))
  BY <1>1, <1>4, <1>7, <1>9, ListSet
<1>. HIDE DEF new
<1>11. InForce(d) /\ (Tidy(c) => Tidy(d))
  BY <1>10, RulesSet
<1>. HIDE DEF d
<1>. QED  BY <1>2, <1>11

\* So does a removal.
LEMMA RemoveIs ==
  ASSUME NEW c, InForce(c), NEW req \in Request, req.op = "remove", Accepts(req, c)
  PROVE  InForce(Effect(req, c)) /\ (Tidy(c) => Tidy(Effect(req, c)))
<1>. DEFINE at == RuleIndex(c.rules, req.rule)
            list == c.rules[at][req.field]
            new == [c.rules EXCEPT ![at][req.field] = Kept(list, req.value)]
            d == [c EXCEPT !.rules = new]
<1>1. /\ req.rule \in Value /\ req.value \in Value /\ req.field \in {"fqdns", "providers"}
      /\ c.rules \in Seq(RuleConfig)
  BY DEF Request, InForce, Config
<1>2. Effect(req, c) = d
  BY DEF Effect
<1>3. at # 0
  BY DEF Accepts
<1>4. at \in 1..Len(c.rules)
  BY <1>1, <1>3, RuleIndexIs
<1>5. list \in Seq(Value)
  <2>1. \A rule \in RuleConfig : \A field \in {"fqdns", "providers"} :
            rule[field] \in Seq(Value)
    BY DEF RuleConfig
  <2>. HIDE DEF at
  <2>2. c.rules[at] \in RuleConfig
    BY <1>1, <1>4
  <2>. QED  BY <1>1, <2>1, <2>2
<1>6. Tidy(c) => TidyRules(c.rules) /\ NoRepeat(list)
  BY <1>1, <1>4 DEF Tidy, TidyRules
<1>. HIDE DEF at, list
<1>7. Kept(list, req.value) \in Seq(Value) /\ (Tidy(c) => NoRepeat(Kept(list, req.value)))
  BY <1>5, <1>6, KeptIs
<1>8. new \in Seq(RuleConfig) /\ (Tidy(c) => TidyRules(new))
  BY <1>1, <1>4, <1>6, <1>7, ListSet
<1>. HIDE DEF new
<1>9. InForce(d) /\ (Tidy(c) => Tidy(d))
  BY <1>8, RulesSet
<1>. HIDE DEF d
<1>. QED  BY <1>2, <1>9

\* Any accepted request leaves a configuration that can be held, and a tidy one
\* tidy.
LEMMA EffectIs ==
  ASSUME NEW c, InForce(c), NEW req \in Request, Valid(req), Accepts(req, c)
  PROVE  InForce(Effect(req, c)) /\ (Tidy(c) => Tidy(Effect(req, c)))
<1>1. req.op \in {"set", "add", "remove"}
  BY DEF Request
<1>. QED  BY <1>1, SetIs, AddIs, RemoveIs

-------------------------------------------------------------------------------
(* The inductive invariant.                                                  *)

\* The steps of saveConfig before its rename, and after it.
Early == {"open", "write", "sync", "rename"}
Past == {"syncdir", "commit"}

\* The mutex: one goroutine at a time is between Lock and Unlock.
OneSaver ==
    \A v, w \in Saver : saving[v].step # "none" /\ saving[w].step # "none" => v = w

\* Who may be saving, and on behalf of what.
Serving ==
    /\ \A w \in Worker : job[w] # NoRequest => proc = "up" /\ Valid(job[w])
    /\ \A w \in Worker : saving[w].step # "none" => job[w] # NoRequest
    /\ saving[Boot].step # "none" <=> proc = "creating"

\* What is being saved: the request applied to what the store still holds, or
\* the default configuration of a directory that has none.
Copies ==
    /\ \A w \in Saver : saving[w].step # "none" => InForce(saving[w].next)
    /\ \A w \in Worker : saving[w].step \in Early =>
           Accepts(job[w], mem) /\ saving[w].next = Effect(job[w], mem)
    /\ proc = "creating" =>
           /\ saving[Boot].next = DefaultConfig
           /\ saving[Boot].step \in Early => path.data = Missing

\* How far the copy is on its way to the disk.
OnDisk ==
    /\ path.synced /\ path.data # Torn
    /\ durable.synced /\ durable.data # Torn
    /\ \A w \in Saver :
           /\ saving[w].step = "sync" => tmp = File(saving[w].next, FALSE)
           /\ saving[w].step = "rename" => tmp = File(saving[w].next, TRUE)
           /\ saving[w].step \in Past => path = File(saving[w].next, TRUE)

\* What the store holds while it serves.
Held ==
    proc = "up" =>
        /\ path.data # Missing
        /\ InForce(mem)
        /\ (\A w \in Worker : saving[w].step \notin Past) => mem = Loaded(path.data)

\* What is on the disk and not yet the store's.
Unconfirmed == {saving[w].next : w \in {v \in Worker : saving[v].step \in Past}}

\* What a start would find.
Found ==
    /\ Meaning(path) \in expected \cup Unconfirmed
    /\ Meaning(durable) \in expected \cup Unconfirmed

StoreInv == TypeOK /\ OneSaver /\ Serving /\ Copies /\ OnDisk /\ Held /\ Found

\* Nobody writes a file by hand that lists something twice in one rule;
\* LoadConfig would keep it.
HandTidy == \A raw \in HandWritten : Tidy(raw)

\* With such files, no list on the disk or in the store repeats anything.
TidyInv ==
    /\ path.data \in RawConfig => Tidy(path.data)
    /\ durable.data \in RawConfig => Tidy(durable.data)
    /\ \A w \in Saver : saving[w].step # "none" => Tidy(saving[w].next)
    /\ proc = "up" => Tidy(mem)

-------------------------------------------------------------------------------
(* One lemma per action.                                                     *)

\* A handler that is not saving.
LEMMA IdleIs == Idle \in [step : Step, next : Config] /\ Idle.step = "none"
BY DefaultInForce DEF Idle, Step, InForce

\* A step of saveConfig moves one saver and keeps its copy.
LEMMA GoToIs ==
  ASSUME TypeOK, NEW w \in Saver, NEW step \in Step, GoTo(w, step)
  PROVE  /\ saving' \in [Saver -> [step : Step, next : Config]]
         /\ saving'[w].step = step
         /\ \A v \in Saver : saving'[v].next = saving[v].next
         /\ \A v \in Saver : v # w => saving'[v] = saving[v]
BY DEF TypeOK, GoTo

\* A save begins with its copy at the first step.
LEMMA BegunIs ==
  ASSUME TypeOK, NEW w \in Saver, NEW c \in Config,
         saving' = [saving EXCEPT ![w] = Begun(c)]
  PROVE  /\ saving' \in [Saver -> [step : Step, next : Config]]
         /\ saving'[w].step = "open" /\ saving'[w].next = c
         /\ \A v \in Saver : v # w => saving'[v] = saving[v]
BY DEF TypeOK, Begun, Step

\* The end of a save, or a refusal, unlocks and answers one request.
LEMMA FinishIs ==
  ASSUME TypeOK, NEW w \in Saver, Finish(w)
  PROVE  /\ saving' \in [Saver -> [step : Step, next : Config]]
         /\ saving'[w].step = "none"
         /\ \A v \in Saver : v # w => saving'[v] = saving[v]
         /\ job' \in [Worker -> Requests \cup {NoRequest}]
         /\ \A v \in Worker : job'[v] = IF v = w THEN NoRequest ELSE job[v]
<1>1. /\ saving' = [saving EXCEPT ![w] = Idle]
      /\ job' = IF w = Boot THEN job ELSE [job EXCEPT ![w] = NoRequest]
  BY DEF Finish
<1>2. saving \in [Saver -> [step : Step, next : Config]]
      /\ job \in [Worker -> Requests \cup {NoRequest}]
  BY DEF TypeOK
<1>3. \A v \in Worker : job'[v] = IF v = w THEN NoRequest ELSE job[v]
  BY <1>1, <1>2, StoreAssumption
<1>. QED  BY <1>1, <1>2, <1>3, IdleIs

\* Whoever is saving is the only one, and what it is depends on the process.
LEMMA Alone ==
  ASSUME StoreInv, NEW w \in Saver, saving[w].step # "none"
  PROVE  /\ \A v \in Saver : v # w => saving[v].step = "none"
         /\ w # Boot => w \in Worker /\ proc = "up" /\ job[w] # NoRequest
         /\ w = Boot => /\ proc = "creating"
                        /\ \A v \in Worker : v # w /\ job[v] = NoRequest
         /\ InForce(saving[w].next)
<1>1. Saver = Worker \cup {Boot} /\ Boot \in Saver /\ Boot \notin Worker
  BY StoreAssumption DEF Saver
<1>2. w # Boot => w \in Worker /\ proc = "up" /\ job[w] # NoRequest
  BY <1>1 DEF StoreInv, Serving
<1>3. w = Boot => proc = "creating" /\ \A v \in Worker : job[v] = NoRequest
  BY <1>1 DEF StoreInv, Serving
<1>. QED  BY <1>1, <1>2, <1>3 DEF StoreInv, OneSaver, Copies

-------------------------------------------------------------------------------
\* The invariant holds of every disk the plugin may find.
LEMMA InitStore == Init => StoreInv
<1>. SUFFICES ASSUME Init
              PROVE  StoreInv
  OBVIOUS
<1>1. \A w \in Saver : saving[w] = Idle
  BY DEF Init
<1>2. path \in FileType /\ path.synced /\ path.data # Torn
      /\ (path.data = Missing \/ path.data \in HandWritten)
  <2>1. path = NoFile \/ \E raw \in HandWritten : path = File(raw, TRUE)
    BY DEF Init
  <2>2. CASE path = NoFile
    BY <2>2, StoreAssumption DEF NoFile, File, FileType
  <2>3. ASSUME NEW raw \in HandWritten, path = File(raw, TRUE)
        PROVE  path \in FileType /\ path.synced /\ path.data # Torn
               /\ path.data \in HandWritten
    BY <2>3, StoreAssumption DEF File, FileType
  <2>. QED  BY <2>1, <2>2, <2>3
<1>3. Meaning(path) \in Config
  BY <1>2, StoreAssumption, LoadedIs, DefaultInForce DEF Meaning, InForce
<1>4. TypeOK
  <2>1. tmp \in FileType
    BY DEF Init, NoFile, File, FileType
  <2>2. saving \in [Saver -> [step : Step, next : Config]]
    BY IdleIs DEF Init
  <2>. QED  BY <1>2, <1>3, <2>1, <2>2, DefaultInForce, StoreAssumption, ConfigIsRaw
            DEF Init, TypeOK, InForce
<1>5. OneSaver /\ OnDisk /\ Copies /\ Held
  <2>1. proc = "down" /\ durable = path
    BY DEF Init
  <2>2. \A w \in Saver : saving[w].step = "none"
    BY <1>1, IdleIs
  <2>3. OneSaver /\ Held
    BY <2>1, <2>2 DEF OneSaver, Held
  <2>4. Copies
    BY <2>1, <2>2 DEF Copies, Saver, Early
  <2>5. OnDisk
    BY <1>2, <2>1, <2>2 DEF OnDisk, Past
  <2>. QED  BY <2>3, <2>4, <2>5
<1>6. Serving
  BY <1>1, IdleIs DEF Init, Serving, Saver
<1>7. Found
  BY DEF Init, Found
<1>. QED  BY <1>4, <1>5, <1>6, <1>7 DEF StoreInv

\* LoadConfig: a first configuration is begun, or the file's is taken.
LEMMA StartStore ==
  ASSUME StoreInv, Start
  PROVE  StoreInv'
<1>1. /\ TypeOK /\ OneSaver /\ Serving /\ Copies /\ OnDisk /\ Held /\ Found
      /\ proc = "down"
      /\ UNCHANGED <<job, path, durable, tmp, faults, expected>>
  BY DEF StoreInv, Start, diskVars
<1>2. \A w \in Saver : saving[w].step = "none"
  BY <1>1 DEF Serving, Saver
<1>3. \A w \in Worker : job[w] = NoRequest
  BY <1>1 DEF Serving
<1>4. Unconfirmed = {}
  BY <1>2 DEF Unconfirmed, Past, Saver
<1>5. CASE path.data = Missing
  <2>1. /\ proc' = "creating" /\ mem' = mem
        /\ saving' = [saving EXCEPT ![Boot] = Begun(DefaultConfig)]
    BY <1>5 DEF Start
  <2>2. /\ saving' \in [Saver -> [step : Step, next : Config]]
        /\ saving'[Boot].step = "open" /\ saving'[Boot].next = DefaultConfig
        /\ \A v \in Saver : v # Boot => saving'[v] = saving[v]
    BY <1>1, <2>1, BegunIs, DefaultInForce DEF InForce, Saver
  <2>3. \A v \in Saver : v # Boot => saving'[v].step = "none"
    BY <1>2, <2>2
  <2>4. TypeOK'
    BY <1>1, <2>1, <2>2 DEF TypeOK
  <2>5. OneSaver'
    BY <2>3 DEF OneSaver
  <2>6. Serving'
    BY <1>1, <1>3, <2>1, <2>2, <2>3, StoreAssumption DEF Serving, Saver
  <2>7. Copies'
    BY <1>1, <1>5, <2>1, <2>2, <2>3, DefaultInForce, StoreAssumption DEF Copies, Saver, Early
  <2>8. OnDisk'
    BY <1>1, <2>2, <2>3 DEF OnDisk, Past
  <2>9. Held'
    BY <2>1 DEF Held
  <2>10. Unconfirmed' = {}
    BY <2>3, StoreAssumption DEF Unconfirmed, Past, Saver
  <2>11. Found'
    BY <1>1, <1>4, <2>10 DEF Found, Meaning
  <2>. QED  BY <2>4, <2>5, <2>6, <2>7, <2>8, <2>9, <2>11 DEF StoreInv
<1>6. CASE path.data # Missing
  <2>1. /\ proc' = "up" /\ mem' = Loaded(path.data) /\ saving' = saving
        /\ Loadable(path.data) /\ path.data # Torn
    BY <1>6 DEF Start
  <2>2. path.data \in RawConfig
    BY <1>1, <1>6, <2>1 DEF TypeOK, FileType
  <2>3. InForce(mem')
    BY <2>1, <2>2, LoadedIs DEF InForce
  <2>4. TypeOK'
    BY <1>1, <2>1, <2>3 DEF TypeOK, InForce
  <2>5. OneSaver' /\ Serving' /\ Copies' /\ OnDisk'
    BY <1>1, <1>2, <1>3, <2>1 DEF OneSaver, Serving, Copies, OnDisk, Saver, Early
  <2>6. Held'
    BY <1>1, <1>6, <2>1, <2>3 DEF Held
  <2>7. Found'
    BY <1>1, <2>1 DEF Found, Meaning, Unconfirmed
  <2>. QED  BY <2>4, <2>5, <2>6, <2>7 DEF StoreInv
<1>. QED  BY <1>5, <1>6

\* A handler takes a valid request; nothing else moves.
LEMMA AskStore ==
  ASSUME StoreInv, NEW w \in Worker, NEW req \in Requests, Ask(w, req)
  PROVE  StoreInv'
<1>1. /\ TypeOK /\ OneSaver /\ Serving /\ Copies /\ OnDisk /\ Held /\ Found
      /\ proc = "up" /\ job[w] = NoRequest /\ Valid(req)
      /\ job' = [job EXCEPT ![w] = req]
      /\ UNCHANGED <<proc, mem, saving, path, durable, tmp, faults, expected>>
  BY DEF StoreInv, Ask, diskVars
<1>2. saving[w].step = "none"
  BY <1>1 DEF Serving
<1>3. job \in [Worker -> Requests \cup {NoRequest}]
  BY <1>1 DEF TypeOK
<1>4. \A v \in Worker : job'[v] = IF v = w THEN req ELSE job[v]
  BY <1>1, <1>3
<1>5. TypeOK'
  BY <1>1, <1>3 DEF TypeOK
<1>6. Serving'
  BY <1>1, <1>4, StoreAssumption DEF Serving
<1>7. Copies'
  BY <1>1, <1>2, <1>4 DEF Copies, Early
<1>8. OneSaver' /\ OnDisk' /\ Held'
  BY <1>1 DEF OneSaver, OnDisk, Held
<1>9. Found'
  BY <1>1 DEF Found, Meaning, Unconfirmed
<1>. QED  BY <1>5, <1>6, <1>7, <1>8, <1>9 DEF StoreInv

\* Under the lock a copy is changed, or the request is refused.
LEMMA ChangeStore ==
  ASSUME StoreInv, NEW w \in Worker, Change(w)
  PROVE  StoreInv'
<1>1. /\ TypeOK /\ OneSaver /\ Serving /\ Copies /\ OnDisk /\ Held /\ Found
      /\ job[w] # NoRequest
      /\ UNCHANGED <<proc, mem, path, durable, tmp, faults, expected>>
  BY DEF StoreInv, Change, diskVars
<1>2. \A v \in Saver : saving[v].step = "none"
  BY DEF Change, LockFree
<1>3. w \in Saver /\ w # Boot /\ Worker \subseteq Saver /\ Boot \in Saver
  BY StoreAssumption DEF Saver
<1>4. proc = "up" /\ Valid(job[w])
  BY <1>1 DEF Serving
<1>5. Unconfirmed = {}
  BY <1>2, <1>3 DEF Unconfirmed, Past
<1>6. CASE Accepts(job[w], mem)
  <2>. DEFINE c == Effect(job[w], mem)
  <2>1. job' = job /\ saving' = [saving EXCEPT ![w] = Begun(c)]
    BY <1>6 DEF Change
  <2>2. InForce(c)
    <3>1. job[w] \in Request
      BY <1>1, StoreAssumption DEF TypeOK
    <3>2. InForce(mem)
      BY <1>1, <1>4 DEF Held
    <3>. QED  BY <1>4, <1>6, <3>1, <3>2, EffectIs
  <2>. HIDE DEF c
  <2>3. /\ saving' \in [Saver -> [step : Step, next : Config]]
        /\ saving'[w].step = "open" /\ saving'[w].next = c
        /\ \A v \in Saver : v # w => saving'[v] = saving[v]
    BY <1>1, <1>3, <2>1, <2>2, BegunIs DEF InForce
  <2>4. \A v \in Saver : v # w => saving'[v].step = "none"
    BY <1>2, <2>3
  <2>5. TypeOK'
    BY <1>1, <2>1, <2>3 DEF TypeOK
  <2>6. OneSaver'
    BY <2>4 DEF OneSaver
  <2>7. Serving'
    BY <1>1, <1>3, <1>4, <2>1, <2>4 DEF Serving
  <2>8. Copies'
    BY <1>1, <1>3, <1>4, <1>6, <2>1, <2>2, <2>3, <2>4 DEF Copies, Early, c
  <2>9. OnDisk'
    BY <1>1, <2>3, <2>4 DEF OnDisk, Past
  <2>10. Held'
    BY <1>1, <1>2, <1>3 DEF Held, Past
  <2>11. Unconfirmed' = {}
    BY <1>3, <2>3, <2>4 DEF Unconfirmed, Past
  <2>12. Found'
    BY <1>1, <1>5, <2>11 DEF Found, Meaning
  <2>. QED  BY <2>5, <2>6, <2>7, <2>8, <2>9, <2>10, <2>12 DEF StoreInv
<1>7. CASE ~Accepts(job[w], mem)
  <2>1. Finish(w)
    BY <1>7 DEF Change
  <2>2. /\ saving' \in [Saver -> [step : Step, next : Config]]
        /\ saving'[w].step = "none"
        /\ \A v \in Saver : v # w => saving'[v] = saving[v]
        /\ job' \in [Worker -> Requests \cup {NoRequest}]
        /\ \A v \in Worker : job'[v] = IF v = w THEN NoRequest ELSE job[v]
    BY <1>1, <1>3, <2>1, FinishIs
  <2>3. \A v \in Saver : saving'[v].step = "none"
    BY <1>2, <2>2
  <2>4. TypeOK'
    BY <1>1, <2>2 DEF TypeOK
  <2>5. OneSaver' /\ Serving' /\ Copies' /\ OnDisk'
    <3>1. OneSaver'
      BY <2>3 DEF OneSaver
    <3>2. Serving'
      BY <1>1, <1>3, <1>4, <2>2, <2>3 DEF Serving
    <3>3. Copies'
      BY <1>1, <1>3, <1>4, <2>3 DEF Copies, Early
    <3>4. OnDisk'
      BY <1>1, <2>3 DEF OnDisk, Past
    <3>. QED  BY <3>1, <3>2, <3>3, <3>4
  <2>6. Held'
    BY <1>1, <1>2, <1>3 DEF Held, Past
  <2>7. Unconfirmed' = {}
    BY <1>3, <2>3 DEF Unconfirmed, Past
  <2>8. Found'
    BY <1>1, <1>5, <2>7 DEF Found, Meaning
  <2>. QED  BY <2>4, <2>5, <2>6, <2>8 DEF StoreInv
<1>. QED  BY <1>6, <1>7

\* The steps that only write the temporary file.
LEMMA TmpStore ==
  ASSUME StoreInv, NEW w \in Saver, NEW step \in Early,
         saving[w].step \in Early, GoTo(w, step), tmp' \in FileType,
         step = "sync" => tmp' = File(saving[w].next, FALSE),
         step = "rename" => tmp' = File(saving[w].next, TRUE),
         UNCHANGED <<proc, mem, job, path, durable, faults, expected>>
  PROVE  StoreInv'
<1>1. TypeOK /\ OneSaver /\ Serving /\ Copies /\ OnDisk /\ Held /\ Found
  BY DEF StoreInv
<1>2. /\ \A v \in Saver : v # w => saving[v].step = "none"
      /\ w # Boot => w \in Worker /\ proc = "up" /\ job[w] # NoRequest
      /\ w = Boot => proc = "creating"
      /\ InForce(saving[w].next)
  BY Alone DEF Early
<1>3. /\ saving' \in [Saver -> [step : Step, next : Config]]
      /\ saving'[w].step = step
      /\ \A v \in Saver : saving'[v].next = saving[v].next
      /\ \A v \in Saver : v # w => saving'[v] = saving[v]
  BY <1>1, GoToIs DEF Early, Step
<1>4. \A v \in Saver : v # w => saving'[v].step = "none"
  BY <1>2, <1>3
<1>5. Worker \subseteq Saver /\ Boot \in Saver /\ Boot \notin Worker
  BY StoreAssumption DEF Saver
<1>6. TypeOK'
  BY <1>1, <1>3 DEF TypeOK
<1>7. OneSaver'
  BY <1>4 DEF OneSaver
<1>8. Serving'
  BY <1>1, <1>2, <1>3, <1>4, <1>5 DEF Serving, Early
<1>9. Copies'
  BY <1>1, <1>2, <1>3, <1>4, <1>5 DEF Copies, Early
<1>10. OnDisk'
  BY <1>1, <1>3, <1>4 DEF OnDisk, Past, Early
<1>11. \A v \in Worker : saving[v].step \notin Past /\ saving'[v].step \notin Past
  BY <1>2, <1>3, <1>4, <1>5 DEF Past, Early
<1>12. Held'
  BY <1>1, <1>11 DEF Held
<1>13. Unconfirmed = {} /\ Unconfirmed' = {}
  BY <1>11 DEF Unconfirmed
<1>14. Found'
  BY <1>1, <1>13 DEF Found, Meaning
<1>. QED  BY <1>6, <1>7, <1>8, <1>9, <1>10, <1>12, <1>14 DEF StoreInv

\* The temporary file is opened: nothing of it can be relied on.
LEMMA OpenStore ==
  ASSUME StoreInv, NEW w \in Saver, OpenTmp(w)
  PROVE  StoreInv'
<1>1. File(Torn, FALSE) \in FileType
  BY DEF File, FileType
<1>. QED  BY <1>1, TmpStore DEF OpenTmp, At, Early

\* It holds the copy, unsynced.
LEMMA WriteStore ==
  ASSUME StoreInv, NEW w \in Saver, WriteTmp(w)
  PROVE  StoreInv'
<1>1. File(saving[w].next, FALSE) \in FileType
  BY ConfigIsRaw DEF StoreInv, TypeOK, File, FileType
<1>. QED  BY <1>1, TmpStore DEF WriteTmp, At, Early

\* It holds the copy, synced.
LEMMA SyncStore ==
  ASSUME StoreInv, NEW w \in Saver, SyncTmp(w)
  PROVE  StoreInv'
<1>1. tmp = File(saving[w].next, FALSE) /\ tmp' = [tmp EXCEPT !.synced = TRUE]
  BY DEF StoreInv, OnDisk, SyncTmp, At
<1>2. tmp' = File(saving[w].next, TRUE)
  BY <1>1 DEF File
<1>3. File(saving[w].next, TRUE) \in FileType
  BY ConfigIsRaw DEF StoreInv, TypeOK, File, FileType
<1>. QED  BY <1>2, <1>3, TmpStore DEF SyncTmp, At, Early

\* The copy becomes config.json, whole and synced.
LEMMA RenameStore ==
  ASSUME StoreInv, NEW w \in Saver, RenameTmp(w)
  PROVE  StoreInv'
<1>1. /\ TypeOK /\ OneSaver /\ Serving /\ Copies /\ OnDisk /\ Held /\ Found
      /\ saving[w].step = "rename" /\ GoTo(w, "syncdir") /\ path' = tmp /\ tmp' = NoFile
      /\ UNCHANGED <<proc, mem, job, durable, faults, expected>>
  BY DEF StoreInv, RenameTmp, At
<1>2. /\ \A v \in Saver : v # w => saving[v].step = "none"
      /\ w # Boot => w \in Worker /\ proc = "up" /\ job[w] # NoRequest
      /\ w = Boot => proc = "creating"
      /\ InForce(saving[w].next)
  BY <1>1, Alone
<1>3. /\ saving' \in [Saver -> [step : Step, next : Config]]
      /\ saving'[w].step = "syncdir"
      /\ \A v \in Saver : saving'[v].next = saving[v].next
      /\ \A v \in Saver : v # w => saving'[v] = saving[v]
  BY <1>1, GoToIs DEF Step
<1>4. \A v \in Saver : v # w => saving'[v].step = "none"
  BY <1>2, <1>3
<1>5. Worker \subseteq Saver /\ Boot \in Saver /\ Boot \notin Worker
  BY StoreAssumption DEF Saver
<1>6. path' = File(saving[w].next, TRUE) /\ saving[w].next \in Config
  BY <1>1, <1>2 DEF OnDisk, InForce
<1>7. /\ path' \in FileType /\ path'.synced /\ path'.data = saving[w].next
      /\ path'.data # Torn /\ path'.data # Missing
  BY <1>6, ConfigIsRaw, StoreAssumption DEF File, FileType
<1>8. TypeOK'
  <2>1. tmp' \in FileType
    BY <1>1 DEF NoFile, File, FileType
  <2>. QED  BY <1>1, <1>3, <1>7, <2>1 DEF TypeOK
<1>9. OneSaver'
  BY <1>4 DEF OneSaver
<1>10. Serving'
  BY <1>1, <1>2, <1>3, <1>4, <1>5 DEF Serving
<1>11. Copies'
  BY <1>1, <1>2, <1>3, <1>4, <1>5 DEF Copies, Early
<1>12. OnDisk'
  BY <1>1, <1>3, <1>4, <1>6, <1>7 DEF OnDisk, Past
<1>13. Held'
  BY <1>1, <1>2, <1>3, <1>7 DEF Held, Past
<1>14. Meaning(path') = saving[w].next
  BY <1>2, <1>7, LoadedAgain DEF Meaning
<1>15. Unconfirmed = {}
  BY <1>1, <1>2, <1>5 DEF Unconfirmed, Past
<1>16. Meaning(path') \in expected \cup Unconfirmed'
  <2>1. CASE w = Boot
    <3>1. saving[w].next = DefaultConfig /\ path.data = Missing
      BY <1>1, <1>2, <2>1 DEF Copies, Early
    <3>. QED  BY <1>1, <1>14, <1>15, <3>1 DEF Found, Meaning
  <2>2. CASE w # Boot
    BY <1>2, <1>3, <1>14, <2>2 DEF Unconfirmed, Past
  <2>. QED  BY <2>1, <2>2
<1>17. Found'
  BY <1>1, <1>15, <1>16 DEF Found, Meaning
<1>. QED  BY <1>8, <1>9, <1>10, <1>11, <1>12, <1>13, <1>17 DEF StoreInv

\* The rename is settled, or stays at the mercy of the power.
LEMMA SyncDirStore ==
  ASSUME StoreInv, NEW w \in Saver, SyncDir(w)
  PROVE  StoreInv'
<1>1. /\ TypeOK /\ OneSaver /\ Serving /\ Copies /\ OnDisk /\ Held /\ Found
      /\ saving[w].step = "syncdir" /\ GoTo(w, "commit")
      /\ \/ durable' = path /\ faults' = faults
         \/ durable' = durable /\ Fault
      /\ UNCHANGED <<proc, mem, job, path, tmp, expected>>
  BY DEF StoreInv, SyncDir, At
<1>2. /\ \A v \in Saver : v # w => saving[v].step = "none"
      /\ w # Boot => w \in Worker /\ proc = "up" /\ job[w] # NoRequest
      /\ w = Boot => proc = "creating"
      /\ InForce(saving[w].next)
  BY <1>1, Alone
<1>3. /\ saving' \in [Saver -> [step : Step, next : Config]]
      /\ saving'[w].step = "commit"
      /\ \A v \in Saver : saving'[v].next = saving[v].next
      /\ \A v \in Saver : v # w => saving'[v] = saving[v]
  BY <1>1, GoToIs DEF Step
<1>4. \A v \in Saver : v # w => saving'[v].step = "none"
  BY <1>2, <1>3
<1>5. Worker \subseteq Saver /\ Boot \in Saver /\ Boot \notin Worker
  BY StoreAssumption DEF Saver
<1>6. TypeOK'
  <2>1. faults' \in 0..MaxFaults /\ durable' \in FileType
    BY <1>1, StoreAssumption DEF TypeOK, Fault
  <2>. QED  BY <1>1, <1>3, <2>1 DEF TypeOK
<1>7. OneSaver'
  BY <1>4 DEF OneSaver
<1>8. Serving'
  BY <1>1, <1>2, <1>3, <1>4, <1>5 DEF Serving
<1>9. Copies'
  BY <1>1, <1>2, <1>3, <1>4, <1>5 DEF Copies, Early
<1>10. OnDisk'
  BY <1>1, <1>3, <1>4 DEF OnDisk, Past
<1>11. \A v \in Worker : saving'[v].step \in Past <=> saving[v].step \in Past
  BY <1>1, <1>3, <1>5 DEF Past
<1>12. Held'
  BY <1>1, <1>11 DEF Held
<1>13. Unconfirmed' = Unconfirmed
  BY <1>3, <1>5, <1>11 DEF Unconfirmed
<1>14. Found'
  BY <1>1, <1>13 DEF Found, Meaning
<1>. QED  BY <1>6, <1>7, <1>8, <1>9, <1>10, <1>12, <1>14 DEF StoreInv

\* The copy becomes the store's, and is what a start finds.
LEMMA CommitStore ==
  ASSUME StoreInv, NEW w \in Saver, Commit(w)
  PROVE  StoreInv'
<1>1. /\ TypeOK /\ OneSaver /\ Serving /\ Copies /\ OnDisk /\ Held /\ Found
      /\ saving[w].step = "commit" /\ Finish(w)
      /\ mem' = saving[w].next /\ proc' = "up"
      /\ expected' = {saving[w].next} \cup (IF durable = path THEN {} ELSE expected)
      /\ UNCHANGED <<path, durable, tmp, faults>>
  BY DEF StoreInv, Commit, At, diskVars
<1>2. /\ \A v \in Saver : v # w => saving[v].step = "none"
      /\ w # Boot => w \in Worker /\ proc = "up" /\ job[w] # NoRequest
      /\ w = Boot => proc = "creating" /\ \A v \in Worker : job[v] = NoRequest
      /\ InForce(saving[w].next)
  BY <1>1, Alone
<1>3. /\ saving' \in [Saver -> [step : Step, next : Config]]
      /\ saving'[w].step = "none"
      /\ \A v \in Saver : v # w => saving'[v] = saving[v]
      /\ job' \in [Worker -> Requests \cup {NoRequest}]
      /\ \A v \in Worker : job'[v] = IF v = w THEN NoRequest ELSE job[v]
  BY <1>1, FinishIs
<1>4. \A v \in Saver : saving'[v].step = "none"
  BY <1>2, <1>3
<1>5. Worker \subseteq Saver /\ Boot \in Saver /\ Boot \notin Worker
  BY StoreAssumption DEF Saver
<1>6. path = File(saving[w].next, TRUE) /\ saving[w].next \in Config
  BY <1>1, <1>2 DEF OnDisk, InForce, Past
<1>7. path.data = saving[w].next /\ path.data # Missing /\ path.data # Torn
  BY <1>6, ConfigIsRaw, StoreAssumption DEF File
<1>8. Loaded(path.data) = saving[w].next /\ Meaning(path) = saving[w].next
  BY <1>2, <1>7, LoadedAgain DEF Meaning
<1>9. TypeOK'
  <2>1. \A c \in expected' : c \in RawConfig
    BY <1>1, <1>6, ConfigIsRaw DEF TypeOK
  <2>. QED  BY <1>1, <1>3, <1>6, <2>1 DEF TypeOK
<1>10. OneSaver'
  BY <1>4 DEF OneSaver
<1>11. Serving'
  BY <1>1, <1>3, <1>4, <1>5 DEF Serving
<1>12. Copies'
  BY <1>1, <1>4, <1>5 DEF Copies, Early
<1>13. OnDisk'
  BY <1>1, <1>4 DEF OnDisk, Past
<1>14. Held'
  BY <1>1, <1>2, <1>7, <1>8 DEF Held
<1>15. Unconfirmed \subseteq {saving[w].next}
  BY <1>2, <1>5 DEF Unconfirmed, Past
<1>16. Meaning(path) \in expected' /\ Meaning(durable) \in expected'
  BY <1>1, <1>8, <1>15 DEF Found
<1>17. Found'
  BY <1>1, <1>16 DEF Found, Meaning
<1>. QED  BY <1>9, <1>10, <1>11, <1>12, <1>13, <1>14, <1>17 DEF StoreInv

\* A failed save leaves file and store as they were.
LEMMA FailStore ==
  ASSUME StoreInv, NEW w \in Saver, SaveFails(w)
  PROVE  StoreInv'
<1>1. /\ TypeOK /\ OneSaver /\ Serving /\ Copies /\ OnDisk /\ Held /\ Found
      /\ saving[w].step \in Early /\ Finish(w) /\ Fault
      /\ tmp' = tmp \/ tmp' = NoFile
      /\ proc' = IF w = Boot THEN "down" ELSE proc
      /\ UNCHANGED <<mem, path, durable, expected>>
  BY DEF StoreInv, SaveFails, Early, At
<1>2. /\ \A v \in Saver : v # w => saving[v].step = "none"
      /\ w # Boot => w \in Worker /\ proc = "up" /\ job[w] # NoRequest
      /\ w = Boot => proc = "creating" /\ \A v \in Worker : job[v] = NoRequest
  BY <1>1, Alone DEF Early
<1>3. /\ saving' \in [Saver -> [step : Step, next : Config]]
      /\ saving'[w].step = "none"
      /\ \A v \in Saver : v # w => saving'[v] = saving[v]
      /\ job' \in [Worker -> Requests \cup {NoRequest}]
      /\ \A v \in Worker : job'[v] = IF v = w THEN NoRequest ELSE job[v]
  BY <1>1, FinishIs
<1>4. \A v \in Saver : saving'[v].step = "none"
  BY <1>2, <1>3
<1>5. Worker \subseteq Saver /\ Boot \in Saver /\ Boot \notin Worker
  BY StoreAssumption DEF Saver
<1>6. TypeOK'
  <2>1. tmp' \in FileType /\ faults' \in 0..MaxFaults
    <3>1. faults' \in 0..MaxFaults
      BY <1>1, StoreAssumption DEF TypeOK, Fault
    <3>2. NoFile \in FileType
      BY DEF NoFile, File, FileType
    <3>. QED  BY <1>1, <3>1, <3>2 DEF TypeOK
  <2>2. proc' \in {"down", "creating", "up"}
    BY <1>1 DEF TypeOK
  <2>. QED  BY <1>1, <1>3, <2>1, <2>2 DEF TypeOK
<1>7. OneSaver'
  BY <1>4 DEF OneSaver
<1>8. Serving'
  <2>1. proc' # "creating"
    BY <1>1, <1>2
  <2>2. \A v \in Worker : job'[v] # NoRequest => proc' = "up" /\ Valid(job'[v])
    BY <1>1, <1>2, <1>3 DEF Serving
  <2>. QED  BY <1>4, <1>5, <2>1, <2>2 DEF Serving
<1>9. Copies'
  BY <1>1, <1>2, <1>4, <1>5 DEF Copies, Early
<1>10. OnDisk'
  BY <1>1, <1>4 DEF OnDisk, Past
<1>11. \A v \in Worker : saving[v].step \notin Past
  BY <1>1, <1>2, <1>5 DEF Past, Early
<1>12. Held'
  BY <1>1, <1>2, <1>11 DEF Held
<1>13. Unconfirmed = {} /\ Unconfirmed' = {}
  BY <1>4, <1>5, <1>11 DEF Unconfirmed, Past
<1>14. Found'
  BY <1>1, <1>13 DEF Found, Meaning
<1>. QED  BY <1>6, <1>7, <1>8, <1>9, <1>10, <1>12, <1>14 DEF StoreInv

\* The process ends, by a signal or with the machine: nobody is saving, and a
\* file whose rename was made may be the one the next start finds.
LEMMA GoneStore ==
  ASSUME StoreInv, Gone, path' \in {path, durable},
         durable' = durable \/ durable' = path', tmp' \in FileType,
         UNCHANGED faults
  PROVE  StoreInv'
<1>1. /\ TypeOK /\ OneSaver /\ Serving /\ Copies /\ OnDisk /\ Held /\ Found
      /\ proc' = "down" /\ mem' = DefaultConfig
      /\ job' = [w \in Worker |-> NoRequest]
      /\ saving' = [w \in Saver |-> Idle]
      /\ expected' = expected \cup Unconfirmed
  BY DEF StoreInv, Gone, Unconfirmed, Past
<1>2. /\ saving' \in [Saver -> [step : Step, next : Config]]
      /\ \A w \in Saver : saving'[w].step = "none"
  BY <1>1, IdleIs
<1>3. Worker \subseteq Saver /\ Boot \in Saver
  BY DEF Saver
<1>4. TypeOK'
  <2>1. \A c \in expected' : c \in RawConfig
    BY <1>1, <1>3, ConfigIsRaw DEF TypeOK, Unconfirmed
  <2>2. path' \in FileType /\ durable' \in FileType
    BY <1>1 DEF TypeOK
  <2>3. mem' \in Config
    BY <1>1, DefaultInForce DEF InForce
  <2>. QED  BY <1>1, <1>2, <2>1, <2>2, <2>3 DEF TypeOK
<1>5. OneSaver' /\ Held'
  BY <1>1, <1>2 DEF OneSaver, Held
<1>6. Serving'
  BY <1>1, <1>2, <1>3 DEF Serving
<1>7. Copies'
  BY <1>1, <1>2, <1>3 DEF Copies, Early
<1>8. OnDisk'
  BY <1>1, <1>2 DEF OnDisk, Past
<1>9. Found'
  BY <1>1 DEF Found, Meaning
<1>. QED  BY <1>4, <1>5, <1>6, <1>7, <1>8, <1>9 DEF StoreInv

\* A killed process leaves the disk as it was.
LEMMA KillStore ==
  ASSUME StoreInv, Kill
  PROVE  StoreInv'
BY GoneStore DEF Kill, diskVars, StoreInv, TypeOK

\* So does a power failure, or it undoes the last unsettled rename.
LEMMA PowerStore ==
  ASSUME StoreInv, PowerFailure
  PROVE  StoreInv'
<1>1. Survivor(path) = path /\ Survivor(durable) = durable
  BY DEF StoreInv, OnDisk, Survivor
<1>2. Survivor(tmp) \in FileType /\ NoFile \in FileType
  BY DEF StoreInv, TypeOK, Survivor, NoFile, File, FileType
<1>3. /\ path' = path \/ path' = durable
      /\ durable' = path' /\ faults' = faults /\ tmp' \in FileType /\ Gone
  BY <1>1, <1>2 DEF PowerFailure
<1>. QED  BY <1>3, GoneStore

\* A file replaced by hand is all a start may find.
LEMMA EditStore ==
  ASSUME StoreInv, NEW raw \in HandWritten, EditByHand(raw)
  PROVE  StoreInv'
<1>1. /\ TypeOK /\ OneSaver /\ Serving /\ Copies /\ OnDisk /\ Held /\ Found
      /\ proc = "down" /\ path' = File(raw, TRUE) /\ durable' = path'
      /\ expected' = {Loaded(raw)}
      /\ UNCHANGED <<proc, mem, job, saving, tmp, faults>>
  BY DEF StoreInv, EditByHand
<1>2. \A w \in Saver : saving[w].step = "none"
  BY <1>1 DEF Serving, Saver
<1>3. /\ raw \in RawConfig /\ path' \in FileType
      /\ path'.synced /\ path'.data = raw /\ raw # Torn /\ raw # Missing
  BY <1>1, StoreAssumption DEF File, FileType
<1>4. TypeOK'
  BY <1>1, <1>3, LoadedIs, ConfigIsRaw DEF TypeOK
<1>5. OneSaver' /\ Serving' /\ Held'
  BY <1>1 DEF OneSaver, Serving, Held
<1>6. Copies' /\ OnDisk'
  BY <1>1, <1>2, <1>3, StoreAssumption DEF Copies, OnDisk, Early, Past, Saver
<1>7. Found'
  BY <1>1, <1>3 DEF Found, Meaning
<1>. QED  BY <1>4, <1>5, <1>6, <1>7 DEF StoreInv

\* A step that changes nothing.
LEMMA StutterStore ==
  ASSUME StoreInv, UNCHANGED vars
  PROVE  StoreInv'
BY DEF StoreInv, vars, diskVars, TypeOK, OneSaver, Serving, Copies, OnDisk, Held,
       Found, Meaning, Unconfirmed

\* Every step keeps the invariant.
LEMMA NextStore == StoreInv /\ [Next]_vars => StoreInv'
<1>. SUFFICES ASSUME StoreInv, [Next]_vars
              PROVE  StoreInv'
  OBVIOUS
<1>1. ASSUME NEW w \in Saver, SaveStep(w)
      PROVE  StoreInv'
  BY <1>1, OpenStore, WriteStore, SyncStore, RenameStore, SyncDirStore, CommitStore,
     FailStore DEF SaveStep
<1>. QED  BY <1>1, StartStore, AskStore, ChangeStore, KillStore, PowerStore, EditStore,
             StutterStore DEF Next

\* The invariant holds in every state: one saver at a time, its copy made from
\* what the store still holds, and the disk at the step it is said to be at.
THEOREM StoreSound == Spec => []StoreInv
BY InitStore, NextStore, PTL DEF Spec

\* Every variable has its type; what is loaded is a configuration with every key.
THEOREM TypeCorrect == Spec => []TypeOK
<1>1. StoreInv => TypeOK
  BY DEF StoreInv
<1>. QED  BY <1>1, StoreSound, PTL

\* config.json is never a part of a file, now or after a power failure, and never
\* missing while the plugin runs.
THEOREM DiskAlwaysWhole == Spec => []DiskWhole
<1>1. StoreInv => DiskWhole
  BY DEF StoreInv, OnDisk, Held, DiskWhole, Survivor
<1>. QED  BY <1>1, StoreSound, PTL

\* While nobody is saving, the store holds what a restart would load, whichever
\* steps of whichever saves failed.
THEOREM MemoryFollowsFile == Spec => []MemoryIsFile
<1>1. StoreInv => MemoryIsFile
  BY DEF StoreInv, Held, MemoryIsFile, LockFree, Past, Saver
<1>. QED  BY <1>1, StoreSound, PTL

\* A start takes up the last confirmed change, or one the process died over after
\* its rename; an earlier one only if syncing the directory failed.
THEOREM ConfirmedIsKept == Spec => ConfirmedKept
<1>1. StoreInv /\ [Next]_vars => [proc # "up" /\ proc' = "up" => mem' \in expected]_vars
  <2>. SUFFICES ASSUME StoreInv, Next, proc # "up", proc' = "up"
                PROVE  mem' \in expected
    BY DEF vars, diskVars
  <2>1. Found /\ OnDisk /\ Copies /\ Serving
    BY DEF StoreInv
  <2>2. \A v \in Worker : saving[v].step = "none"
    BY <2>1 DEF Serving
  <2>3. Unconfirmed = {}
    BY <2>2 DEF Unconfirmed, Past
  <2>4. Meaning(path) \in expected
    BY <2>1, <2>3 DEF Found
  <2>5. CASE Start
    <3>1. path.data # Missing /\ path.data # Torn /\ mem' = Loaded(path.data)
      BY <2>5 DEF Start
    <3>. QED  BY <2>4, <3>1 DEF Meaning
  <2>6. ASSUME NEW w \in Saver, SaveStep(w)
        PROVE  mem' \in expected
    <3>1. proc' = proc \/ Commit(w) \/ proc' = "down"
      BY <2>6 DEF SaveStep, OpenTmp, WriteTmp, SyncTmp, RenameTmp, SyncDir, SaveFails
    <3>2. Commit(w)
      BY <3>1
    <3>3. saving[w].step = "commit" /\ mem' = saving[w].next
      BY <3>2 DEF Commit, At
    <3>4. InForce(saving[w].next) /\ path = File(saving[w].next, TRUE)
      BY <2>1, <3>3 DEF OnDisk, Copies, Past
    <3>5. path.data = saving[w].next /\ path.data # Missing /\ path.data # Torn
      BY <3>4, ConfigIsRaw, StoreAssumption DEF File, InForce
    <3>6. Meaning(path) = saving[w].next
      BY <3>4, <3>5, LoadedAgain DEF Meaning
    <3>. QED  BY <2>4, <3>3, <3>6
  <2>7. ASSUME NEW w \in Worker, (\E req \in Requests : Ask(w, req)) \/ Change(w)
        PROVE  FALSE
    BY <2>7 DEF Ask, Change
  <2>8. CASE Kill \/ PowerFailure
    BY <2>8 DEF Kill, PowerFailure, Gone
  <2>9. ASSUME NEW raw \in HandWritten, EditByHand(raw)
        PROVE  FALSE
    BY <2>9 DEF EditByHand
  <2>. QED  BY <2>5, <2>6, <2>7, <2>8, <2>9 DEF Next
<1>. QED  BY <1>1, StoreSound, PTL DEF Spec, ConfirmedKept

-------------------------------------------------------------------------------
(* Usable configurations.                                                    *)

\* Lists repeat nothing at first.
LEMMA InitTidy == HandTidy /\ Init => TidyInv
<1>. SUFFICES ASSUME HandTidy, Init
              PROVE  TidyInv
  OBVIOUS
<1>1. \A w \in Saver : saving[w].step = "none"
  BY IdleIs DEF Init
<1>2. path.data = Missing \/ path.data \in HandWritten
  BY DEF Init, NoFile, File
<1>. QED  BY <1>1, <1>2, StoreAssumption DEF Init, HandTidy, TidyInv

\* No step makes one repeat anything.
LEMMA NextTidy == HandTidy /\ StoreInv /\ TidyInv /\ [Next]_vars => TidyInv'
<1>. SUFFICES ASSUME HandTidy, StoreInv, TidyInv, [Next]_vars
              PROVE  TidyInv'
  OBVIOUS
<1>1. TypeOK /\ Serving /\ Copies /\ OnDisk /\ Held
  BY DEF StoreInv
<1>2. CASE Start
  <2>1. CASE path.data = Missing
    <3>1. proc' = "creating" /\ saving' = [saving EXCEPT ![Boot] = Begun(DefaultConfig)]
      BY <1>2, <2>1 DEF Start
    <3>2. \A v \in Saver : saving'[v].step # "none" =>
              saving'[v].next = DefaultConfig \/ saving'[v] = saving[v]
      BY <1>1, <3>1, BegunIs, DefaultInForce DEF InForce, Saver
    <3>. QED  BY <1>2, <3>1, <3>2, DefaultInForce DEF Start, diskVars, TidyInv
  <2>2. CASE path.data # Missing
    <3>1. mem' = Loaded(path.data) /\ path.data # Torn /\ saving' = saving
      BY <1>2, <2>2 DEF Start
    <3>2. path.data \in RawConfig
      BY <1>1, <2>2, <3>1 DEF TypeOK, FileType
    <3>3. Tidy(mem')
      BY <3>1, <3>2, LoadedIs DEF Tidy, TidyInv
    <3>. QED  BY <1>2, <3>1, <3>3 DEF Start, diskVars, TidyInv
  <2>. QED  BY <2>1, <2>2
<1>3. ASSUME NEW w \in Worker, NEW req \in Requests, Ask(w, req)
      PROVE  TidyInv'
  BY <1>3 DEF Ask, diskVars, TidyInv
<1>4. ASSUME NEW w \in Worker, Change(w)
      PROVE  TidyInv'
  <2>1. w \in Saver /\ UNCHANGED <<proc, mem, path, durable>>
    BY <1>4 DEF Change, diskVars, Saver
  <2>2. CASE Accepts(job[w], mem)
    <3>. DEFINE c == Effect(job[w], mem)
    <3>1. /\ job[w] # NoRequest /\ proc = "up" /\ Valid(job[w])
          /\ job[w] \in Request /\ InForce(mem) /\ Tidy(mem)
      BY <1>1, <1>4, StoreAssumption DEF Change, Serving, Held, TidyInv, TypeOK
    <3>2. InForce(c) /\ Tidy(c)
      BY <2>2, <3>1, EffectIs
    <3>3. saving' = [saving EXCEPT ![w] = Begun(c)]
      BY <1>4, <2>2 DEF Change
    <3>. HIDE DEF c
    <3>4. \A v \in Saver : saving'[v].next = c \/ saving'[v] = saving[v]
      BY <1>1, <2>1, <3>2, <3>3, BegunIs DEF InForce
    <3>. QED  BY <2>1, <3>2, <3>4 DEF TidyInv
  <2>3. CASE ~Accepts(job[w], mem)
    <3>1. \A v \in Saver : saving'[v].step # "none" => saving'[v] = saving[v]
      BY <1>1, <1>4, <2>1, <2>3, FinishIs DEF Change
    <3>. QED  BY <2>1, <3>1 DEF TidyInv
  <2>. QED  BY <2>2, <2>3
<1>5. ASSUME NEW w \in Saver, OpenTmp(w) \/ WriteTmp(w) \/ SyncTmp(w) \/ SyncDir(w)
      PROVE  TidyInv'
  <2>1. \A v \in Saver : /\ saving'[v].next = saving[v].next
                         /\ saving'[v].step # "none" => saving[v].step # "none"
    <3>1. PICK step \in Step : GoTo(w, step)
      BY <1>5 DEF OpenTmp, WriteTmp, SyncTmp, SyncDir, Step
    <3>2. saving[w].step # "none"
      BY <1>5 DEF OpenTmp, WriteTmp, SyncTmp, SyncDir, At
    <3>. QED  BY <1>1, <3>1, <3>2, GoToIs
  <2>2. /\ proc' = proc /\ mem' = mem /\ path' = path
        /\ durable' = durable \/ durable' = path
    BY <1>5 DEF OpenTmp, WriteTmp, SyncTmp, SyncDir
  <2>. QED  BY <2>1, <2>2 DEF TidyInv
<1>6. ASSUME NEW w \in Saver, RenameTmp(w)
      PROVE  TidyInv'
  <2>1. /\ saving[w].step = "rename" /\ GoTo(w, "syncdir")
        /\ UNCHANGED <<proc, mem, durable>> /\ path' = tmp
    BY <1>6 DEF RenameTmp, At
  <2>2. path'.data = saving[w].next
    BY <1>1, <2>1 DEF OnDisk, File
  <2>3. \A v \in Saver : /\ saving'[v].next = saving[v].next
                         /\ saving'[v].step # "none" => saving[v].step # "none"
    BY <1>1, <2>1, GoToIs DEF Step
  <2>. QED  BY <2>1, <2>2, <2>3 DEF TidyInv
<1>7. ASSUME NEW w \in Saver, Commit(w) \/ SaveFails(w)
      PROVE  TidyInv'
  <2>1. /\ path' = path /\ durable' = durable /\ Finish(w)
        /\ \/ proc' \in {proc, "down"} /\ mem' = mem
           \/ saving[w].step # "none" /\ mem' = saving[w].next
    BY <1>7 DEF Commit, SaveFails, At, diskVars
  <2>2. \A v \in Saver : saving'[v].step # "none" => saving'[v] = saving[v]
    BY <1>1, <2>1, FinishIs
  <2>. QED  BY <2>1, <2>2 DEF TidyInv
<1>8. CASE Kill \/ PowerFailure
  <2>1. Gone
    BY <1>8 DEF Kill, PowerFailure
  <2>2. proc' = "down" /\ \A v \in Saver : saving'[v].step = "none"
    BY <2>1, IdleIs DEF Gone
  <2>3. path' \in {path, durable} /\ durable' \in {path, durable}
    BY <1>1, <1>8 DEF Kill, PowerFailure, diskVars, OnDisk, Survivor
  <2>. QED  BY <2>2, <2>3 DEF TidyInv
<1>9. ASSUME NEW raw \in HandWritten, EditByHand(raw)
      PROVE  TidyInv'
  BY <1>9 DEF EditByHand, File, HandTidy, TidyInv
<1>10. CASE UNCHANGED vars
  BY <1>10 DEF vars, diskVars, TidyInv
<1>. QED  BY <1>2, <1>3, <1>4, <1>5, <1>6, <1>7, <1>8, <1>9, <1>10 DEF Next, SaveStep

\* The running store holds a configuration past the floors, with a list that
\* compiles, whatever was written by hand.
THEOREM HeldInForce == Spec => [](proc = "up" => InForce(mem))
<1>1. StoreInv => (proc = "up" => InForce(mem))
  BY DEF StoreInv, Held
<1>. QED  BY <1>1, StoreSound, PTL

\* Nothing the loop reads from the store has to be checked again, provided no
\* file written by hand lists something twice in one rule.
THEOREM UsableAlways == ASSUME HandTidy PROVE Spec => []AlwaysUsable
<1>1. StoreInv /\ TidyInv => AlwaysUsable
  <2>. SUFFICES ASSUME StoreInv, TidyInv, proc = "up"
                PROVE  Usable(mem)
    BY DEF AlwaysUsable
  <2>1. InForce(mem) /\ Tidy(mem)
    BY DEF StoreInv, Held, TidyInv
  <2>. QED  BY <2>1, DefaultAssumption DEF InForce, Config, Tidy, NoRepeat, Usable
<1>. QED  BY <1>1, InitTidy, NextTidy, StoreSound, PTL DEF Spec

-------------------------------------------------------------------------------
(* The refinement.                                                           *)

\* The requests that have taken effect: those past their rename.
Applied == {w \in Worker : saving[w].step \in Past}

\* The register reads requests as the store does.
LEMMA SameRequests ==
  ASSUME NEW req, NEW c
  PROVE  /\ Register!Valid(req) <=> Valid(req)
         /\ Register!Accepts(req, c) <=> Accepts(req, c)
         /\ Register!Effect(req, c) = Effect(req, c)
<1>1. \A rules, id : Register!RuleIndex(rules, id) = RuleIndex(rules, id)
  BY DEF Register!RuleIndex, RuleIndex
<1>2. \A seq, v : Register!Listed(seq, v) <=> Listed(seq, v)
  BY DEF Register!Listed, Listed
<1>3. \A seq, v : Register!Kept(seq, v) = Kept(seq, v)
  BY DEF Register!Kept, Kept
<1>4. \A rules, id : Register!WithRule(rules, id) = WithRule(rules, id)
  BY <1>1 DEF Register!WithRule, WithRule
<1>5. Register!Valid(req) <=> Valid(req)
  BY DEF Register!Valid, Valid
<1>6. Register!Accepts(req, c) <=> Accepts(req, c)
  BY <1>1, <1>2 DEF Register!Accepts, Accepts
<1>7. Register!Effect(req, c) = Effect(req, c)
  BY <1>1, <1>3, <1>4 DEF Register!Effect, Effect
<1>. QED  BY <1>5, <1>6, <1>7

\* The store's initial states are the register's.
LEMMA InitRegister == Init => Register!Init
<1>1. Init => Applied = {}
  BY IdleIs DEF Init, Saver, Applied, Past
<1>. QED  BY <1>1 DEF Init, Register!Init, Applied, Past

\* A step that moves no configuration and takes nobody past its rename is, of
\* the register, a question, an answer or nothing.
LEMMA SameFiles ==
  ASSUME UNCHANGED <<path, durable, job>>, Applied' = Applied
  PROVE  UNCHANGED Register!vars
BY DEF Register!vars, Applied, Past, Meaning

\* An answer of the store is the register's: whether it confirms is whether the
\* rename was made.
LEMMA Answered ==
  ASSUME StoreInv, NEW w \in Saver,
         saving[w].step # "none" \/ (w \in Worker /\ job[w] # NoRequest),
         Finish(w), UNCHANGED <<path, durable>>
  PROVE  [Register!Next]_(Register!vars)
<1>1. TypeOK /\ Worker \subseteq Saver
  BY DEF StoreInv, Saver
<1>2. Applied' = Applied \ {w}
  <2>1. /\ saving'[w].step = "none"
        /\ \A v \in Saver : v # w => saving'[v] = saving[v]
    BY <1>1, FinishIs
  <2>. QED  BY <1>1, <2>1 DEF Applied, Past
<1>3. CASE w = Boot
  <2>1. w \notin Worker /\ job' = job
    BY <1>3, StoreAssumption DEF Finish
  <2>2. Applied' = Applied
    BY <1>2, <2>1 DEF Applied
  <2>. QED  BY <2>1, <2>2, SameFiles
<1>4. CASE w # Boot
  <2>1. w \in Worker /\ job' = [job EXCEPT ![w] = NoRequest]
    BY <1>4 DEF Saver, Finish
  <2>2. job[w] # NoRequest
    BY <2>1 DEF StoreInv, Serving
  <2>3. Register!Reply(w)
    BY <1>2, <2>1, <2>2 DEF Register!Reply, Applied, Past, Meaning
  <2>. QED  BY <2>1, <2>3 DEF Register!Next
<1>. QED  BY <1>3, <1>4

\* A step of saveConfig takes its worker past the rename or leaves it where it was.
LEMMA Moved ==
  ASSUME TypeOK, NEW w \in Saver, NEW step \in Step, GoTo(w, step)
  PROVE  Applied' = IF w \in Worker /\ step \in Past THEN Applied \cup {w} ELSE Applied \ {w}
<1>1. /\ saving'[w].step = step
      /\ \A v \in Saver : v # w => saving'[v] = saving[v]
  BY GoToIs
<1>. QED  BY <1>1 DEF Applied, Saver

\* The rename is where a request takes effect, on the configuration it was
\* checked against; for the first configuration nothing changes, a missing file
\* being read as the default.
LEMMA RenameIsApply ==
  ASSUME StoreInv, NEW w \in Saver, RenameTmp(w)
  PROVE  [Register!Next]_(Register!vars)
<1>1. /\ TypeOK /\ Serving /\ Copies /\ OnDisk /\ Held
      /\ saving[w].step = "rename" /\ GoTo(w, "syncdir") /\ path' = tmp
      /\ UNCHANGED <<job, durable>>
  BY DEF StoreInv, RenameTmp, At
<1>2. /\ \A v \in Saver : v # w => saving[v].step = "none"
      /\ w # Boot => w \in Worker /\ proc = "up" /\ job[w] # NoRequest
      /\ w = Boot => proc = "creating"
      /\ InForce(saving[w].next)
  BY <1>1, Alone
<1>3. path' = File(saving[w].next, TRUE)
  BY <1>1 DEF OnDisk
<1>4. path'.data = saving[w].next /\ path'.data # Torn /\ path'.data # Missing
  BY <1>2, <1>3, ConfigIsRaw, StoreAssumption DEF File, InForce
<1>5. Meaning(path') = saving[w].next
  BY <1>2, <1>4, LoadedAgain DEF Meaning
<1>6. Meaning(durable') = Meaning(durable)
  BY <1>1 DEF Meaning
<1>7. Applied = {}
  BY <1>1, <1>2 DEF Applied, Past, Saver
<1>8. CASE w = Boot
  <2>1. w \notin Worker
    BY <1>8, StoreAssumption
  <2>2. Applied' = Applied
    BY <1>1, <1>7, <2>1, Moved DEF Step
  <2>3. Meaning(path) = saving[w].next
    BY <1>1, <1>2, <1>8 DEF Copies, Early, Meaning
  <2>4. Meaning(path') = Meaning(path)
    BY <1>5, <2>3
  <2>. QED  BY <1>1, <1>6, <2>2, <2>4 DEF Register!vars, Applied, Past, Meaning
<1>9. CASE w # Boot
  <2>1. w \in Worker /\ proc = "up" /\ job[w] # NoRequest
    BY <1>2, <1>9
  <2>2. Applied' = Applied \cup {w} /\ w \notin Applied
    BY <1>1, <1>7, <2>1, Moved DEF Step, Past
  <2>3. Valid(job[w]) /\ Accepts(job[w], mem) /\ saving[w].next = Effect(job[w], mem)
    BY <1>1, <2>1 DEF Serving, Copies, Early
  <2>4. mem = Meaning(path)
    <3>1. \A v \in Worker : saving[v].step \notin Past
      BY <1>7 DEF Applied
    <3>2. mem = Loaded(path.data) /\ path.data # Missing /\ path.data # Torn
      BY <1>1, <2>1, <3>1 DEF Held, OnDisk
    <3>. QED  BY <3>2 DEF Meaning
  <2>5. /\ Register!Valid(job[w]) /\ Register!Accepts(job[w], Meaning(path))
        /\ Meaning(path') = Register!Effect(job[w], Meaning(path))
    BY <1>5, <2>3, <2>4, SameRequests
  <2>6. Register!Apply(w)
    BY <1>1, <1>6, <2>1, <2>2, <2>5 DEF Register!Apply, Applied, Past, Meaning
  <2>. QED  BY <2>1, <2>6 DEF Register!Next
<1>. QED  BY <1>8, <1>9

\* The end of the process is the register's: a change whose rename was made
\* counts, one that was not does not.
LEMMA GoneIsStop ==
  ASSUME StoreInv, Gone, path' \in {path, durable},
         durable' = durable \/ durable' = path'
  PROVE  [Register!Next]_(Register!vars)
<1>1. Applied' = {}
  BY IdleIs DEF Gone, Applied, Past, Saver
<1>2. Meaning(path') \in {Meaning(path), Meaning(durable)}
      /\ Meaning(durable') \in {Meaning(durable), Meaning(path')}
  OBVIOUS
<1>3. Register!Stop
  BY <1>1, <1>2 DEF Gone, Register!Stop, Applied, Past, Meaning
<1>. QED  BY <1>3 DEF Register!Next

\* Every step of the store is one of the register, or none.
LEMMA NextRegister == StoreInv /\ [Next]_vars => [Register!Next]_(Register!vars)
<1>. SUFFICES ASSUME StoreInv, [Next]_vars
              PROVE  [Register!Next]_(Register!vars)
  OBVIOUS
<1>1. TypeOK /\ OneSaver /\ Serving /\ Copies /\ OnDisk /\ Held
  BY DEF StoreInv
<1>2. CASE Start
  <2>1. \A v \in Worker : saving'[v] = saving[v]
    <3>1. saving' = saving \/ saving' = [saving EXCEPT ![Boot] = Begun(DefaultConfig)]
      BY <1>2 DEF Start
    <3>2. saving' = [saving EXCEPT ![Boot] = Begun(DefaultConfig)] =>
             \A v \in Saver : v # Boot => saving'[v] = saving[v]
      BY <1>1, BegunIs, DefaultInForce DEF InForce, Saver
    <3>. QED  BY <3>1, <3>2, StoreAssumption DEF Saver
  <2>2. Applied' = Applied
    BY <2>1 DEF Applied
  <2>. QED  BY <1>2, <2>2, SameFiles DEF Start, diskVars
<1>3. ASSUME NEW w \in Worker, NEW req \in Requests, Ask(w, req)
      PROVE  [Register!Next]_(Register!vars)
  <2>1. Register!Ask(w, req)
    BY <1>3 DEF Ask, Register!Ask, diskVars, Meaning
  <2>. QED  BY <2>1 DEF Register!Next
<1>4. ASSUME NEW w \in Worker, Change(w)
      PROVE  [Register!Next]_(Register!vars)
  <2>1. w \in Saver /\ job[w] # NoRequest /\ UNCHANGED <<path, durable>>
    BY <1>4 DEF Change, diskVars, Saver
  <2>2. CASE Finish(w)
    BY <2>1, <2>2, Answered
  <2>3. CASE job' = job /\ saving' = [saving EXCEPT ![w] = Begun(Effect(job[w], mem))]
    <3>1. \A v \in Worker : saving'[v].step = IF v = w THEN "open" ELSE saving[v].step
      BY <1>1, <2>3 DEF TypeOK, Begun, Saver
    <3>2. saving[w].step = "none"
      BY <1>4 DEF Change, At
    <3>3. Applied' = Applied
      BY <3>1, <3>2 DEF Applied, Past
    <3>. QED  BY <2>1, <2>3, <3>3, SameFiles
  <2>. QED  BY <1>4, <2>2, <2>3 DEF Change
<1>5. ASSUME NEW w \in Saver, OpenTmp(w) \/ WriteTmp(w) \/ SyncTmp(w)
      PROVE  [Register!Next]_(Register!vars)
  <2>1. PICK step \in Early : GoTo(w, step)
    BY <1>5 DEF OpenTmp, WriteTmp, SyncTmp, Early
  <2>2. saving[w].step \in Early
    BY <1>5 DEF OpenTmp, WriteTmp, SyncTmp, At, Early
  <2>3. Applied' = Applied
    BY <1>1, <2>1, <2>2, Moved DEF Applied, Early, Past, Step
  <2>. QED  BY <1>5, <2>3, SameFiles DEF OpenTmp, WriteTmp, SyncTmp
<1>6. ASSUME NEW w \in Saver, SyncDir(w)
      PROVE  [Register!Next]_(Register!vars)
  <2>1. /\ saving[w].step = "syncdir" /\ GoTo(w, "commit") /\ job' = job /\ path' = path
        /\ durable' = path \/ durable' = durable
    BY <1>6 DEF SyncDir, At
  <2>2. Applied' = Applied
    BY <1>1, <2>1, Moved DEF Applied, Past, Step
  <2>3. CASE durable' = durable
    BY <2>1, <2>2, <2>3, SameFiles
  <2>4. CASE durable' = path
    <3>1. Register!Settle
      BY <2>1, <2>2, <2>4 DEF Register!Settle, Applied, Past, Meaning
    <3>. QED  BY <3>1 DEF Register!Next
  <2>. QED  BY <2>1, <2>3, <2>4
<1>7. ASSUME NEW w \in Saver, Commit(w) \/ SaveFails(w)
      PROVE  [Register!Next]_(Register!vars)
  <2>1. saving[w].step # "none" /\ Finish(w) /\ UNCHANGED <<path, durable>>
    BY <1>7 DEF Commit, SaveFails, At, diskVars
  <2>. QED  BY <2>1, Answered
<1>8. CASE Kill \/ PowerFailure
  <2>1. Survivor(path) = path /\ Survivor(durable) = durable
    BY <1>1 DEF OnDisk, Survivor
  <2>2. Gone /\ path' \in {path, durable} /\ (durable' = durable \/ durable' = path')
    BY <1>8, <2>1 DEF Kill, PowerFailure, diskVars
  <2>. QED  BY <2>2, GoneIsStop
<1>9. ASSUME NEW raw \in HandWritten, EditByHand(raw)
      PROVE  [Register!Next]_(Register!vars)
  <2>1. /\ proc = "down" /\ durable' = path' /\ UNCHANGED <<job, saving>>
    BY <1>9 DEF EditByHand
  <2>2. \A v \in Worker : job[v] = NoRequest /\ saving[v].step = "none"
    BY <1>1, <2>1 DEF Serving
  <2>3. job = [v \in Worker |-> NoRequest]
    BY <1>1, <2>2 DEF TypeOK
  <2>4. Applied = {} /\ Applied' = Applied
    BY <2>1, <2>2 DEF Applied, Past
  <2>5. Register!Replace
    BY <2>1, <2>3, <2>4 DEF Register!Replace, Applied, Past, Meaning
  <2>. QED  BY <2>5 DEF Register!Next
<1>10. CASE UNCHANGED vars
  BY <1>10, SameFiles DEF vars, diskVars, Applied
<1>. QED  BY <1>2, <1>3, <1>4, <1>5, <1>6, RenameIsApply, <1>7, <1>8, <1>9, <1>10
          DEF Next, SaveStep

\* The store implements ConfigRegister: a confirmed request took effect once, on
\* what the requests before it left, and a refused one took none.
THEOREM ImplementsRegister == Spec => IsRegister
BY InitRegister, NextRegister, StoreSound, PTL DEF Spec, IsRegister, Register!Spec
===============================================================================
