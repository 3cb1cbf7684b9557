--------------------------- MODULE Networks_proofs ---------------------------
(***************************************************************************)
(* Networks as Whitelist sees them: the set of the addresses they contain. *)
(* The code's comparisons of leading bits decide membership in that set    *)
(* and intersection of two of them, for every width of an address.         *)
(***************************************************************************)
EXTENDS Networks, TLAPS

\* A network is the set of its addresses.
Hosts(n) == {ip \in Address : NetContains(n, ip)}

\* Whitelist's view of a never-authorise list is the union of its networks.
W == INSTANCE Whitelist
     WITH Host <- Address, V6 <- {}, Prefix <- {Hosts(n) : n \in Network},
          MaxBreadth <- 0, MaxPrefixes <- 0
Blocked(nets) == UNION {Hosts(n) : n \in nets}

\* What a network is made of, and that its own address is one.
LEMMA NetworkShape ==
  ASSUME Width \in [Family -> Nat], NEW n \in Network
  PROVE  /\ n.family \in Family /\ n.ones \in 0..Width[n.family]
         /\ n.bits \in Bits(n.family)
         /\ IP(n) \in Address /\ NetContains(n, IP(n))
<1>0. PICK ip \in Address : \E ones \in 0..Width[ip.family] : n = Net(ip, ones)
  BY DEF Network
<1>1. PICK ones \in 0..Width[ip.family] : n = Net(ip, ones)
  BY <1>0
<1>2. ip.family \in Family /\ ip.bits \in Bits(ip.family)
  BY DEF Address
<1>3. n.family = ip.family /\ n.ones = ones
  BY <1>1 DEF Net
<1>4. n.bits = [i \in 1..Width[ip.family] |-> IF i <= ones THEN ip.bits[i] ELSE 0]
  BY <1>1 DEF Net
<1>5. n.bits \in Bits(n.family)
  BY <1>2, <1>3, <1>4 DEF Bits
<1>6. IP(n) \in [family : {n.family}, bits : Bits(n.family)]
  BY <1>5 DEF IP
<1>7. IP(n) \in Address
  BY <1>2, <1>3, <1>6 DEF Address
<1>8. NetContains(n, IP(n))
  BY DEF NetContains, IP
<1> QED
  BY <1>2, <1>3, <1>5, <1>7, <1>8

\* An address of both networks shares the leading bits of each, so the network
\* with fewer of them contains the other, whole.
LEMMA OverlapIsNesting ==
  ASSUME Width \in [Family -> Nat], NEW a \in Network, NEW b \in Network,
         NEW x \in Address, NetContains(a, x), NetContains(b, x), a.ones <= b.ones
  PROVE  NetContains(a, IP(b)) /\ Hosts(b) \subseteq Hosts(a)
<1>1. a.ones \in Nat /\ b.ones \in Nat
  BY NetworkShape
<1>2. \A i \in 1..a.ones : i \in 1..b.ones
  BY <1>1
<1>3. a.family = b.family /\ \A i \in 1..a.ones : a.bits[i] = b.bits[i]
  BY <1>2 DEF NetContains
<1>4. NetContains(a, IP(b))
  BY <1>3 DEF NetContains, IP
<1>5. Hosts(b) \subseteq Hosts(a)
  BY <1>2, <1>3 DEF Hosts, NetContains
<1> QED
  BY <1>4, <1>5

\* "Two prefixes intersect exactly when one contains the other's network
\* address, so testing both directions is the whole test."
THEOREM OverlapIsIntersection ==
  ASSUME Width \in [Family -> Nat], NEW a \in Network, NEW b \in Network
  PROVE  networksOverlap(a, b) <=> Hosts(a) \cap Hosts(b) # {}
<1>1. ASSUME networksOverlap(a, b) PROVE Hosts(a) \cap Hosts(b) # {}
  <2>1. IP(a) \in Hosts(a) /\ IP(b) \in Hosts(b)
    BY NetworkShape DEF Hosts
  <2>2. IP(b) \in Hosts(a) \/ IP(a) \in Hosts(b)
    BY <1>1, <2>1 DEF networksOverlap, Hosts
  <2> QED
    BY <2>1, <2>2
<1>2. ASSUME NEW x \in Hosts(a) \cap Hosts(b) PROVE networksOverlap(a, b)
  <2>1. x \in Address /\ NetContains(a, x) /\ NetContains(b, x)
    BY <1>2 DEF Hosts
  <2>2. a.ones \in Int /\ b.ones \in Int
    BY NetworkShape
  <2>3. CASE a.ones <= b.ones
    BY <2>1, <2>3, OverlapIsNesting DEF networksOverlap
  <2>4. CASE b.ones <= a.ones
    BY <2>1, <2>4, OverlapIsNesting DEF networksOverlap
  <2> QED
    BY <2>2, <2>3, <2>4
<1> QED
  BY <1>1, <1>2

\* A list the code accepts compiles to networks.
LEMMA ListCompiles ==
  ASSUME Width \in [Family -> Nat], NEW cidrs \in Seq(Text), UnroutableSetIsValid(cidrs)
  PROVE  NewUnroutableSet(cidrs) \in SUBSET Network
<1> SUFFICES ASSUME NEW i \in DOMAIN cidrs
             PROVE  NetOf(cidrs[i]) \in Network
  BY DEF NewUnroutableSet
<1>1. cidrs[i] \in Text /\ Parses(cidrs[i])
  BY DEF UnroutableSetIsValid
<1>2. cidrs[i].kind \in {"cidr", "bare"} /\ cidrs[i].ip \in Address
  BY <1>1 DEF Text, Parses
<1>3. cidrs[i].ip.family \in Family
  BY <1>2 DEF Address
<1>4. Width[cidrs[i].ip.family] \in 0..Width[cidrs[i].ip.family]
  BY <1>3
<1>5. CASE cidrs[i].kind = "cidr"
  <2>1. cidrs[i].ones \in 0..Width[cidrs[i].ip.family]
    BY <1>1, <1>3, <1>5 DEF Text, Parses
  <2> QED
    BY <1>2, <1>5, <2>1 DEF NetOf, Network
<1>6. CASE cidrs[i].kind = "bare"
  BY <1>2, <1>4, <1>6 DEF NetOf, Single, Network
<1> QED
  BY <1>2, <1>5, <1>6

\* Whitelist's two tests are the code's: an address is on the never-authorise
\* list, and a prefix overlaps it, exactly when the bits say so.
THEOREM WhitelistTestsAreTheCodes ==
  ASSUME Width \in [Family -> Nat], NEW cidrs \in Seq(Text), UnroutableSetIsValid(cidrs)
  PROVE  LET nets == NewUnroutableSet(cidrs) IN
         /\ \A ip \in Address : Contains(nets, ip) <=> W!Contains(Blocked(nets), ip)
         /\ \A p \in Network : Overlaps(nets, p) <=> W!Overlaps(Blocked(nets), Hosts(p))
<1> DEFINE nets == NewUnroutableSet(cidrs)
<1>0. nets \in SUBSET Network
  BY ListCompiles
<1> HIDE DEF nets
<1>1. ASSUME NEW ip \in Address
      PROVE  Contains(nets, ip) <=> W!Contains(Blocked(nets), ip)
  BY <1>0 DEF Contains, W!Contains, Blocked, Hosts
<1>2. ASSUME NEW p \in Network
      PROVE  Overlaps(nets, p) <=> W!Overlaps(Blocked(nets), Hosts(p))
  <2>1. Overlaps(nets, p) <=> \E n \in nets : Hosts(n) \cap Hosts(p) # {}
    BY <1>0, OverlapIsIntersection DEF Overlaps
  <2>2. W!Overlaps(Blocked(nets), Hosts(p)) <=> \E n \in nets : Hosts(p) \cap Hosts(n) # {}
    BY DEF W!Overlaps, Blocked
  <2> QED
    BY <2>1, <2>2
<1> QED
  BY <1>1, <1>2 DEF nets

\* An entry is refused in the form of an address exactly when it is refused in
\* the form of a CIDR: the two ways the code tests one that is owned agree.
THEOREM SingleHostTestsAgree ==
  ASSUME Width \in [Family -> Nat], NEW nets \in SUBSET Network, NEW ip \in Address
  PROVE  Overlaps(nets, Single(ip)) <=> Contains(nets, ip)
<1>1. ip.family \in Family /\ ip.bits \in Bits(ip.family)
  BY DEF Address
<1>2. Width[ip.family] \in Nat
  BY <1>1
<1>3. Single(ip) \in Network
  <2>1. Width[ip.family] \in 0..Width[ip.family]
    BY <1>2
  <2> QED
    BY <2>1 DEF Single, Network
<1>4. \A i \in 1..Width[ip.family] : Single(ip).bits[i] = ip.bits[i]
  BY <1>2 DEF Single, Net
<1>5. Single(ip).family = ip.family /\ Single(ip).ones = Width[ip.family]
  BY DEF Single, Net
<1>6. ASSUME NEW n \in nets
      PROVE  networksOverlap(n, Single(ip)) <=> NetContains(n, ip)
  <2>1. n.family \in Family /\ n.ones \in 0..Width[n.family]
    BY NetworkShape
  <2>2. n.family = ip.family => \A i \in 1..n.ones : i \in 1..Width[ip.family]
    BY <2>1, <1>2
  <2>3. NetContains(n, IP(Single(ip))) <=> NetContains(n, ip)
    BY <1>4, <1>5, <2>2 DEF NetContains, IP
  <2>4. NetContains(Single(ip), IP(n)) => NetContains(n, ip)
    BY <1>4, <1>5, <2>2 DEF NetContains, IP
  <2> QED
    BY <2>3, <2>4 DEF networksOverlap
<1> QED
  BY <1>6 DEF Overlaps, Contains
===============================================================================
