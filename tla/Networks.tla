------------------------------- MODULE Networks -------------------------------
(***************************************************************************)
(* The never-authorise list bit by bit (src/unroutable.go): networks as an *)
(* address and a number of leading bits, and the comparisons UnroutableSet *)
(* makes of them.  Whitelist sees a network as the set of its addresses    *)
(* and the comparisons as operations on sets.                              *)
(*                                                                         *)
(* An address is in the family its To4 gives it, so the notation of an     *)
(* IPv4 address inside IPv6 does not occur.                                *)
(***************************************************************************)
EXTENDS Integers, Sequences

CONSTANTS Family, Width  \* Width[f]: the bits of an address, 32 or 128

Bits(f) == [1..Width[f] -> {0, 1}]
Address == UNION {[family : {f}, bits : Bits(f)] : f \in Family}

\* What net.ParseCIDR returns as the network: the host bits are cleared.
Net(ip, ones) ==
    [family |-> ip.family, ones |-> ones,
     bits |-> [i \in 1..Width[ip.family] |-> IF i <= ones THEN ip.bits[i] ELSE 0]]
Network == UNION {{Net(ip, ones) : ones \in 0..Width[ip.family]} : ip \in Address}

\* The network's own address.
IP(n) == [family |-> n.family, bits |-> n.bits]

\* net.IPNet.Contains: the families agree, and the bits under the mask.
NetContains(n, ip) ==
    /\ n.family = ip.family
    /\ \A i \in 1..n.ones : n.bits[i] = ip.bits[i]

\* The text of an entry of the list: a CIDR, a bare address, or neither.
Text == [kind : {"cidr"}, ip : Address, ones : Nat] \cup [kind : {"bare"}, ip : Address]
        \cup [kind : {"garbled"}]

\* TRUE when the code returns no error: one entry it cannot read is enough.
Parses(entry) ==
    \/ entry.kind = "cidr" /\ entry.ones <= Width[entry.ip.family]
    \/ entry.kind = "bare"
UnroutableSetIsValid(cidrs) == \A i \in DOMAIN cidrs : Parses(cidrs[i])

\* A bare address is a network of one host.
Single(ip) == Net(ip, Width[ip.family])
NetOf(entry) == IF entry.kind = "cidr" THEN Net(entry.ip, entry.ones) ELSE Single(entry.ip)
NewUnroutableSet(cidrs) == {NetOf(cidrs[i]) : i \in DOMAIN cidrs}

Contains(nets, ip) == \E n \in nets : NetContains(n, ip)

\* Two networks intersect when one contains the other's address.
networksOverlap(a, b) == NetContains(a, IP(b)) \/ NetContains(b, IP(a))

Overlaps(nets, prefix) == \E n \in nets : networksOverlap(n, prefix)
===============================================================================
