------------------------------ MODULE Whitelist ------------------------------
(***************************************************************************)
(* The vocabulary of the whitelist: what an entry is, which entries stand  *)
(* for the same authorisation, and the tests the plugin applies to an      *)
(* address or to a prefix before it may be authorised.                     *)
(*                                                                         *)
(* An address is an element of Host.  A CIDR is the set of addresses it    *)
(* covers, so "contains" is membership and "overlaps" is a non-empty       *)
(* intersection; a /32 or a /128 is a singleton.  The never-authorise list *)
(* (UnroutableSet) is the union of its ranges.                             *)
(***************************************************************************)
EXTENDS Naturals, FiniteSets

CONSTANTS
    Host,        \* addresses
    V6,          \* the addresses that are IPv6
    Prefix,      \* the CIDRs that occur, each as the set of hosts it covers
    MaxBreadth,  \* hosts covered by a prefix at the breadth floor (/8, /16)
    MaxPrefixes  \* providerMaxPrefixes

ASSUME PrefixAssumption ==
    /\ V6 \subseteq Host
    /\ Prefix \subseteq SUBSET Host
    /\ {} \notin Prefix
    /\ \A h \in Host : {h} \in Prefix

ASSUME BoundAssumption == MaxBreadth \in Nat /\ MaxPrefixes \in Nat

(***************************************************************************)
(* An entry as Zoraxy stores it is a string: either a CIDR or, when it was *)
(* written by an older plugin or by hand, a bare address.                  *)
(***************************************************************************)
Cidr(p) == [form |-> "cidr", net |-> p]
Bare(h) == [form |-> "bare", net |-> {h}]

Key == {Cidr(p) : p \in Prefix} \cup {Bare(h) : h \in Host}

\* The single-host CIDR the plugin writes for an address.
toCIDR(h) == {h}

\* A bare address and its /32 or /128 are one authorisation.  The code compares
\* texts: two spellings of one IPv6 prefix, or a CIDR with host bits set and the
\* one without, are two entries to it and one here.
canonicalEntry(k) == k.net

Contains(blocked, h) == h \in blocked

Overlaps(blocked, p) == p \cap blocked # {}

\* On a canonical entry, which is always a CIDR, the code decides by Overlaps.
ownedAddressIsUnroutable(blocked, p) == Overlaps(blocked, p)

keepableOwned(blocked, owned) ==
    {p \in owned : ~ownedAddressIsUnroutable(blocked, p)}

\* TRUE when the code returns a nil error.
validateAgainstUnroutable(prefixes, blocked) ==
    \A p \in prefixes : ~Overlaps(blocked, p)

\* TRUE when the code returns a nil error: no prefix broader than the floor,
\* and not more of them than the ceiling.
checkPrefixList(prefixes) ==
    /\ \A p \in prefixes : Cardinality(p) <= MaxBreadth
    /\ Cardinality(prefixes) <= MaxPrefixes

(***************************************************************************)
(* Zoraxy's matcher, which is not in this repository: the comment on       *)
(* toCIDR says which entries it can match.  A bare IPv6 address matches    *)
(* nothing.                                                                *)
(***************************************************************************)
Matches(k, h) == h \in k.net /\ (k.form = "cidr" \/ h \notin V6)
==============================================================================
