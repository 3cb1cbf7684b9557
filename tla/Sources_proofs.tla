---------------------------- MODULE Sources_proofs ----------------------------
(***************************************************************************)
(* What Sources promises its callers: a lookup through several DNS servers *)
(* is decided by the first of them that leaves no doubt, and a list that a *)
(* provider's endpoints are read for is everything they published, within  *)
(* the bounds of the contract of ProviderFetcher.                          *)
(***************************************************************************)
EXTENDS Sources, FiniteSetTheorems, WellFoundedInduction, TLAPS

\* A set of natural numbers that is not empty has a least element, and that is
\* what Min picks.
LEMMA MinOfNaturals ==
  ASSUME NEW S \in SUBSET Nat, S # {}
  PROVE  Min(S) \in S /\ \A j \in S : Min(S) <= j
<1>1. \E i \in S : \A j \in S : ~(<<j, i>> \in OpToRel(<, Nat))
  BY NatLessThanWellFounded, WFMin
<1>2. PICK i \in S : \A j \in S : ~(<<j, i>> \in OpToRel(<, Nat))
  BY <1>1
<1>3. \A j \in S : ~(j < i)
  BY <1>2 DEF OpToRel
<1>4. \A j \in S : i <= j
  BY <1>3
<1> QED
  BY <1>4 DEF Min

-------------------------------------------------------------------------------
(* DNS.                                                                      *)

\* The servers are asked in order, and the first to give a definite answer
\* decides: what the later ones would say does not matter, and a failure is
\* the result only if all of them failed.
THEOREM FirstDefiniteAnswerDecides ==
  ASSUME NEW answers \in Seq(Answer)
  PROVE  \/ /\ Resolve(answers) = Failure
            /\ \A i \in DOMAIN answers : answers[i] = Failure
         \/ \E i \in DOMAIN answers :
               /\ Resolve(answers) = answers[i] /\ answers[i] # Failure
               /\ \A j \in DOMAIN answers : j < i => answers[j] = Failure
<1> DEFINE first == Min(Definite(answers))
<1>1. CASE Definite(answers) = {}
  BY <1>1 DEF Resolve, Definite
<1>2. CASE Definite(answers) # {}
  <2>1. Definite(answers) \in SUBSET Nat
    BY DEF Definite
  <2>2. first \in Definite(answers) /\ \A j \in Definite(answers) : first <= j
    BY <1>2, <2>1, MinOfNaturals
  <2>3. \A j \in DOMAIN answers : j < first => answers[j] = Failure
    <3> SUFFICES ASSUME NEW j \in DOMAIN answers, j < first, answers[j] # Failure
                 PROVE  FALSE
      OBVIOUS
    <3>1. j \in Definite(answers) /\ j \in Nat /\ first \in Nat
      BY <2>1, <2>2 DEF Definite
    <3> QED
      BY <2>2, <3>1
  <2> QED
    BY <1>2, <2>2, <2>3 DEF Resolve, Definite
<1> QED
  BY <1>1, <1>2

\* A lookup says that the name does not exist, which drops its addresses, only
\* if a server said so: servers that cannot be reached never add up to it.
THEOREM NotFoundWasSaid ==
  ASSUME NEW answers \in Seq(Answer), Resolve(answers) = NotFound
  PROVE  \E i \in DOMAIN answers : answers[i] = NotFound
<1>1. NotFound # Failure
  BY DEF NotFound, Failure
<1> QED
  BY <1>1, FirstDefiniteAnswerDecides

-------------------------------------------------------------------------------
(* Provider lists.                                                           *)

\* The lines of finitely many bodies are finitely many.
LEMMA AllIsFinite ==
  ASSUME NEW replies \in Seq(Reply)
  PROVE  IsFiniteSet(All(replies))
<1> DEFINE lines(e) == {<<e, i>> : i \in Entries(replies[e].body)}
           family == {lines(e) : e \in DOMAIN replies}
<1>1. IsFiniteSet(DOMAIN replies)
  <2>1. DOMAIN replies = 1..Len(replies) /\ Len(replies) \in Nat
    OBVIOUS
  <2>2. IsFiniteSet(1..Len(replies))
    BY <2>1, FS_Interval
  <2> QED
    BY <2>1, <2>2
<1>2. [e \in DOMAIN replies |-> lines(e)] \in Surjection(DOMAIN replies, family)
  BY DEF Surjection
<1>3. IsFiniteSet(family)
  BY <1>1, <1>2, FS_Surjection
<1>4. ASSUME NEW e \in DOMAIN replies
      PROVE  IsFiniteSet(lines(e))
  <2> DEFINE body == replies[e].body
  <2>1. body \in Seq(Line)
    <3>1. replies[e] \in Reply
      OBVIOUS
    <3> QED
      BY <3>1 DEF Reply
  <2>2. DOMAIN body = 1..Len(body) /\ Len(body) \in Nat
    BY <2>1
  <2>3. IsFiniteSet(DOMAIN body)
    <3>1. 1 \in Int /\ Len(body) \in Int
      BY <2>2
    <3> HIDE DEF body
    <3>2. IsFiniteSet(1..Len(body))
      BY <3>1, FS_Interval, ZenonT(30)
    <3> QED
      BY <2>2, <3>2
  <2>4. IsFiniteSet(Entries(body))
    BY <2>3, FS_Subset DEF Entries
  <2>5. [i \in Entries(body) |-> <<e, i>>] \in Surjection(Entries(body), lines(e))
    BY DEF Surjection
  <2> QED
    BY <2>4, <2>5, FS_Surjection
<1>5. \A T \in family : IsFiniteSet(T)
  BY <1>4
<1> HIDE DEF family
<1>6. IsFiniteSet(UNION family)
  BY <1>3, <1>5, FS_UNION
<1> QED
  BY <1>6 DEF All, family

\* HTTPProviderFetcher keeps the contract of ProviderFetcher: what it returns
\* passes checkPrefixList, which its caller applies once more, and is never
\* empty - a provider with no endpoints is an error, not a list of nothing.
THEOREM FetchKeepsContract ==
  ASSUME NEW replies \in Seq(Reply), FetchSucceeds(replies)
  PROVE  Fetch(replies) # {} /\ checkPrefixList(Fetch(replies))
<1> DEFINE net(at) == replies[at[1]].body[at[2]].net
<1>1. Fetch(replies) # {}
  BY DEF Fetch, FetchSucceeds
<1>2. \A p \in Fetch(replies) : Cardinality(p) <= MaxBreadth
  <2> SUFFICES ASSUME NEW e \in DOMAIN replies, NEW i \in Entries(replies[e].body)
               PROVE  Cardinality(replies[e].body[i].net) <= MaxBreadth
    BY DEF Fetch, All
  <2> QED
    BY DEF FetchSucceeds, fetchOne, parsePrefixList, checkPrefix
<1>3. [at \in All(replies) |-> net(at)] \in Surjection(All(replies), Fetch(replies))
  BY DEF Fetch, Surjection
<1>4. /\ IsFiniteSet(All(replies)) /\ IsFiniteSet(Fetch(replies))
      /\ Cardinality(Fetch(replies)) <= Cardinality(All(replies))
  BY <1>3, AllIsFinite, FS_Surjection
<1>5. Cardinality(Fetch(replies)) \in Nat /\ Cardinality(All(replies)) \in Nat
  BY <1>4, FS_CardinalityType
<1>6. Cardinality(Fetch(replies)) <= MaxPrefixes
  BY <1>4, <1>5, BoundAssumption DEF FetchSucceeds
<1> QED
  BY <1>1, <1>2, <1>6 DEF checkPrefixList

\* A fetch that succeeds is whole: every endpoint answered, and every line of
\* every body that is not blank is a prefix of the list.  A line that is lost
\* or refused fails the fetch instead of narrowing what is authorised.
THEOREM FetchIsAllOrNothing ==
  ASSUME NEW replies \in Seq(Reply), FetchSucceeds(replies)
  PROVE  \A e \in DOMAIN replies :
            /\ replies[e].kind = "body"
            /\ \A i \in DOMAIN replies[e].body :
                  LET line == replies[e].body[i] IN
                  line # BlankLine => line.kind = "cidr" /\ line.net \in Fetch(replies)
<1> SUFFICES ASSUME NEW e \in DOMAIN replies
             PROVE  /\ replies[e].kind = "body"
                    /\ \A i \in DOMAIN replies[e].body :
                          replies[e].body[i] # BlankLine =>
                             /\ replies[e].body[i].kind = "cidr"
                             /\ replies[e].body[i].net \in Fetch(replies)
  OBVIOUS
<1>1. fetchOne(replies[e])
  BY DEF FetchSucceeds
<1>2. ASSUME NEW i \in DOMAIN replies[e].body, replies[e].body[i] # BlankLine
      PROVE  replies[e].body[i].kind = "cidr" /\ replies[e].body[i].net \in Fetch(replies)
  <2>1. i \in Entries(replies[e].body)
    BY <1>2 DEF Entries
  <2>2. <<e, i>> \in All(replies)
    BY <2>1 DEF All
  <2>3. replies[e].body[i].net \in Fetch(replies)
    BY <2>2 DEF Fetch
  <2> QED
    BY <1>1, <2>1, <2>3 DEF fetchOne, parsePrefixList, checkPrefix
<1> QED
  BY <1>1, <1>2 DEF fetchOne
===============================================================================
