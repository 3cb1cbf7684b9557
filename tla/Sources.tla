------------------------------- MODULE Sources -------------------------------
(***************************************************************************)
(* What the sources of an authorisation say: the answer to a lookup that   *)
(* goes to several DNS servers (src/resolver.go), and the list that comes  *)
(* of a provider's endpoints (src/provider.go).                            *)
(***************************************************************************)
EXTENDS Whitelist, Sequences, FiniteSetsExt

-------------------------------------------------------------------------------
(* DNS.                                                                      *)

Answer == [kind : {"ok", "notfound", "fail"}, ips : SUBSET Host]
Resolved(ips) == [kind |-> "ok", ips |-> ips]
NotFound == [kind |-> "notfound", ips |-> {}]
Failure == [kind |-> "fail", ips |-> {}]

\* The servers that leave no doubt: an address, or IsNameNotFound.
Definite(answers) == {i \in DOMAIN answers : answers[i] # Failure}

\* FallbackResolver asks in order and stops at the first of them; the error of
\* the last server stands for the others'.
Resolve(answers) ==
    IF Definite(answers) = {} THEN Failure
    ELSE answers[Min(Definite(answers))]

-------------------------------------------------------------------------------
(* Provider lists.                                                           *)

\* A line of a body, and what an endpoint answers with.
BlankLine == [kind |-> "blank", net |-> {}]
GarbledLine == [kind |-> "garbled", net |-> {}]
CidrLine(p) == [kind |-> "cidr", net |-> p]
Line == {BlankLine, GarbledLine} \cup {CidrLine(p) : p \in Prefix}

\* No connection, a redirect, a status that is not 200, a body cut off or over
\* the limit: each is an error, whatever the body.
Trouble == {"refused", "redirect", "status", "cut off", "too long"}
Reply == [kind : Trouble \cup {"body"}, body : Seq(Line)]

checkPrefix(line) == line.kind = "cidr" /\ Cardinality(line.net) <= MaxBreadth

Entries(body) == {i \in DOMAIN body : body[i] # BlankLine}

\* TRUE when the code returns no error: any bad line refuses the whole body,
\* and so does having none.
parsePrefixList(body) ==
    /\ \A i \in Entries(body) : checkPrefix(body[i])
    /\ Entries(body) # {}

fetchOne(reply) == reply.kind = "body" /\ parsePrefixList(reply.body)

\* The lines of all endpoints, one after the other and not made unique.
All(replies) ==
    UNION {{<<e, i>> : i \in Entries(replies[e].body)} : e \in DOMAIN replies}

\* TRUE when Fetch returns no error: an endpoint that fails fails the provider,
\* and no endpoints at all are an error too.
FetchSucceeds(replies) ==
    /\ \A e \in DOMAIN replies : fetchOne(replies[e])
    /\ All(replies) # {}
    /\ Cardinality(All(replies)) <= MaxPrefixes

\* What Fetch returns then, as the set of its prefixes.
Fetch(replies) == {replies[at[1]].body[at[2]].net : at \in All(replies)}
===============================================================================
