------------------------------- MODULE MCConfig -------------------------------
(***************************************************************************)
(* Small instances of ConfigStore.                                         *)
(***************************************************************************)
EXTENDS ConfigStore, TLC

CONSTANTS r1, f, cf, bad, open, shut, dns

Values == {r1, f, cf, bad, open, shut, dns}

Add(field, value) == [op |-> "add", rule |-> r1, field |-> field, value |-> value]
Remove(field, value) == [op |-> "remove", rule |-> r1, field |-> field, value |-> value]
Set(field, value) == [op |-> "set", field |-> field, value |-> value]

\* An addition, a removal, a setting, and a value of each kind that is refused.
StoreRequests ==
    {Add("fqdns", f), Remove("fqdns", f), Set("interval", 3),
     Add("fqdns", bad), Set("interval", 1), Set("blocked", bad), Set("grace", -1)}

\* Written by an older version: intervals under the floor, the superseded
\* server, no grace and no list; and one whose list does not compile.
OldFile ==
    [interval |-> 1, period |-> 0, grace |-> Absent, servers |-> <<>>, server |-> dns,
     blocked |-> Absent, rules |-> <<[id |-> r1, fqdns |-> <<f>>, providers |-> <<>>]>>]
BadFile == [OldFile EXCEPT !.blocked = bad]
NegativeFile == [OldFile EXCEPT !.grace = -1, !.blocked = shut, !.interval = -5]

OldFiles == {OldFile, BadFile, NegativeFile}
===============================================================================
