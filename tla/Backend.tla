------------------------------- MODULE Backend -------------------------------
(***************************************************************************)
(* What the plugin promises to whoever polls it: changes of the            *)
(* configuration are counted, and the published result says how many of    *)
(* them it takes into account.  It never takes one back while the process  *)
(* lives, and it catches up with all of them unless it is stopped.         *)
(***************************************************************************)
EXTENDS Integers

CONSTANTS MaxChanges

VARIABLES
    changes,    \* changes made to the configuration so far
    published   \* how many of them the published result has seen

NothingPublished == -1

resultVars == <<changes, published>>

Init == changes = 0 /\ published = NothingPublished

Change ==
    /\ changes < MaxChanges /\ changes' = changes + 1
    /\ UNCHANGED published

\* A cycle ends; it may have begun before the latest changes.
Publish ==
    /\ published' \in 0..changes /\ published' >= published
    /\ UNCHANGED changes

\* Results are not kept over a stop.
Stop ==
    /\ published' = NothingPublished
    /\ UNCHANGED changes

CatchUp == published # changes /\ published' = changes /\ UNCHANGED changes

Next == Change \/ Publish \/ Stop

Spec == Init /\ [][Next]_resultVars

FairSpec == Spec /\ WF_resultVars(CatchUp)
===============================================================================
