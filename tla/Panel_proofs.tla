----------------------------- MODULE Panel_proofs -----------------------------
(***************************************************************************)
(* The page shows only configurations that were stored, reports only saves *)
(* that were made, empties a list only with consent and raises its banner  *)
(* only when the plugin is out of reach: for any number of polls under way *)
(* and any loss, delay and order of their answers.                         *)
(***************************************************************************)
EXTENDS Panel, TLAPS

\* List l was stored when n changes had been made.
Stored(n, l) == n \in 0..changes /\ l = lists[n + 1]

\* What is stored and what is published.
BackInv ==
    /\ lists \in Seq(SUBSET Range) /\ Len(lists) \in 1..(MaxChanges + 1)
    /\ published \in {Loop!NothingPublished} \cup 0..changes
    /\ up \in BOOLEAN /\ path \in {"fine", "expired", "away"}

\* A poll carries a configuration that was stored, or was cut off.
PollInv ==
    \A p \in polls :
        \/ p.st = "read" /\ Stored(p.changes, p.list)
        \/ p.st = "back" /\ Stored(p.state.changes, p.state.list)
        \/ p = Cut

\* A save under way that would empty the list, and is past the dialog, leaves
\* nothing unasked.
PostInv ==
    \/ post \in {None, Applied, Cut}
    \/ /\ post \in [st : {"asking", "sent"}, list : SUBSET Range, unasked : SUBSET Range]
       /\ post.st = "sent" /\ post.list = {} => post.unasked = {}

\* The page shows a configuration that was stored, or none.
PageInv ==
    /\ stateCache = NoState \/ Stored(stateCache.changes, stateCache.list)
    /\ unreachable \in {"no", "gone", "session"} /\ rulesUnavailable \in BOOLEAN
    /\ (text = Commas \/ text \subseteq Range) /\ focused \in BOOLEAN

PanelInv == BackInv /\ PollInv /\ PostInv /\ PageInv

-------------------------------------------------------------------------------
(* The stored lists only grow, and what was stored stays stored.             *)

\* What was stored is a set of ranges.
LEMMA StoredIsList ==
  ASSUME BackInv, NEW n, NEW l, Stored(n, l)
  PROVE  l \subseteq Range
<1>1. n + 1 \in 1..Len(lists)
  BY DEF BackInv, Stored, changes
<1>. QED  BY <1>1 DEF BackInv, Stored

\* The configuration now stored was stored at its own number.
LEMMA NowStored == BackInv => Stored(changes, stored)
<1>1. SUFFICES ASSUME BackInv PROVE Stored(changes, stored)
  OBVIOUS
<1>2. Len(lists) \in Nat /\ Len(lists) >= 1
  BY <1>1 DEF BackInv
<1>. QED  BY <1>2 DEF Stored, changes, stored

\* A change appends to what was stored.
LEMMA AppendStored ==
  ASSUME BackInv, NEW l \in SUBSET Range, lists' = Append(lists, l),
         changes < MaxChanges, UNCHANGED <<published, path>>, up' \in BOOLEAN
  PROVE  BackInv' /\ \A n, x : Stored(n, x) => Stored(n, x)'
<1>1. /\ Len(lists) \in Nat /\ Len(lists) >= 1 /\ Len(lists) - 1 < MaxChanges
      /\ MaxChanges \in Nat
  BY PanelAssumption DEF BackInv, changes
<1>2. /\ lists' \in Seq(SUBSET Range) /\ Len(lists') = Len(lists) + 1
      /\ \A i \in 1..Len(lists) : lists'[i] = lists[i]
  BY DEF BackInv
<1>3. changes' = changes + 1 /\ changes \in Nat /\ 0..changes \subseteq 0..changes'
  BY <1>1, <1>2 DEF changes
<1>4. Len(lists') \in 1..(MaxChanges + 1)
  BY <1>1, <1>2
<1>5. BackInv'
  BY <1>2, <1>3, <1>4 DEF BackInv
<1>6. \A n, x : Stored(n, x) => Stored(n, x)'
  <2>1. SUFFICES ASSUME NEW n, NEW x, Stored(n, x) PROVE n \in 0..changes' /\ x = lists'[n + 1]
    BY DEF Stored
  <2>2. n + 1 \in 1..Len(lists)
    BY <1>1, <2>1 DEF Stored, changes
  <2>. QED  BY <1>2, <1>3, <2>1, <2>2 DEF Stored
<1>. QED  BY <1>5, <1>6

\* What is shown and what is on its way survives a change of what is stored.
LEMMA StillStored ==
  ASSUME PanelInv, \A n, x : Stored(n, x) => Stored(n, x)', UNCHANGED <<polls, pageVars>>
  PROVE  PollInv' /\ PageInv'
<1>1. PollInv'
  BY DEF PanelInv, PollInv
<1>2. PageInv'
  BY DEF PanelInv, PageInv, pageVars
<1>. QED  BY <1>1, <1>2

\* Without a change, what was stored is what was stored.
LEMMA SameStored ==
  ASSUME UNCHANGED lists
  PROVE  \A n, x : Stored(n, x)' <=> Stored(n, x)
  BY DEF Stored, changes

\* A step that leaves what is stored and published alone keeps its types.
LEMMA SameBack ==
  ASSUME BackInv, UNCHANGED backVars, up' \in BOOLEAN, path' \in {"fine", "expired", "away"}
  PROVE  BackInv'
  BY DEF BackInv, backVars, changes

-------------------------------------------------------------------------------
(* One lemma per kind of step.                                               *)

\* The page has just been loaded.
LEMMA PanelInit == Init => PanelInv
<1>1. SUFFICES ASSUME Init PROVE PanelInv
  OBVIOUS
<1>2. BackInv
  BY <1>1, PanelAssumption DEF Init, BackInv
<1>. QED
  BY <1>1, <1>2 DEF Init, PanelInv, PollInv, PostInv, PageInv

\* A new poll carries what is stored.
LEMMA ReadKeeps ==
  ASSUME PanelInv, ReadConfig, UNCHANGED lists
  PROVE  PollInv'
<1>1. Stored(changes, stored)
  BY NowStored DEF PanelInv
<1>2. \A p \in polls' : p \in polls \/ p = [st |-> "read", changes |-> changes, list |-> stored]
  BY DEF ReadConfig
<1>3. \A p \in polls' :
        \/ p.st = "read" /\ Stored(p.changes, p.list)
        \/ p.st = "back" /\ Stored(p.state.changes, p.state.list)
        \/ p = Cut
  BY <1>1, <1>2 DEF PanelInv, PollInv
<1>. QED  BY <1>3, SameStored DEF PollInv

\* What a poll has read comes back with it, whatever is stored by then.
LEMMA PanelPoll ==
  ASSUME PanelInv, Poll \/ \E p \in polls : ReadStatus(p)
  PROVE  PanelInv'
<1>1. UNCHANGED <<backVars, up, path, post, pageVars, lists>>
  BY DEF Poll, ReadStatus, backVars
<1>2. BackInv'
  BY <1>1, SameBack DEF PanelInv, BackInv
<1>3. PostInv' /\ PageInv'
  BY <1>1, SameStored DEF PanelInv, PostInv, PageInv, pageVars
<1>4. PollInv'
  <2>1. CASE Poll
    BY <1>1, <2>1, ReadKeeps DEF Poll
  <2>2. ASSUME NEW p \in polls, ReadStatus(p) PROVE PollInv'
    <3>1. p.st = "read" /\ Stored(p.changes, p.list)
      BY <2>2 DEF ReadStatus, PanelInv, PollInv, Cut
    <3>2. \A q \in polls' : \/ q \in polls
                            \/ q = [st |-> "back", state |-> State(p.changes, p.list, published)]
      BY <2>2 DEF ReadStatus
    <3>3. \A q \in polls' :
            \/ q.st = "read" /\ Stored(q.changes, q.list)
            \/ q.st = "back" /\ Stored(q.state.changes, q.state.list)
            \/ q = Cut
      BY <3>1, <3>2 DEF PanelInv, PollInv, State
    <3>. QED  BY <1>1, <3>3, SameStored DEF PollInv
  <2>. QED  BY <2>1, <2>2
<1>. QED  BY <1>2, <1>3, <1>4 DEF PanelInv

\* The page takes from an answer what was stored, or keeps what it has.
LEMMA PanelReceive ==
  ASSUME PanelInv, NEW kind, NEW state, Receive(kind, state), polls' \subseteq polls,
         kind # "ok" \/ Stored(state.changes, state.list)
  PROVE  PanelInv'
<1>1. UNCHANGED <<backVars, up, path, post, rulesUnavailable, focused, lists>>
  BY DEF Receive, backVars
<1>2. BackInv' /\ PostInv'
  BY <1>1, SameBack DEF PanelInv, BackInv, PostInv
<1>3. PollInv'
  BY <1>1, SameStored DEF PanelInv, PollInv
<1>4. unreachable' \in {"no", "gone", "session"} /\ (unreachable' = "no" => kind = "ok")
  BY DEF Receive, apiError
<1>5. PageInv'
  <2>1. CASE UNCHANGED <<stateCache, text>>
    BY <1>1, <1>4, <2>1, SameStored DEF PanelInv, PageInv
  <2>2. CASE unreachable' = "no" /\ stateCache' = state /\ text' \in {text, state.list}
    <3>1. Stored(state.changes, state.list) /\ state.list \subseteq Range
      BY <1>4, <2>2, StoredIsList DEF PanelInv
    <3>. QED  BY <1>1, <1>4, <2>2, <3>1, SameStored DEF PanelInv, PageInv
  <2>. QED  BY <2>1, <2>2 DEF Receive
<1>. QED  BY <1>2, <1>3, <1>5 DEF PanelInv

\* An answer to a poll, a failure included.
LEMMA PanelAnswer ==
  ASSUME PanelInv, PollFails \/ \E p \in polls : StateArrives(p)
  PROVE  PanelInv'
<1>1. CASE PollFails
  <2>1. PICK kind \in Failure : Receive(kind, Blank)
    BY <1>1 DEF PollFails
  <2>2. kind # "ok" /\ polls' \subseteq polls
    BY <1>1, <2>1 DEF PollFails, Failure
  <2>. QED  BY <2>1, <2>2, PanelReceive
<1>2. ASSUME NEW p \in polls, StateArrives(p) PROVE PanelInv'
  <2>1. polls' \subseteq polls
    BY <1>2 DEF StateArrives
  <2>2. CASE p.st = "back" /\ Receive("ok", p.state)
    <3>1. Stored(p.state.changes, p.state.list)
      BY <2>2 DEF PanelInv, PollInv, Cut
    <3>. QED  BY <2>1, <2>2, <3>1, PanelReceive
  <2>3. CASE Receive("down", Blank) \/ Receive("lost", Blank)
    BY <2>1, <2>3, PanelReceive
  <2>. QED  BY <1>2, <2>2, <2>3 DEF StateArrives
<1>. QED  BY <1>1, <1>2

\* What the operator types, restores or saves.
LEMMA PanelOperator ==
  ASSUME PanelInv, Operator \/ LoadRules
  PROVE  PanelInv'
<1>1. UNCHANGED <<backVars, up, lists>> /\ path' \in {"fine", "expired", "away"}
  BY DEF Operator, Type, Blur, Restore, Save, Answer, Reload, LoadRules, backVars,
         PanelInv, BackInv
<1>2. BackInv'
  BY <1>1, SameBack DEF PanelInv, BackInv
<1>3. PollInv'
  <2>1. polls' \subseteq polls
    BY DEF Operator, Type, Blur, Restore, Save, Answer, Reload, LoadRules, netVars
  <2>. QED  BY <1>1, <2>1, SameStored DEF PanelInv, PollInv
<1>4. PostInv'
  <2>1. CASE UNCHANGED post
    BY <2>1 DEF PanelInv, PostInv
  <2>2. CASE Save
    <3>1. ParseCIDRList(text) \subseteq Range /\ stateCache.list \subseteq Range
      BY StoredIsList DEF PanelInv, PageInv, ParseCIDRList, NoState, State
    <3>. QED  BY <2>2, <3>1 DEF Save, PostInv, WillBeEmpty
  <2>3. CASE Answer
    <3>1. CASE post' = None
      BY <3>1 DEF PostInv
    <3>2. CASE post' = [post EXCEPT !.st = "sent", !.unasked = {}]
      <4>1. post \in [st : {"asking", "sent"}, list : SUBSET Range, unasked : SUBSET Range]
        BY <2>3 DEF Answer, Asking, PanelInv, PostInv, None, Applied, Cut
      <4>. QED  BY <3>2, <4>1 DEF PostInv
    <3>. QED  BY <2>3, <3>1, <3>2 DEF Answer
  <2>. QED
    BY <2>1, <2>2, <2>3 DEF Operator, Type, Blur, Restore, Reload, LoadRules, netVars
<1>5. PageInv'
  <2>1. CASE UNCHANGED pageVars
    BY <1>1, <2>1, SameStored DEF PanelInv, PageInv, pageVars
  <2>2. CASE Reload
    BY <2>2 DEF Reload, PageInv
  <2>3. CASE LoadRules
    BY <1>1, <2>3, SameStored DEF PanelInv, PageInv, LoadRules
  <2>4. CASE Blur \/ Restore \/ \E t \in Typed : Type(t)
    <3>1. /\ UNCHANGED <<stateCache, unreachable, rulesUnavailable>>
          /\ focused' \in BOOLEAN
      BY <2>4 DEF Blur, Restore, Type, PanelInv, PageInv
    <3>2. text' = Commas \/ text' \subseteq Range
      BY <2>4, PanelAssumption DEF Blur, Restore, Type, ParseCIDRList, PanelInv, PageInv
    <3>. QED  BY <1>1, <3>1, <3>2, SameStored DEF PanelInv, PageInv
  <2>. QED  BY <2>1, <2>2, <2>3, <2>4 DEF Operator, Save, Answer
<1>. QED  BY <1>2, <1>3, <1>4, <1>5 DEF PanelInv

\* The save is applied, and answered.
LEMMA PanelPost ==
  ASSUME PanelInv, PostStep
  PROVE  PanelInv'
<1>1. CASE ApplyPost
  <2>1. post.list \in SUBSET Range
    BY <1>1 DEF ApplyPost, PanelInv, PostInv, None, Applied, Cut
  <2>2. BackInv' /\ \A n, x : Stored(n, x) => Stored(n, x)'
    BY <1>1, <2>1, AppendStored DEF ApplyPost, PanelInv, BackInv
  <2>3. PollInv' /\ PageInv'
    BY <1>1, <2>2, StillStored DEF ApplyPost
  <2>. QED  BY <1>1, <2>2, <2>3 DEF ApplyPost, PanelInv, PostInv
<1>2. ASSUME NEW kind, PostArrives(kind) PROVE PanelInv'
  <2>1. UNCHANGED <<backVars, up, path, pageVars, lists>> /\ post' = None
    BY <1>2 DEF PostArrives, backVars
  <2>2. BackInv' /\ PostInv'
    BY <2>1, SameBack DEF PanelInv, BackInv, PostInv
  <2>3. PageInv'
    BY <2>1, SameStored DEF PanelInv, PageInv, pageVars
  <2>4. PollInv'
    <3>1. CASE ReadConfig
      BY <2>1, <3>1, ReadKeeps
    <3>2. CASE UNCHANGED polls
      BY <2>1, <3>2, SameStored DEF PanelInv, PollInv
    <3>. QED  BY <1>2, <3>1, <3>2 DEF PostArrives
  <2>. QED  BY <2>2, <2>3, <2>4 DEF PanelInv
<1>. QED  BY <1>1, <1>2 DEF PostStep

\* What happens around the page, and the cycles behind it.
LEMMA PanelEnvironment ==
  ASSUME PanelInv, Environment \/ Cycle \/ UNCHANGED vars
  PROVE  PanelInv'
<1>1. CASE OtherChanges
  <2>1. PICK new \in {{}, BuiltIn} : lists' = Append(lists, new)
    BY <1>1 DEF OtherChanges
  <2>2. BackInv' /\ \A n, x : Stored(n, x) => Stored(n, x)'
    BY <1>1, <2>1, AppendStored, PanelAssumption DEF OtherChanges, PanelInv, BackInv
  <2>3. PollInv' /\ PageInv'
    BY <1>1, <2>2, StillStored DEF OtherChanges, netVars
  <2>. QED  BY <1>1, <2>2, <2>3 DEF OtherChanges, PanelInv, PostInv, netVars
<1>2. CASE Start \/ PathChanges \/ Cycle \/ UNCHANGED vars
  <2>1. UNCHANGED <<lists, polls, post, pageVars>>
    BY <1>2 DEF Start, PathChanges, Cycle, netVars, vars, backVars
  <2>2. up' \in BOOLEAN /\ path' \in {"fine", "expired", "away"}
    <3>1. CASE PathChanges
      BY <3>1 DEF PathChanges, PanelInv, BackInv
    <3>2. CASE Start \/ Cycle \/ UNCHANGED vars
      BY <3>2 DEF Start, Cycle, vars, PanelInv, BackInv
    <3>. QED  BY <1>2, <3>1, <3>2
  <2>3. published' \in {Loop!NothingPublished} \cup 0..changes
    BY <1>2 DEF Start, PathChanges, Cycle, Loop!Publish, vars, backVars, PanelInv, BackInv
  <2>4. BackInv' /\ PostInv'
    BY <2>1, <2>2, <2>3 DEF PanelInv, BackInv, PostInv, changes
  <2>5. PollInv' /\ PageInv'
    BY <2>1, SameStored DEF PanelInv, PollInv, PageInv, pageVars
  <2>. QED  BY <2>4, <2>5 DEF PanelInv
<1>3. CASE Die
  <2>1. UNCHANGED <<lists, path, pageVars>> /\ up' = FALSE /\ published' = Loop!NothingPublished
    BY <1>3 DEF Die, Loop!Stop, Loop!NothingPublished
  <2>2. BackInv'
    BY <2>1 DEF PanelInv, BackInv, changes
  <2>3. PostInv'
    BY <1>3 DEF Die, PanelInv, PostInv
  <2>4. PollInv'
    <3>1. \A q \in polls' : q \in polls \/ q = Cut
      BY <1>3 DEF Die
    <3>. QED  BY <2>1, <3>1, SameStored DEF PanelInv, PollInv
  <2>5. PageInv'
    BY <2>1, SameStored DEF PanelInv, PageInv, pageVars
  <2>. QED  BY <2>2, <2>3, <2>4, <2>5 DEF PanelInv
<1>. QED  BY <1>1, <1>2, <1>3 DEF Environment

\* PanelInv holds in every reachable state.
THEOREM PanelCorrect == Spec => []PanelInv
<1>1. PanelInv /\ [Next]_vars => PanelInv'
  BY PanelPoll, PanelAnswer, PanelOperator, PanelPost, PanelEnvironment DEF Next
<1>. QED  BY <1>1, PanelInit, PTL DEF Spec

-------------------------------------------------------------------------------
(* What follows.                                                             *)

\* Every variable keeps its type: what is published and what is shown are
\* never ahead of what is stored.
THEOREM PanelTypes == Spec => []TypeOK
<1>1. PanelInv => TypeOK
  <2>1. SUFFICES ASSUME PanelInv PROVE TypeOK
    OBVIOUS
  <2>2. stateCache.changes \in -1..changes /\ stateCache.list \subseteq Range
    <3>1. changes \in Nat
      BY <2>1 DEF PanelInv, BackInv, changes
    <3>2. CASE stateCache = NoState
      BY <3>1, <3>2 DEF NoState, State
    <3>3. CASE Stored(stateCache.changes, stateCache.list)
      BY <2>1, <3>1, <3>3, StoredIsList DEF Stored, PanelInv
    <3>. QED  BY <2>1, <3>2, <3>3 DEF PanelInv, PageInv
  <2>3. \A p \in polls : p.st \in {"read", "back", "cut"}
    BY <2>1 DEF PanelInv, PollInv, Cut
  <2>4. post.st \in {"none", "asking", "sent", "applied", "cut"}
    BY <2>1 DEF PanelInv, PostInv, None, Applied, Cut
  <2>. QED  BY <2>1, <2>2, <2>3, <2>4 DEF PanelInv, BackInv, PageInv, TypeOK
<1>. QED  BY <1>1, PanelCorrect, PTL

\* Whatever order the polls come back in and whatever answers in the plugin's
\* place, the page shows a configuration that was stored, whole.
THEOREM OnlyWhatWasStored == Spec => []ShowsWhatWas
<1>1. PanelInv => ShowsWhatWas
  BY DEF PanelInv, PageInv, Stored, ShowsWhatWas
<1>. QED  BY <1>1, PanelCorrect, PTL

\* A failure of Zoraxy's access API, a refused save or the operator never
\* raises the banner; only the plugin being out of reach does, or having died
\* with a poll under way.
THEOREM BannerNeedsCause == Spec => NoFalseAlarm
<1>1. [Next]_vars =>
        [unreachable = "no" /\ unreachable' # "no" => ~Delivered \/ Cut \in polls]_vars
  <2>1. SUFFICES ASSUME Next, unreachable = "no", unreachable' # "no"
                 PROVE  ~Delivered \/ Cut \in polls
    OBVIOUS
  <2>2. CASE PollFails
    BY <2>2 DEF PollFails, Undelivered, Delivered
  <2>3. ASSUME NEW p \in polls, StateArrives(p) PROVE ~Delivered \/ Cut \in polls
    BY <2>1, <2>3 DEF StateArrives, Receive, apiError, Delivered
  <2>4. UNCHANGED unreachable \/ unreachable' = "no" \/ PollFails
        \/ \E p \in polls : StateArrives(p)
    BY <2>1
    DEF Next, ReadStatus, Poll, LoadRules, PostStep, ApplyPost, PostArrives, Operator,
        Type, Blur, Restore, Save, Answer, Reload, Environment, OtherChanges, Die, Start,
        PathChanges, Cycle, pageVars
  <2>. QED  BY <2>1, <2>2, <2>3, <2>4
<1>. QED  BY <1>1, PTL DEF Spec, NoFalseAlarm

\* A save is announced as done only when the handler did it; none of the
\* answers that stand in for the plugin's passes for its own.
THEOREM OnlyWhatWasSaved == Spec => ReportsAreTrue
<1>1. [\A kind \in Failure \cup {"ok", "refused"} :
         PostArrives(kind) /\ apiError(kind) = "no" => post.st \in {"applied", "cut"}]_vars
  <2>1. SUFFICES ASSUME NEW kind \in Failure \cup {"ok", "refused"},
                        PostArrives(kind), apiError(kind) = "no"
                 PROVE  post.st \in {"applied", "cut"}
    OBVIOUS
  <2>2. kind = "ok"
    BY <2>1 DEF apiError, Failure
  <2>. QED  BY <2>1, <2>2 DEF PostArrives, PostAnswer, Undelivered, Applied, Cut
<1>. QED  BY <1>1, PTL DEF Spec, ReportsAreTrue

\* No interleaving of polls, other clients and the dialog makes a save empty a
\* list that the page showed with ranges in it, unless the operator agreed.
THEOREM EmptiedWithConsent == Spec => ClearingConfirmed
<1>1. PanelInv => [ApplyPost /\ post.list = {} => post.unasked = {}]_vars
  BY DEF PanelInv, PostInv, ApplyPost, None, Applied, Cut
<1>. QED  BY <1>1, PanelCorrect, PTL DEF ClearingConfirmed
===============================================================================
