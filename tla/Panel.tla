-------------------------------- MODULE Panel --------------------------------
(***************************************************************************)
(* The panel in the browser (src/www/app.js, api.js), the handlers it      *)
(* calls (src/httpapi.go) and what lies between them: Zoraxy's proxy, that *)
(* answers 200 for a plugin it cannot reach, and a session that expires.   *)
(*                                                                         *)
(* The page polls /api/state, and polls may be answered in another order   *)
(* than they were sent.  Of the settings it saves, the never-authorise     *)
(* list stands for all: it is the one with a dialog and with a button that *)
(* fills in the built-in ranges.  Other clients change the configuration   *)
(* too.  The loop behind the handlers is Backend, which ReconcileLoop      *)
(* implements.                                                             *)
(*                                                                         *)
(* A request that cannot be delivered fails at once; one that was          *)
(* delivered may be overtaken, cut off or lost.                            *)
(***************************************************************************)
EXTENDS Integers, Sequences, FiniteSets

CONSTANTS
    MaxPolls,     \* how many polls are being answered at most
    Range,        \* the ranges a list is made of
    BuiltIn,      \* DefaultUnroutableCIDRs
    Commas,       \* a text that is not blank and has no range in it
    Typed,        \* the texts the operator types
    MaxChanges    \* how many changes a behaviour contains

ASSUME PanelAssumption ==
    /\ BuiltIn \subseteq Range /\ BuiltIn # {}
    /\ \A t \in Typed : t = Commas \/ t \subseteq Range
    /\ MaxPolls \in Nat \ {0} /\ MaxChanges \in Nat

VARIABLES
    lists,        \* history: every list the store has held, the stored one last
    published,    \* how many changes the published result has seen
    up,           \* the plugin serves
    path,         \* from page to plugin: "fine", "expired" session, or "away"
    polls,        \* the polls that have "read" the configuration, are on their
                  \* way "back", or were "cut" off
    post,         \* the save: "asking", "sent", "applied" or "cut", or "none"
    stateCache,   \* the last state received
    unreachable, rulesUnavailable,  \* the two banners
    text, focused                   \* the field of the never-authorise list

backVars == <<lists, published>>
netVars == <<polls, post>>
pageVars == <<stateCache, unreachable, rulesUnavailable, text, focused>>
vars == <<backVars, up, path, netVars, pageVars>>

stored == lists[Len(lists)]
changes == Len(lists) - 1

Loop == INSTANCE Backend

None == [st |-> "none"]
Applied == [st |-> "applied"]
Cut == [st |-> "cut"]

State(n, list, seen) == [changes |-> n, list |-> list, published |-> seen]
NoState == State(-1, {}, Loop!NothingPublished)

\* What a page would make of an answer that has no state in it.
Blank == State(0, {}, Loop!NothingPublished)

\* Variant: blank parts are kept.
ParseKeepingBlanks(t) == IF t = Commas THEN {Commas} ELSE t

\* ParseCIDRList: split on commas, trim, drop blanks.
ParseCIDRList(t) == IF t = Commas THEN {} ELSE t

\* Answers that are none: the proxy's 200 with an error in it, its 200 with
\* the login page, and nothing at all.
Failure == {"down", "login", "lost"}

\* Variant: the HTTP status decides.
StatusError(kind) ==
    CASE kind \in {"ok", "down"} -> "no" [] kind = "login" -> "session" [] OTHER -> "gone"

apiError(kind) ==
    CASE kind = "ok" -> "no" [] kind = "login" -> "session" [] OTHER -> "gone"

Asking == post.st = "asking"

Delivered == up /\ path = "fine"

\* What answers a request that is not delivered.
Undelivered(kind) ==
    \/ path = "expired" /\ kind = "login"
    \/ path = "away" /\ kind = "lost"
    \/ path = "fine" /\ ~up /\ kind = "down"

-------------------------------------------------------------------------------
(* The page is loaded; the field is empty until a state arrives.             *)

Init ==
    /\ lists = <<BuiltIn>> /\ published = Loop!NothingPublished
    /\ up = TRUE /\ path = "fine"
    /\ polls = {} /\ post = None
    /\ stateCache = NoState /\ unreachable = "no" /\ rulesUnavailable = FALSE
    /\ text = {} /\ focused = FALSE

\* The operator reloads when no save is under way, and signs in if need be.
Reload ==
    /\ post = None /\ path # "away"
    /\ stateCache' = NoState /\ unreachable' = "no" /\ rulesUnavailable' = FALSE
    /\ text' = {} /\ focused' = FALSE
    /\ polls' = {} /\ path' = "fine"
    /\ UNCHANGED <<backVars, up, post>>

-------------------------------------------------------------------------------
(* The poll of /api/state.                                                   *)

\* handleState takes the configuration first...
ReadConfig ==
    /\ Cardinality(polls) < MaxPolls
    /\ polls' = polls \cup {[st |-> "read", changes |-> changes, list |-> stored]}

\* Variant: no poll while the banner is up.
PollReachable ==
    /\ ~Asking /\ Delivered /\ unreachable = "no" /\ ReadConfig
    /\ UNCHANGED <<backVars, up, path, post, pageVars>>

\* setInterval(loadState, 5000), whatever became of the polls before.
Poll ==
    /\ ~Asking /\ Delivered /\ ReadConfig
    /\ UNCHANGED <<backVars, up, path, post, pageVars>>

\* ... and then the result, under another lock.
ReadStatus(p) ==
    /\ p.st = "read"
    /\ polls' = (polls \ {p}) \cup
                  {[st |-> "back", state |-> State(p.changes, p.list, published)]}
    /\ UNCHANGED <<backVars, up, path, post, pageVars>>

\* apiGet and loadState: on an error the page keeps what it has; a state goes
\* into every field the operator is not in.
Receive(kind, state) ==
    /\ unreachable' = apiError(kind)
    /\ \/ unreachable' # "no" /\ UNCHANGED <<stateCache, text>>
       \/ /\ unreachable' = "no" /\ stateCache' = state
          /\ text' = IF focused THEN text ELSE state.list
    /\ UNCHANGED <<backVars, up, path, post, rulesUnavailable, focused>>

PollFails ==
    /\ ~Asking
    /\ \E kind \in Failure : Undelivered(kind) /\ Receive(kind, Blank)
    /\ UNCHANGED polls

StateArrives(p) ==
    /\ ~Asking
    /\ \/ p.st = "back" /\ path # "away" /\ Receive("ok", p.state)
       \/ p = Cut /\ Receive("down", Blank)
       \/ path = "away" /\ Receive("lost", Blank)
    /\ polls' = polls \ {p}

-------------------------------------------------------------------------------
(* /api/rules, which the plugin asks Zoraxy for: once when the page loads,   *)
(* and after every Refresh.                                                  *)

\* ListAccessRules fails without an answer, on a status, on the error envelope
\* in a 200, and on a body that is no list; handleRules makes one answer of them.
ZoraxyReply == {"list", "none", "status", "envelope", "garbled"}
handleRules(reply) == IF reply = "list" THEN "ok" ELSE "bad gateway"

RulesAnswer(kind) ==
    \/ Undelivered(kind)
    \/ Delivered /\ \E reply \in ZoraxyReply : kind = handleRules(reply)

\* Variant: one flag for both.
LoadRulesOneFlag ==
    /\ ~Asking
    /\ \E kind \in Failure \cup {"ok", "bad gateway"} :
           RulesAnswer(kind) /\ unreachable' = apiError(kind)
    /\ UNCHANGED <<backVars, up, path, netVars, stateCache, rulesUnavailable, text,
                   focused>>

LoadRules ==
    /\ ~Asking
    /\ \E kind \in Failure \cup {"ok", "bad gateway"} :
           RulesAnswer(kind) /\ rulesUnavailable' = (apiError(kind) # "no")
    /\ UNCHANGED <<backVars, up, path, netVars, stateCache, unreachable, text, focused>>

-------------------------------------------------------------------------------
(* The never-authorise list: the operator.                                   *)

Type(t) ==
    /\ ~Asking /\ text' = t /\ focused' = TRUE
    /\ UNCHANGED <<backVars, up, path, netVars, stateCache, unreachable, rulesUnavailable>>

\* Pressing a button takes the focus before it counts as a click.
Blur ==
    /\ ~Asking /\ focused /\ focused' = FALSE
    /\ UNCHANGED <<backVars, up, path, netVars, stateCache, unreachable,
                   rulesUnavailable, text>>

\* The built-in list comes with the state.
Restore ==
    /\ ~Asking /\ ~focused /\ stateCache # NoState
    /\ text' = ParseCIDRList(text) \cup BuiltIn
    /\ UNCHANGED <<backVars, up, path, netVars, stateCache, unreachable,
                   rulesUnavailable, focused>>

\* Variant: trim() === "".
IsBlank(t) == t = {}

WillBeEmpty(t) == ParseCIDRList(t) = {}

\* confirm() is in the way only of clearing a list that the page knows of.
Save ==
    /\ post = None /\ ~focused /\ changes < MaxChanges
    /\ post' = [st |-> IF WillBeEmpty(text) /\ stateCache.list # {} THEN "asking" ELSE "sent",
                list |-> ParseCIDRList(text),
                unasked |-> IF ParseCIDRList(text) = {} THEN stateCache.list ELSE {}]
    /\ UNCHANGED <<backVars, up, path, polls, pageVars>>

\* The dialog stops the page: no timer and no answer is handled meanwhile.
Answer ==
    /\ Asking
    /\ \/ post' = [post EXCEPT !.st = "sent", !.unasked = {}]
       \/ post' = None
    /\ UNCHANGED <<backVars, up, path, polls, pageVars>>

-------------------------------------------------------------------------------
(* The never-authorise list: the handler and its answer.                     *)

\* handleUnroutable; a change is atomic because ConfigStore is a register.
ApplyPost ==
    /\ post.st = "sent" /\ Delivered /\ changes < MaxChanges
    /\ lists' = Append(lists, post.list)
    /\ post' = Applied
    /\ UNCHANGED <<published, up, path, polls, pageVars>>

\* The answer is a refusal if the list does not validate or is not saved.
PostAnswer(kind) ==
    \/ post.st = "sent" /\ (Undelivered(kind) \/ (Delivered /\ kind = "refused"))
    \/ post = Applied /\ (IF path = "away" THEN kind = "lost" ELSE kind = "ok")
    \/ post = Cut /\ kind = "down"

\* apiPost: a save that went well is announced and followed by a poll.
PostArrives(kind) ==
    /\ PostAnswer(kind) /\ post' = None
    /\ IF apiError(kind) = "no" /\ Delivered /\ Cardinality(polls) < MaxPolls
       THEN ReadConfig ELSE UNCHANGED polls
    /\ UNCHANGED <<backVars, up, path, pageVars>>

-------------------------------------------------------------------------------
(* What happens around the page.                                             *)

OtherChanges ==
    /\ up /\ changes < MaxChanges
    /\ \E new \in {{}, BuiltIn} : new # stored /\ lists' = Append(lists, new)
    /\ UNCHANGED <<published, up, path, netVars, pageVars>>

\* A cycle ends.
Cycle ==
    /\ up /\ UNCHANGED <<lists, up, path, netVars, pageVars>>
    /\ Loop!Publish /\ published' # published

\* The proxy answers for what the plugin was working on.
Die ==
    /\ up /\ up' = FALSE
    /\ UNCHANGED lists /\ Loop!Stop
    /\ polls' = {IF p.st = "read" THEN Cut ELSE p : p \in polls}
    /\ post' = IF post = Applied THEN Cut ELSE post
    /\ UNCHANGED <<path, pageVars>>

Start ==
    /\ ~up /\ up' = TRUE
    /\ UNCHANGED <<backVars, path, netVars, pageVars>>

\* The session expires, the network goes, the network comes back.
PathChanges ==
    /\ \E change \in {<<"fine", "expired">>, <<"fine", "away">>, <<"expired", "away">>,
                      <<"away", "fine">>, <<"away", "expired">>} :
           path = change[1] /\ path' = change[2]
    /\ UNCHANGED <<backVars, up, netVars, pageVars>>

-------------------------------------------------------------------------------

Operator == (\E t \in Typed : Type(t)) \/ Blur \/ Restore \/ Save \/ Answer \/ Reload

Environment == OtherChanges \/ Die \/ Start \/ PathChanges

PostStep == ApplyPost \/ \E kind \in Failure \cup {"ok", "refused"} : PostArrives(kind)

Next ==
    \/ \E p \in polls : ReadStatus(p) \/ StateArrives(p)
    \/ Poll \/ PollFails \/ LoadRules \/ PostStep \/ Operator \/ Environment \/ Cycle

Spec == Init /\ [][Next]_vars

\* The timer of the page and the requests it makes; cycles, as Backend
\* promises.  Nothing is assumed of the operator or of the environment.
FairSpec ==
    /\ Spec
    /\ WF_vars(Poll) /\ WF_vars(PollFails)
    /\ WF_vars(\E p \in polls : ReadStatus(p)) /\ WF_vars(\E p \in polls : StateArrives(p))
    /\ WF_vars(PostStep)
    /\ WF_vars(Cycle /\ Loop!CatchUp)

-------------------------------------------------------------------------------
(* Correctness.                                                              *)

TypeOK ==
    /\ lists \in Seq(SUBSET Range) /\ Len(lists) \in 1..(MaxChanges + 1)
    /\ published \in {Loop!NothingPublished} \cup 0..changes
    /\ up \in BOOLEAN /\ path \in {"fine", "expired", "away"}
    /\ \A p \in polls : p.st \in {"read", "back", "cut"}
    /\ post.st \in {"none", "asking", "sent", "applied", "cut"}
    /\ stateCache.changes \in -1..changes /\ stateCache.list \subseteq Range
    /\ unreachable \in {"no", "gone", "session"} /\ rulesUnavailable \in BOOLEAN
    /\ (text = Commas \/ text \subseteq Range) /\ focused \in BOOLEAN

\* What the page shows is a configuration that was stored, whole, and never an
\* error body "as though the configuration had become empty".
ShowsWhatWas ==
    stateCache # NoState => stateCache.list = lists[stateCache.changes + 1]

\* The page calls the plugin gone only when it is out of reach, or was while a
\* poll was on its way; not because Zoraxy's own access API does not answer.
NoFalseAlarm ==
    [][unreachable = "no" /\ unreachable' # "no" => ~Delivered \/ Cut \in polls]_vars

\* The operator is told that a save went well only when it did, whatever
\* answered in the plugin's place.
ReportsAreTrue ==
    [][\A kind \in Failure \cup {"ok", "refused"} :
         PostArrives(kind) /\ apiError(kind) = "no" => post.st \in {"applied", "cut"}]_vars

\* A list that had ranges in it is emptied from the page only by an operator
\* who was asked, or whose page showed it empty or not at all.
ClearingConfirmed ==
    [][ApplyPost /\ post.list = {} => post.unasked = {}]_vars

StaysOpen == <>[][~Reload]_vars

\* When nothing is in the way for good, the page comes to show what is stored,
\* with a result that has seen it, and no banner, in whatever order the polls
\* come back.
PanelCatchesUp ==
    StaysOpen /\ <>[](Delivered /\ ~Asking) =>
        <>[](unreachable = "no" /\ stateCache = State(changes, stored, changes))

\* When the plugin is out of reach for good, and the page is not stopped by
\* its own dialog, the banner is up for good.
BannerIsTrue ==
    StaysOpen /\ <>[](~Delivered) /\ <>[](~Asking) => <>[](unreachable # "no")
===============================================================================
