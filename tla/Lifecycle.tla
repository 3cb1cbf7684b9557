------------------------------ MODULE Lifecycle ------------------------------
(***************************************************************************)
(* How the process starts (main in src/main.go, ServeAndRecvSpec of the    *)
(* SDK) and how it is stopped.  Zoraxy GETs <UIPath>/term; the SDK's       *)
(* handler starts a timer that ends the process and answers; on POSIX a    *)
(* SIGTERM follows the answer at once; what is still there after a while   *)
(* is killed.  A SIGTERM may also come from the machine, unasked.          *)
(*                                                                         *)
(* Zoraxy's half is external: it is taken from the comments of main.go.    *)
(* Time passes in ticks, and no faster than the goroutines that can run    *)
(* are allowed to be late.                                                 *)
(***************************************************************************)
EXTENDS Integers

CONSTANTS
    SelfExit,     \* how long the SDK's timer sleeps: 100 ms
    Slack,        \* how late a goroutine that can run may be
    KillPosix,    \* how long Zoraxy waits before it kills: five seconds
    KillWindows   \* the same on Windows: 300 ms

\* Measured, says main.go: exit 88 ms after the answer, 212 ms of margin.
ASSUME StopAssumption ==
    /\ SelfExit \in Nat /\ Slack \in Nat
    /\ KillPosix \in Nat /\ KillWindows \in Nat
    /\ Slack < SelfExit
    /\ SelfExit + Slack < KillWindows /\ KillWindows <= KillPosix

VARIABLES
    posix,      \* what the machine runs
    proc,       \* how far main has come, "off" without a process
    ended,      \* how the last process ended
    zoraxy,     \* Zoraxy's StopPlugin: "no", "asked", "returned", "waiting"
    answered,   \* its GET of /term was answered
    handler,    \* the SDK's handler: "none", "term", or "reply" to be sent
    lag,        \* for how long the handler has been about to do that
    timer,      \* for how long the SDK's timer has run
    sig,        \* for how long sigCh has held a signal
    waited      \* for how long Zoraxy has waited since the GET returned

vars == <<posix, proc, ended, zoraxy, answered, handler, lag, timer, sig, waited>>

Off == -1

Alive == proc # "off"
Serving == proc = "serving"
KillAfter == IF posix THEN KillPosix ELSE KillWindows

Idle ==
    /\ zoraxy = "no" /\ answered = FALSE
    /\ handler = "none" /\ lag = 0 /\ timer = Off /\ sig = Off /\ waited = Off

Init == posix \in BOOLEAN /\ proc = "off" /\ ended = "nothing" /\ Idle

\* Everything but the files goes with the process.
End(how) ==
    /\ proc' = "off" /\ ended' = how
    /\ zoraxy' = "no" /\ answered' = FALSE
    /\ handler' = "none" /\ lag' = 0 /\ timer' = Off /\ sig' = Off /\ waited' = Off
    /\ UNCHANGED posix

stopVars == <<zoraxy, answered, handler, lag, timer, sig, waited>>

-------------------------------------------------------------------------------
(* main.                                                                     *)

Launch ==
    /\ ~Alive /\ proc' = "spec"
    /\ UNCHANGED <<posix, ended, stopVars>>

\* -introspect: print the specification and go.
Introspect == proc = "spec" /\ End("clean")

\* -configure is missing or does not parse, or config.json will not do.
StartFails == proc \in {"spec", "config"} /\ End("failed")

\* RecvConfigureSpec; LoadConfig; the routes, /term among them; signal.Notify.
StartStep ==
    \E step \in {<<"spec", "config">>, <<"config", "routes">>,
                 <<"routes", "notified">>, <<"notified", "serving">>} :
        /\ proc = step[1] /\ proc' = step[2]
        /\ UNCHANGED <<posix, ended, stopVars>>

\* ListenAndServe's error is dropped, and main returns.
ListenFails == proc = "notified" /\ End("clean")

-------------------------------------------------------------------------------
(* The SDK's handler and the handler of signals.                             *)

\* Variant: the handler calls os.Exit, as the review of PR #17 asked.
TermHandlerExits == handler = "term" /\ End("clean")

\* Variant: the handler answers and starts no timer.
TermHandlerOnlyAnswers ==
    /\ handler = "term"
    /\ handler' = "reply" /\ lag' = 0
    /\ UNCHANGED <<posix, proc, ended, zoraxy, answered, timer, sig, waited>>

\* The plugin's own function only prints; the answer leaves when the handler
\* returns, with the timer already running.
TermHandler ==
    /\ handler = "term"
    /\ timer' = 0
    /\ handler' = "reply" /\ lag' = 0
    /\ UNCHANGED <<posix, proc, ended, zoraxy, answered, sig, waited>>

Reply ==
    /\ handler = "reply"
    /\ handler' = "none" /\ lag' = 0
    /\ zoraxy' = "returned" /\ answered' = TRUE
    /\ UNCHANGED <<posix, proc, ended, timer, sig, waited>>

TimerFires == timer >= SelfExit /\ End("clean")

SignalHandler == sig # Off /\ End("clean")

\* Variant: signal.Notify is not called.
NeverCaught == FALSE

\* From signal.Notify on a signal waits in a channel that holds one; until then
\* the default applies, which is to die of it.
Caught == proc \in {"notified", "serving"}

Noted == IF sig = Off THEN 0 ELSE sig

Sigterm ==
    \/ /\ Alive /\ Caught /\ sig' = Noted
       /\ UNCHANGED <<posix, proc, ended, zoraxy, answered, handler, lag, timer, waited>>
    \/ Alive /\ ~Caught /\ End("signal")

-------------------------------------------------------------------------------
(* Zoraxy and time.                                                          *)

\* Nobody answers a plugin that does not serve yet.
AskToStop ==
    /\ Alive /\ zoraxy = "no"
    /\ IF Serving THEN zoraxy' = "asked" /\ handler' = "term"
                  ELSE zoraxy' = "returned" /\ UNCHANGED handler
    /\ UNCHANGED <<posix, proc, ended, answered, lag, timer, sig, waited>>

\* "On POSIX, Zoraxy sends SIGTERM immediately after the GET returns."
StopPosix ==
    /\ posix /\ zoraxy = "returned"
    /\ \/ /\ Caught /\ sig' = Noted
          /\ zoraxy' = "waiting" /\ waited' = 0
          /\ UNCHANGED <<posix, proc, ended, answered, handler, lag, timer>>
       \/ ~Caught /\ End("signal")

StopWindows ==
    /\ ~posix /\ zoraxy = "returned"
    /\ zoraxy' = "waiting" /\ waited' = 0
    /\ UNCHANGED <<posix, proc, ended, answered, handler, lag, timer, sig>>

Kill == zoraxy = "waiting" /\ waited >= KillAfter /\ End("killed")

Later(clock) == IF clock = Off THEN Off ELSE clock + 1

Tick ==
    /\ Alive /\ zoraxy # "returned"
    /\ handler # "none" => lag < Slack
    /\ timer < SelfExit + Slack /\ sig < Slack /\ waited < KillAfter
    /\ lag' = IF handler = "none" THEN 0 ELSE lag + 1
    /\ timer' = Later(timer) /\ sig' = Later(sig) /\ waited' = Later(waited)
    /\ UNCHANGED <<posix, proc, ended, zoraxy, answered, handler>>

Next ==
    \/ Launch \/ Introspect \/ StartFails \/ StartStep \/ ListenFails
    \/ TermHandler \/ Reply \/ TimerFires \/ SignalHandler
    \/ Sigterm \/ AskToStop \/ StopPosix \/ StopWindows \/ Kill \/ Tick

Spec == Init /\ [][Next]_vars

-------------------------------------------------------------------------------
(* Correctness.                                                              *)

TypeOK ==
    /\ posix \in BOOLEAN
    /\ proc \in {"off", "spec", "config", "routes", "notified", "serving"}
    /\ ended \in {"nothing", "clean", "failed", "signal", "killed"}
    /\ zoraxy \in {"no", "asked", "returned", "waiting"}
    /\ answered \in BOOLEAN
    /\ handler \in {"none", "term", "reply"}
    /\ lag \in 0..Slack
    /\ timer \in {Off} \cup 0..(SelfExit + Slack)
    /\ sig \in {Off} \cup 0..Slack
    /\ waited \in {Off} \cup 0..KillAfter

\* Which clocks run when: the SDK's timer was started before the answer left,
\* so it is ahead of Zoraxy's patience, and while the answer is on its way it
\* is no further than the handler is late; on POSIX a signal is waiting too.
ClocksAgree ==
    /\ zoraxy = "asked" <=> handler # "none"
    /\ waited # Off <=> zoraxy = "waiting"
    /\ handler # "none" \/ answered \/ timer # Off \/ sig # Off => Alive
    /\ zoraxy = "asked" => Serving /\ ~answered
    /\ timer # Off <=> answered \/ handler = "reply"
    /\ handler = "reply" => timer = lag
    /\ answered => zoraxy \in {"returned", "waiting"} /\ timer >= waited
    /\ zoraxy = "waiting" /\ posix => Caught /\ sig # Off /\ sig >= waited

\* The state of a stop is consistent at every moment: whatever Zoraxy counts,
\* the plugin's own way out is running and ahead of it.
StopInv == TypeOK /\ ClocksAgree

\* A plugin that serves stops cleanly, whether asked, signalled or both, and
\* whichever comes first: it neither dies of the signal nor is it killed.  The
\* exception is Windows, when the request came before the plugin served and
\* nobody answered it.
CleanStop ==
    [][Serving /\ ~Alive' /\ (posix \/ answered \/ zoraxy # "waiting")
         => ended' = "clean"]_vars

\* The process does not go before the request to stop is answered, unless the
\* machine wants it gone: "Exiting here happens before the response is
\* written, so Zoraxy's GET fails".
AnsweredFirst ==
    [][zoraxy = "asked" /\ ~Alive' => sig # Off]_vars
===============================================================================
