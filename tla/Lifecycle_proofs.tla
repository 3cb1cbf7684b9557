--------------------------- MODULE Lifecycle_proofs ---------------------------
(***************************************************************************)
(* That the plugin stops cleanly whatever the constants: how long the      *)
(* SDK's timer sleeps, how late a goroutine is and how long Zoraxy waits,  *)
(* provided the margins StopAssumption names are there.                    *)
(***************************************************************************)
EXTENDS Lifecycle, TLAPS

LEMMA StopInvInit == Init => StopInv
<1> USE StopAssumption DEF StopAssumption
<1> SUFFICES ASSUME Init PROVE StopInv
    OBVIOUS
<1>1. TypeOK
  <2>1. posix \in BOOLEAN /\ answered \in BOOLEAN
      BY Zenon DEF Init, Idle
  <2>2. QED
      BY <2>1 DEF Init, Idle, TypeOK, Off, KillAfter
<1>2. ClocksAgree
    BY DEF Init, Idle, ClocksAgree, Off, Alive, Serving, Caught
<1>3. QED
    BY <1>1, <1>2 DEF StopInv

\* However the process ends, nothing of the stop is left.
LEMMA EndKeepsStopInv ==
    ASSUME StopInv, NEW how \in {"clean", "failed", "signal", "killed"}, End(how)
    PROVE  StopInv'
<1> USE StopAssumption DEF StopAssumption
<1>1. TypeOK'
  <2>1. posix' \in BOOLEAN /\ answered' \in BOOLEAN
      BY Zenon DEF StopInv, TypeOK, End
  <2>2. QED
      BY <2>1 DEF StopInv, TypeOK, End, Off, KillAfter
<1>2. ClocksAgree'
    BY DEF StopInv, TypeOK, End, ClocksAgree, Off, Alive, Serving, Caught
<1>3. QED
    BY <1>1, <1>2 DEF StopInv

LEMMA TickKeepsStopInv == StopInv /\ Tick => StopInv'
<1> USE StopAssumption DEF StopAssumption
<1> SUFFICES ASSUME StopInv, Tick PROVE StopInv'
    OBVIOUS
<1>1. TypeOK'
    BY DEF StopInv, TypeOK, Tick, Later, Off, KillAfter
<1>2. ClocksAgree'
    BY DEF StopInv, TypeOK, ClocksAgree, Tick, Later, Off, Alive, Serving, Caught
<1>3. QED
    BY <1>1, <1>2 DEF StopInv

LEMMA StopInvStep == StopInv /\ [Next]_vars => StopInv'
<1> USE StopAssumption DEF StopAssumption
<1> SUFFICES ASSUME StopInv, [Next]_vars PROVE StopInv'
    OBVIOUS
<1>1. CASE Launch
    BY <1>1 DEF StopInv, TypeOK, ClocksAgree, Launch, stopVars, Off, Alive, Serving,
                Caught, KillAfter
<1>2. CASE Introspect
    BY <1>2, EndKeepsStopInv DEF Introspect
<1>3. CASE StartFails
    BY <1>3, EndKeepsStopInv DEF StartFails
<1>4. CASE StartStep
    BY <1>4 DEF StopInv, TypeOK, ClocksAgree, StartStep, stopVars, Off, Alive, Serving,
                Caught, KillAfter
<1>5. CASE ListenFails
    BY <1>5, EndKeepsStopInv DEF ListenFails
<1>6. CASE TermHandler
    BY <1>6 DEF StopInv, TypeOK, ClocksAgree, TermHandler, Off, Alive, Serving,
                Caught, KillAfter
<1>7. CASE Reply
    BY <1>7 DEF StopInv, TypeOK, ClocksAgree, Reply, Off, Alive, Serving,
                Caught, KillAfter
<1>8. CASE TimerFires
    BY <1>8, EndKeepsStopInv DEF TimerFires
<1>9. CASE SignalHandler
    BY <1>9, EndKeepsStopInv DEF SignalHandler
<1>10. CASE Sigterm
  <2>1. CASE ~Caught
      BY <1>10, <2>1, EndKeepsStopInv DEF Sigterm
  <2>2. CASE Caught
      BY <1>10, <2>2 DEF Sigterm, StopInv, TypeOK, ClocksAgree, Noted, Off, Alive,
                         Serving, Caught, KillAfter
  <2>3. QED
      BY <2>1, <2>2
<1>11. CASE AskToStop
    BY <1>11 DEF StopInv, TypeOK, ClocksAgree, AskToStop, Off, Alive, Serving,
                 Caught, KillAfter
<1>12. CASE StopPosix
  <2>1. CASE ~Caught
      BY <1>12, <2>1, EndKeepsStopInv DEF StopPosix
  <2>2. CASE Caught
    <3>1. TypeOK'
        BY <1>12, <2>2 DEF StopPosix, StopInv, TypeOK, Noted, Off, KillAfter
    <3>2. /\ zoraxy' = "waiting" /\ waited' = 0 /\ sig' = Noted
          /\ UNCHANGED <<posix, proc, ended, answered, handler, lag, timer>>
        BY <1>12, <2>2 DEF StopPosix
    <3>3. Noted # Off /\ Noted >= 0
        BY DEF StopInv, TypeOK, Noted, Off
    <3>4. zoraxy = "returned" /\ handler = "none"
        BY <1>12 DEF StopPosix, StopInv, TypeOK, ClocksAgree
    <3>5. timer # Off => timer >= 0
        BY DEF StopInv, TypeOK, Off
    <3>6. ClocksAgree'
        BY <2>2, <3>2, <3>3, <3>4, <3>5 DEF StopInv, TypeOK, ClocksAgree, Off, Alive,
                                            Serving, Caught
    <3>7. QED
        BY <3>1, <3>6 DEF StopInv
  <2>3. QED
      BY <2>1, <2>2
<1>13. CASE StopWindows
    BY <1>13 DEF StopInv, TypeOK, ClocksAgree, StopWindows, Off, Alive, Serving,
                 Caught, KillAfter
<1>14. CASE Kill
    BY <1>14, EndKeepsStopInv DEF Kill
<1>15. CASE Tick
    BY <1>15, TickKeepsStopInv
<1>16. CASE UNCHANGED vars
    BY <1>16 DEF StopInv, TypeOK, ClocksAgree, vars, Off, Alive, Serving, Caught, KillAfter
<1>17. QED
    BY <1>1, <1>2, <1>3, <1>4, <1>5, <1>6, <1>7, <1>8, <1>9, <1>10, <1>11, <1>12,
       <1>13, <1>14, <1>15, <1>16 DEF Next

\* The plugin's own way out is always ahead of Zoraxy's patience.
THEOREM StopIsConsistent == Spec => []StopInv
<1> QED
    BY StopInvInit, StopInvStep, PTL DEF Spec

\* Zoraxy does not kill a plugin it has given a way out.
LEMMA NotKilled ==
    ASSUME StopInv, Kill, Serving
    PROVE  ~posix /\ ~answered /\ zoraxy = "waiting"
BY StopAssumption DEF StopAssumption, StopInv, TypeOK, ClocksAgree, Kill, KillAfter, Off

LEMMA StopStepClean ==
    StopInv /\ [Next]_vars
      => (Serving /\ ~Alive' /\ (posix \/ answered \/ zoraxy # "waiting")
            => ended' = "clean")
<1> SUFFICES ASSUME StopInv, [Next]_vars, Serving, ~Alive',
                    posix \/ answered \/ zoraxy # "waiting"
             PROVE  ended' = "clean"
    OBVIOUS
<1>1. CASE Introspect \/ ListenFails \/ TimerFires \/ SignalHandler
    BY <1>1 DEF Introspect, ListenFails, TimerFires, SignalHandler, End
<1>2. CASE Launch \/ StartFails
    BY <1>2 DEF Launch, StartFails, Serving, Alive
<1>3. CASE Sigterm \/ StopPosix
    BY <1>3 DEF Sigterm, StopPosix, Caught, Serving, Alive
<1>4. CASE Kill
    BY <1>4, NotKilled
<1>5. CASE StartStep \/ TermHandler \/ Reply \/ AskToStop \/ StopWindows \/ Tick
    BY <1>5 DEF StartStep, TermHandler, Reply, AskToStop, StopWindows, Tick, Serving, Alive
<1>6. CASE UNCHANGED vars
    BY <1>6 DEF vars, Serving, Alive
<1>7. QED
    BY <1>1, <1>2, <1>3, <1>4, <1>5, <1>6 DEF Next

\* A plugin that serves stops with status 0, asked or signalled.
THEOREM StopsClean == Spec => CleanStop
<1>1. StopInv /\ [Next]_vars
        => [Serving /\ ~Alive' /\ (posix \/ answered \/ zoraxy # "waiting")
              => ended' = "clean"]_vars
    BY StopStepClean
<1>2. QED
    BY <1>1, StopIsConsistent, PTL DEF Spec, CleanStop

\* While the answer is on its way the SDK's timer has not run long enough.
LEMMA TimerWaits == StopInv /\ zoraxy = "asked" => ~TimerFires
BY StopAssumption DEF StopAssumption, StopInv, TypeOK, ClocksAgree, TimerFires, Off

LEMMA AnswerStep ==
    StopInv /\ [Next]_vars => (zoraxy = "asked" /\ ~Alive' => sig # Off)
<1> SUFFICES ASSUME StopInv, [Next]_vars, zoraxy = "asked", ~Alive'
             PROVE  sig # Off
    OBVIOUS
<1>1. Serving
    BY DEF StopInv, ClocksAgree
<1>2. CASE SignalHandler
    BY <1>2 DEF SignalHandler
<1>3. CASE TimerFires
    BY <1>3, TimerWaits
<1>4. CASE Introspect \/ StartFails \/ ListenFails \/ Launch
    BY <1>1, <1>4 DEF Introspect, StartFails, ListenFails, Launch, Serving, Alive
<1>5. CASE Sigterm \/ StopPosix \/ StopWindows \/ Kill
    BY <1>1, <1>5 DEF Sigterm, StopPosix, StopWindows, Kill, Caught, Serving, Alive
<1>6. CASE StartStep \/ TermHandler \/ Reply \/ AskToStop \/ Tick
    BY <1>1, <1>6 DEF StartStep, TermHandler, Reply, AskToStop, Tick, Serving, Alive
<1>7. CASE UNCHANGED vars
    BY <1>1, <1>7 DEF vars, Serving, Alive
<1>8. QED
    BY <1>2, <1>3, <1>4, <1>5, <1>6, <1>7 DEF Next

\* The request to stop is answered before the process goes.
THEOREM StopIsAnswered == Spec => AnsweredFirst
<1>1. StopInv /\ [Next]_vars => [zoraxy = "asked" /\ ~Alive' => sig # Off]_vars
    BY AnswerStep
<1>2. QED
    BY <1>1, StopIsConsistent, PTL DEF Spec, AnsweredFirst
===============================================================================
