---------------------------- MODULE ConfigRegister ----------------------------
(***************************************************************************)
(* What the config store promises: one configuration, changed atomically   *)
(* by one request at a time.  A request that is confirmed took effect once *)
(* and on the configuration as the requests before it left it; one that is *)
(* refused took no effect; one cut off by a stop did or did not.  The      *)
(* latest changes may still be lost with the power until they are settled. *)
(***************************************************************************)
EXTENDS ConfigData

CONSTANTS Worker, Requests, NoRequest

VARIABLES
    config,    \* the configuration
    fallback,  \* the one a power failure may bring back
    job,       \* job[w]: the request w is serving
    applied    \* workers whose request has taken effect

vars == <<config, fallback, job, applied>>

Init ==
    /\ fallback = config
    /\ job = [w \in Worker |-> NoRequest] /\ applied = {}

Ask(w, req) ==
    /\ job[w] = NoRequest
    /\ job' = [job EXCEPT ![w] = req]
    /\ UNCHANGED <<config, fallback, applied>>

Apply(w) ==
    /\ job[w] # NoRequest /\ w \notin applied
    /\ Valid(job[w]) /\ Accepts(job[w], config)
    /\ config' = Effect(job[w], config)
    /\ applied' = applied \cup {w}
    /\ UNCHANGED <<fallback, job>>

\* An answer: a confirmation if the request was applied, else a refusal.
Reply(w) ==
    /\ job[w] # NoRequest
    /\ job' = [job EXCEPT ![w] = NoRequest]
    /\ applied' = applied \ {w}
    /\ UNCHANGED <<config, fallback>>

Settle ==
    /\ fallback' = config
    /\ UNCHANGED <<config, job, applied>>

Stop ==
    /\ job' = [w \in Worker |-> NoRequest] /\ applied' = {}
    /\ config' \in {config, fallback}
    /\ fallback' \in {fallback, config'}

\* The file is replaced by hand while the plugin is stopped.
Replace ==
    /\ job = [w \in Worker |-> NoRequest] /\ applied = {}
    /\ fallback' = config'
    /\ UNCHANGED <<job, applied>>

Next ==
    \/ \E w \in Worker : \/ \E req \in Requests : Ask(w, req)
                         \/ Apply(w) \/ Reply(w)
    \/ Settle \/ Stop \/ Replace

Spec == Init /\ [][Next]_vars
===============================================================================
