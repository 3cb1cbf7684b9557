----------------------------- MODULE ConfigStore -----------------------------
(***************************************************************************)
(* The persisted configuration (ConfigStore, LoadConfig and saveConfig in  *)
(* src/config.go).  Each request of the panel is served by a goroutine of  *)
(* its own: it checks what it can, takes the lock, changes a copy, writes  *)
(* the copy to a temporary file, syncs it, renames it over config.json,    *)
(* syncs the directory and only then makes the copy the store's.  Every    *)
(* step on disk may fail; the process may be killed and the power may fail *)
(* between any two.                                                        *)
(***************************************************************************)
EXTENDS ConfigData

CONSTANTS
    Worker,       \* the goroutines that serve requests
    Boot,         \* main, which saves a default configuration if there is none
    Requests,     \* what the panel may send
    HandWritten,  \* what config.json may hold when the plugin is not running
    NoRequest, Missing, Torn,
    MaxFaults     \* how many steps on disk fail in a behaviour

Saver == Worker \cup {Boot}

ASSUME StoreAssumption ==
    /\ Boot \notin Worker
    /\ NoRequest \notin Requests /\ Requests \subseteq Request
    /\ HandWritten \subseteq RawConfig
    /\ Missing \notin RawConfig /\ Torn \notin RawConfig /\ Missing # Torn
    /\ MaxFaults \in Nat

VARIABLES
    proc,      \* "down", "creating" the first configuration, or "up"
    mem,       \* ConfigStore.cfg; meaningless unless up
    job,       \* job[w]: the request w is serving
    saving,    \* saving[w]: where w is in saveConfig, and what it saves
    path,      \* config.json as it is seen
    durable,   \* config.json as a power failure would leave it
    tmp,       \* config.json.tmp
    faults,
    expected   \* history: the configurations the next start may rightly find

diskVars == <<path, durable, tmp>>
vars == <<proc, mem, job, saving, diskVars, faults, expected>>

File(data, synced) == [data |-> data, synced |-> synced]
NoFile == File(Missing, TRUE)

Idle == [step |-> "none", next |-> DefaultConfig]
Begun(c) == [step |-> "open", next |-> c]

\* The configuration a file stands for.
Meaning(file) ==
    IF file.data \in {Missing, Torn} THEN DefaultConfig ELSE Loaded(file.data)

\* What a file holds after a power failure.
Survivor(file) == IF file.synced THEN file ELSE File(Torn, TRUE)

\* Variant: mutators run without the lock.
NoLock == TRUE

\* The mutex is free: nobody is between Lock and Unlock.
LockFree == \A w \in Saver : saving[w].step = "none"

Fault == faults < MaxFaults /\ faults' = faults + 1

At(w, step) == saving[w].step = step
GoTo(w, step) == saving' = [saving EXCEPT ![w].step = step]
Finish(w) ==
    /\ saving' = [saving EXCEPT ![w] = Idle]
    /\ job' = IF w = Boot THEN job ELSE [job EXCEPT ![w] = NoRequest]

-------------------------------------------------------------------------------
Init ==
    /\ proc = "down" /\ mem = DefaultConfig
    /\ job = [w \in Worker |-> NoRequest]
    /\ saving = [w \in Saver |-> Idle]
    /\ path \in {NoFile} \cup {File(raw, TRUE) : raw \in HandWritten}
    /\ durable = path /\ tmp = NoFile /\ faults = 0
    /\ expected = {Meaning(path)}

\* LoadConfig: a file that does not parse, or whose never-authorise list does
\* not compile, is fatal; a missing one is created.
Start ==
    /\ proc = "down"
    /\ IF path.data = Missing
       THEN /\ proc' = "creating"
            /\ saving' = [saving EXCEPT ![Boot] = Begun(DefaultConfig)]
            /\ UNCHANGED mem
       ELSE /\ path.data # Torn /\ Loadable(path.data)
            /\ proc' = "up" /\ mem' = Loaded(path.data)
            /\ UNCHANGED saving
    /\ UNCHANGED <<job, diskVars, faults, expected>>

\* A handler calls a mutator, which answers an invalid value at once.
Ask(w, req) ==
    /\ proc = "up" /\ job[w] = NoRequest
    /\ Valid(req)
    /\ job' = [job EXCEPT ![w] = req]
    /\ UNCHANGED <<proc, mem, saving, diskVars, faults, expected>>

\* Lock, cloneConfig and the change, or an error.
Change(w) ==
    /\ w \in Worker /\ job[w] # NoRequest /\ At(w, "none") /\ LockFree
    /\ IF Accepts(job[w], mem)
       THEN saving' = [saving EXCEPT ![w] = Begun(Effect(job[w], mem))] /\ UNCHANGED job
       ELSE Finish(w)
    /\ UNCHANGED <<proc, mem, diskVars, faults, expected>>

-------------------------------------------------------------------------------
(* saveConfig.                                                               *)

OpenTmp(w) ==
    /\ At(w, "open") /\ GoTo(w, "write")
    /\ tmp' = File(Torn, FALSE)
    /\ UNCHANGED <<proc, mem, job, path, durable, faults, expected>>

WriteTmp(w) ==
    /\ At(w, "write") /\ GoTo(w, "sync")
    /\ tmp' = File(saving[w].next, FALSE)
    /\ UNCHANGED <<proc, mem, job, path, durable, faults, expected>>

\* Variant: renamed without having been synced.
SkipSync(w) ==
    /\ At(w, "sync") /\ GoTo(w, "rename")
    /\ UNCHANGED <<proc, mem, job, diskVars, faults, expected>>

SyncTmp(w) ==
    /\ At(w, "sync") /\ GoTo(w, "rename")
    /\ tmp' = [tmp EXCEPT !.synced = TRUE]
    /\ UNCHANGED <<proc, mem, job, path, durable, faults, expected>>

RenameTmp(w) ==
    /\ At(w, "rename") /\ GoTo(w, "syncdir")
    /\ path' = tmp /\ tmp' = NoFile
    /\ UNCHANGED <<proc, mem, job, durable, faults, expected>>

\* An error of syncDir is ignored.
SyncDir(w) ==
    /\ At(w, "syncdir") /\ GoTo(w, "commit")
    /\ \/ durable' = path /\ UNCHANGED faults
       \/ Fault /\ UNCHANGED durable
    /\ UNCHANGED <<proc, mem, job, path, tmp, expected>>

\* saveConfig returns nil: the copy becomes the store's and the caller is told.
Commit(w) ==
    /\ At(w, "commit") /\ Finish(w)
    /\ mem' = saving[w].next
    /\ proc' = "up"
    /\ expected' = {saving[w].next} \cup (IF durable = path THEN {} ELSE expected)
    /\ UNCHANGED <<diskVars, faults>>

\* Variant: the clean-up removes config.json.
SaveFailsRemovingPath(w) ==
    /\ saving[w].step \in {"open", "write", "sync", "rename"}
    /\ Fault /\ Finish(w)
    /\ path' = NoFile /\ durable' = NoFile
    /\ proc' = IF w = Boot THEN "down" ELSE proc
    /\ UNCHANGED <<mem, tmp, expected>>

\* Variant: the store takes the copy before the save is known to work.
SaveFailsKeepingCopy(w) ==
    /\ saving[w].step \in {"open", "write", "sync", "rename"}
    /\ Fault /\ Finish(w)
    /\ tmp' \in IF At(w, "open") THEN {tmp} ELSE {tmp, NoFile}
    /\ proc' = IF w = Boot THEN "down" ELSE proc
    /\ mem' = saving[w].next
    /\ UNCHANGED <<path, durable, expected>>

\* An error is returned: the temporary file is removed, if that works, and
\* the store keeps what it had.  For main it is fatal.
SaveFails(w) ==
    /\ saving[w].step \in {"open", "write", "sync", "rename"}
    /\ Fault /\ Finish(w)
    /\ tmp' \in IF At(w, "open") THEN {tmp} ELSE {tmp, NoFile}
    /\ proc' = IF w = Boot THEN "down" ELSE proc
    /\ UNCHANGED <<mem, path, durable, expected>>

SaveStep(w) ==
    \/ OpenTmp(w) \/ WriteTmp(w) \/ SyncTmp(w) \/ RenameTmp(w)
    \/ SyncDir(w) \/ Commit(w) \/ SaveFails(w)

-------------------------------------------------------------------------------
(* The process is stopped, the power fails, the file is edited by hand.      *)

Gone ==
    /\ proc' = "down" /\ mem' = DefaultConfig
    /\ job' = [w \in Worker |-> NoRequest]
    /\ saving' = [w \in Saver |-> Idle]
    /\ expected' = expected \cup {saving[w].next : w \in
                       {v \in Worker : saving[v].step \in {"syncdir", "commit"}}}

Kill ==
    /\ proc # "down"
    /\ Gone
    /\ UNCHANGED <<diskVars, faults>>

PowerFailure ==
    /\ Gone
    /\ path' \in {Survivor(path), Survivor(durable)} /\ durable' = path'
    /\ tmp' \in {Survivor(tmp), NoFile}
    /\ UNCHANGED faults

EditByHand(raw) ==
    /\ proc = "down" /\ path.data # raw
    /\ path' = File(raw, TRUE) /\ durable' = path'
    /\ expected' = {Loaded(raw)}
    /\ UNCHANGED <<proc, mem, job, saving, tmp, faults>>

Next ==
    \/ Start
    \/ \E w \in Worker : (\E req \in Requests : Ask(w, req)) \/ Change(w)
    \/ \E w \in Saver : SaveStep(w)
    \/ Kill \/ PowerFailure
    \/ \E raw \in HandWritten : EditByHand(raw)

Spec == Init /\ [][Next]_vars

-------------------------------------------------------------------------------
(* Correctness.                                                              *)

Step == {"none", "open", "write", "sync", "rename", "syncdir", "commit"}
FileType == [data : RawConfig \cup {Missing, Torn}, synced : BOOLEAN]

TypeOK ==
    /\ proc \in {"down", "creating", "up"}
    /\ mem \in Config
    /\ job \in [Worker -> Requests \cup {NoRequest}]
    /\ saving \in [Saver -> [step : Step, next : Config]]
    /\ path \in FileType /\ durable \in FileType /\ tmp \in FileType
    /\ faults \in 0..MaxFaults
    /\ \A c \in expected : c \in RawConfig

\* config.json is a whole configuration at every moment and after every power
\* failure: a save that is cut off never leaves a part of one, nor none where
\* there was one (the comment on saveConfig).
DiskWhole ==
    /\ path.data # Torn /\ Survivor(path).data # Torn /\ Survivor(durable).data # Torn
    /\ proc = "up" => path.data # Missing

\* While nobody is saving, what the reconcile loop reads is what a restart
\* would load: no request leaves a half-applied change behind, whichever of
\* its steps failed.
MemoryIsFile ==
    proc = "up" /\ LockFree => mem = Loaded(path.data)

\* The running plugin never holds a configuration its loop cannot use: no
\* interval below the floor, no negative window, no list that does not
\* compile, no name twice in a rule.  A name that a file edited by hand lists
\* twice stays so, which LoadConfig does not look for; no such file is among
\* those of the run.
AlwaysUsable ==
    proc = "up" => Usable(mem)

\* A start finds the last change that was confirmed, or one the process died
\* over between its rename and its confirmation; never one that was refused,
\* and never the configuration from before a confirmed change, unless syncing
\* the directory failed.
ConfirmedKept ==
    [][proc # "up" /\ proc' = "up" => mem' \in expected]_vars

\* The store implements an atomic register: no update is lost, none is applied
\* to a stale copy, and a change takes effect when the rename does.
Register == INSTANCE ConfigRegister WITH
    config <- Meaning(path),
    fallback <- Meaning(durable),
    applied <- {w \in Worker : saving[w].step \in {"syncdir", "commit"}}

IsRegister == Register!Spec
===============================================================================
