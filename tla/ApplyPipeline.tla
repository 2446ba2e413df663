---------------------------- MODULE ApplyPipeline ----------------------------
(***************************************************************************)
(* app/xray_manager.py, apply_configuration and what it calls, run by      *)
(* several processes at once: the panel's worker threads, the expiry loop, *)
(* vpnctl and the bootstrap.  They share the accounts database, the REALITY*)
(* key material, the configuration file, the file lock and one Xray        *)
(* process owned by the supervisor.                                        *)
(*                                                                         *)
(* An operation of service.py changes the database, then reads the active  *)
(* accounts, and only then takes the configuration lock: the order of      *)
(* Mutate, Snapshot and Acquire below is the order of the code.            *)
(***************************************************************************)
EXTENDS Naturals, FiniteSets

CONSTANTS
  Proc,        \* processes and threads that run the pipeline
  User,        \* accounts
  NTag,        \* inbounds: 1 = REALITY, 2 = REALITY and the WebSocket backend
  BadKeys,     \* key generations whose rendered config `xray run -test` rejects
  NoProc,      \* the lock is free
  NoConfig,    \* there is no config.json
  Faults,      \* the kinds of disturbance that may happen
  MaxFaults,   \* bound: disturbances in one behaviour, lock timeouts apart
  MaxOps,      \* bound: operations in one behaviour
  MaxUuid,     \* bound: UUIDs an account may go through
  MaxKeys      \* bound: key generations

FaultKinds ==
  { "api",       \* an API call times out or half succeeds
    "invalid",   \* the validator cannot run
    "refuse",    \* the supervisor does not answer a restart command
    "silent",    \* the supervisor does not answer a status request
    "nostart",   \* the Xray binary cannot be executed
    "timeout",   \* the lock is held for longer than its waiters wait
    "crash",     \* Xray dies
    "tool",      \* an operator restarts Xray (dashboard tool, vpnctl restart)
    "abort",     \* a process running the pipeline is killed or raises
    "redeploy" } \* the container is replaced

ASSUME ConstantsOK ==
  /\ NTag \in {1, 2}
  /\ MaxFaults \in Nat /\ MaxOps \in Nat
  /\ MaxUuid \in Nat \ {0} /\ MaxKeys \in Nat \ {0}
  /\ BadKeys \subseteq 2..MaxKeys
  /\ Faults \subseteq FaultKinds
  /\ NoProc \notin Proc

Tag == 1..NTag
\* 0 stands for an account that is not in the list.
UserList == [User -> 0..MaxUuid]
\* Key generation 0: the candidate has its accounts but not its keys yet.
Config == [users : UserList, keys : 0..MaxKeys]
ValidConfig == {c \in Config : c.keys \in (1..MaxKeys) \ BadKeys}
Account == [active : BOOLEAN, uuid : 1..MaxUuid]

ASSUME NoConfigIsNoConfig == NoConfig \notin Config

Nobody == [u \in User |-> 0]

VARIABLES
  db,          \* users table: is_active() and the UUID of each account
  keys,        \* generation of the REALITY keys on disk
  lock,        \* holder of run/apply.lock
  file,        \* config.json
  xr,          \* the Xray process, see XrayState
  live,        \* what the Xray process serves: keys, and accounts per inbound
  container,   \* "booting" until the bootstrap has applied a configuration
  pc,          \* where each process is in the pipeline
  cand,        \* `config`, the candidate
  prev,        \* `previous`, the configuration the candidate replaces
  cur,         \* `current`, the accounts listed from the inbound at hand
  tag,         \* the inbound at hand
  mode,        \* "forced": force_restart; "rollback": restarting `previous`
  report,      \* outcome of the last apply that ended, see Outcome
  ops, faults  \* operations and disturbances so far

\* dead: could not be executed, nothing retries; down: will be started;
\* starting: executed; loaded: has read config.json; up: accepts connections.
XrayState == {"dead", "down", "starting", "loaded", "up"}
Running == {"starting", "loaded", "up"}
Serving == {"loaded", "up"}

\* written: only the file, Xray was taken to be down (method "written"); ok: Xray was
\* synchronised or restarted (methods "api" and "restart").
Outcome == {"none", "ok", "written", "failed", "interrupted"}
Success == {"ok", "written"}

BeforeLock == {"idle", "snapshot", "acquire"}
Unwritten == {"render", "validate", "write"}
Syncing == {"list", "remove", "add"}
Restarting == {"restart", "health", "rollback"}
Written == {"status"} \union Syncing \union Restarting
Locked == Unwritten \union Written

data == <<db, keys>>
xray == <<xr, live>>
job == <<pc, cand, prev, cur, tag, mode>>
outer == <<container, report>>
budget == <<ops, faults>>
vars == <<data, lock, file, xray, job, outer, budget>>

TypeOK ==
  /\ db \in [User -> Account]
  /\ keys \in 1..MaxKeys
  /\ lock \in Proc \union {NoProc}
  /\ file \in Config \union {NoConfig}
  /\ xr \in XrayState
  /\ live \in [keys : 0..MaxKeys, users : [Tag -> UserList]]
  /\ container \in {"booting", "serving"}
  /\ pc \in [Proc -> BeforeLock \union Locked]
  /\ cand \in [Proc -> Config \union {NoConfig}]
  /\ prev \in [Proc -> Config \union {NoConfig}]
  /\ cur \in [Proc -> UserList]
  /\ tag \in [Proc -> Tag]
  /\ mode \in [Proc -> {"normal", "forced", "rollback"}]
  /\ report \in Outcome
  /\ ops \in 0..MaxOps
  /\ faults \in 0..MaxFaults

ActiveUsers == [u \in User |-> IF db[u].active THEN db[u].uuid ELSE 0]

NothingLive == [keys |-> 0, users |-> [t \in Tag |-> Nobody]]

Init ==
  /\ db \in [User -> [active : BOOLEAN, uuid : {1}]]
  /\ keys = 1
  /\ lock = NoProc
  /\ file = NoConfig
  /\ xr = "down" /\ live = NothingLive
  /\ container = "booting"
  /\ pc = [p \in Proc |-> "idle"]
  /\ cand = [p \in Proc |-> NoConfig]
  /\ prev = [p \in Proc |-> NoConfig]
  /\ cur = [p \in Proc |-> Nobody]
  /\ tag = [p \in Proc |-> 1]
  /\ mode = [p \in Proc |-> "normal"]
  /\ report = "none"
  /\ ops = 0 /\ faults = 0

Operation == ops < MaxOps /\ ops' = ops + 1

Fault(kind) == kind \in Faults /\ faults < MaxFaults /\ faults' = faults + 1

------------------------------------------------------------------------------
(* Operations: what service.py, vpnctl and the bootstrap do before applying *)

Goto(p, label) == pc' = [pc EXCEPT ![p] = label]

BeginOperation(p) ==
  /\ container = "serving"
  /\ pc[p] = "idle"
  /\ Operation
  /\ Goto(p, "snapshot")

\* create, delete, enable, disable, renew, and the sweep of an expired account
SetActive(p, u, active) ==
  /\ BeginOperation(p)
  /\ db' = [db EXCEPT ![u].active = active]
  /\ UNCHANGED <<keys, lock, file, xray, cand, prev, cur, tag, mode, outer, faults>>

RegenerateUuid(p, u) ==
  /\ BeginOperation(p)
  /\ db[u].uuid < MaxUuid
  /\ db' = [db EXCEPT ![u].uuid = @ + 1]
  /\ UNCHANGED <<keys, lock, file, xray, cand, prev, cur, tag, mode, outer, faults>>

\* vpnctl resync [--restart], the dashboard's resync tool, vpnctl restore's sync
Resync(p, forced) ==
  /\ BeginOperation(p)
  /\ mode' = [mode EXCEPT ![p] = IF forced THEN "forced" ELSE "normal"]
  /\ UNCHANGED <<data, lock, file, xray, cand, prev, cur, tag, outer, faults>>

\* generate-reality-keys.sh --rotate: new keys on disk, no apply of its own
RotateKeys ==
  /\ Operation
  /\ keys < MaxKeys
  /\ keys' = keys + 1
  /\ UNCHANGED <<db, lock, file, xray, job, outer, faults>>

Bootstrap(p) ==
  /\ container = "booting"
  /\ \A q \in Proc : pc[q] = "idle"
  /\ Goto(p, "snapshot")
  /\ UNCHANGED <<data, lock, file, xray, cand, prev, cur, tag, mode, outer, budget>>

------------------------------------------------------------------------------
(* The pipeline *)

\* p leaves the pipeline and its local variables are gone.
Forget(p) ==
  /\ Goto(p, "idle")
  /\ cand' = [cand EXCEPT ![p] = NoConfig]
  /\ prev' = [prev EXCEPT ![p] = NoConfig]
  /\ cur' = [cur EXCEPT ![p] = Nobody]
  /\ tag' = [tag EXCEPT ![p] = 1]
  /\ mode' = [mode EXCEPT ![p] = "normal"]

\* apply_configuration returns; a bootstrap that succeeded opens the service.
Finish(p, outcome) ==
  /\ Forget(p)
  /\ lock' = NoProc
  /\ report' = outcome
  /\ container' = IF outcome \in Success THEN "serving" ELSE container

\* active_users() is evaluated by the caller, before the lock is taken.
Snapshot(p) ==
  /\ pc[p] = "snapshot"
  /\ cand' = [cand EXCEPT ![p] = [users |-> ActiveUsers, keys |-> 0]]
  /\ Goto(p, "acquire")
  /\ UNCHANGED <<data, lock, file, xray, prev, cur, tag, mode, outer, budget>>

\* Mutant: the lock is opened but never waited for.
AcquireWithoutWaiting(p) ==
  /\ pc[p] = "acquire"
  /\ lock' = p
  /\ Goto(p, "render")
  /\ UNCHANGED <<data, file, xray, cand, prev, cur, tag, mode, outer, budget>>

Acquire(p) ==
  /\ pc[p] = "acquire"
  /\ lock = NoProc
  /\ lock' = p
  /\ Goto(p, "render")
  /\ UNCHANGED <<data, file, xray, cand, prev, cur, tag, mode, outer, budget>>

\* 30 seconds of polling: XrayError, with the database change already made.
LockTimeout(p) ==
  /\ "timeout" \in Faults
  /\ pc[p] = "acquire"
  /\ lock # NoProc
  /\ Forget(p)
  /\ UNCHANGED <<data, lock, file, xray, outer, budget>>

Render(p) ==
  /\ pc[p] = "render"
  /\ cand' = [cand EXCEPT ![p].keys = keys]
  /\ Goto(p, "validate")
  /\ UNCHANGED <<data, lock, file, xray, prev, cur, tag, mode, outer, budget>>

\* Mutant: the exit code of the validator is ignored.
AcceptedAlways(p) == TRUE

\* What `xray run -test` says of the candidate.
Accepted(p) == cand[p].keys \notin BadKeys

\* validate_config, then read_active_config for `previous`.
Validate(p) ==
  /\ pc[p] = "validate"
  /\ \/ /\ Accepted(p)
        /\ prev' = [prev EXCEPT ![p] = file]
        /\ Goto(p, "write")
        /\ UNCHANGED <<lock, cand, cur, tag, mode, outer, faults>>
     \/ /\ ~Accepted(p)
        /\ Finish(p, "failed")
        /\ UNCHANGED faults
     \/ /\ Fault("invalid")
        /\ Finish(p, "failed")
  /\ UNCHANGED <<data, file, xray, ops>>

Write(p) ==
  /\ pc[p] = "write"
  /\ file' = cand[p]
  /\ Goto(p, "status")
  /\ UNCHANGED <<data, lock, xray, cand, prev, cur, tag, mode, outer, budget>>

\* Mutant: the signature leaves the keys out.
StructuralWithoutKeys(p) == prev[p] = NoConfig

\* structural_signature: everything but the client lists.
Structural(p) == prev[p] = NoConfig \/ prev[p].keys # cand[p].keys

\* xray_status: the supervisor's view, or the port probe when it is silent.
Status(p) ==
  /\ pc[p] = "status"
  /\ \E running \in BOOLEAN :
       /\ \/ running = (xr \in Running) /\ UNCHANGED faults
          \/ running = (xr = "up") /\ Fault("silent")
       /\ IF running
            THEN /\ Goto(p, IF Structural(p) \/ mode[p] = "forced"
                              THEN "restart" ELSE "list")
                 /\ UNCHANGED <<lock, cand, prev, cur, tag, mode, outer>>
            ELSE Finish(p, "written")
  /\ UNCHANGED <<data, file, xray, ops>>

------------------------------------------------------------------------------
(* sync_users_via_api: list, remove, add, one inbound after the other.      *)
(* Every failure falls through to a restart.                                *)

\* Mutant: the accounts to remove and to add are found by comparing two files.
ListedFromFile(p) == prev[p].users

\* `xray api inbounduser`: the accounts the inbound at hand really has.
Listed(p) == live.users[tag[p]]

List(p) ==
  /\ pc[p] = "list"
  /\ \/ /\ xr = "up"
        /\ cur' = [cur EXCEPT ![p] = Listed(p)]
        /\ Goto(p, "remove")
        /\ UNCHANGED faults
     \/ /\ xr # "up" /\ UNCHANGED faults
        /\ Goto(p, "restart") /\ UNCHANGED cur
     \/ /\ Fault("api")
        /\ Goto(p, "restart") /\ UNCHANGED cur
  /\ UNCHANGED <<data, lock, file, xray, cand, prev, tag, mode, outer, ops>>

\* Mutant: an account whose UUID changed is not removed first.
StaleOnlyGone(p) == {u \in User : cur[p][u] # 0 /\ cand[p].users[u] = 0}

Stale(p) == {u \in User : cur[p][u] # 0 /\ cur[p][u] # cand[p].users[u]}

\* Mutant: `remaining` is computed from all listed accounts, stale ones included.
AdditionsOnlyNew(p) == {u \in User : cand[p].users[u] # 0 /\ cur[p][u] = 0}

Additions(p) == {u \in User : cand[p].users[u] # 0 /\ cur[p][u] # cand[p].users[u]}

SetLive(t, users) == live' = [live EXCEPT !.users[t] = users]

Without(list, gone) == [u \in User |-> IF u \in gone THEN 0 ELSE list[u]]

\* `xray api rmu` reports how many it removed; fewer than asked is a failure.
Remove(p) ==
  LET listed == live.users[tag[p]]
      present == {u \in Stale(p) : listed[u] # 0}
  IN /\ pc[p] = "remove"
     /\ \/ /\ Stale(p) = {}
           /\ Goto(p, "add")
           /\ UNCHANGED <<live, faults>>
        \/ /\ Stale(p) # {} /\ xr = "up"
           /\ SetLive(tag[p], Without(listed, present))
           /\ Goto(p, IF present = Stale(p) THEN "add" ELSE "restart")
           /\ UNCHANGED faults
        \/ /\ Stale(p) # {} /\ xr # "up"
           /\ Goto(p, "restart")
           /\ UNCHANGED <<live, faults>>
        \/ /\ Stale(p) # {} /\ xr = "up" /\ Fault("api")
           /\ \E gone \in SUBSET present : SetLive(tag[p], Without(listed, gone))
           /\ Goto(p, "restart")
     /\ UNCHANGED <<data, lock, file, xr, cand, prev, cur, tag, mode, outer, ops>>

\* The next inbound, or success.
NextTag(p) ==
  IF tag[p] < NTag
    THEN /\ Goto(p, "list")
         /\ tag' = [tag EXCEPT ![p] = @ + 1]
         /\ cur' = [cur EXCEPT ![p] = Nobody]
         /\ UNCHANGED <<lock, cand, prev, mode, outer>>
    ELSE Finish(p, "ok")

\* `xray api adu` refuses an account the inbound already has.
Add(p) ==
  LET listed == live.users[tag[p]]
      absent == {u \in Additions(p) : listed[u] = 0}
      with(new) == [u \in User |-> IF u \in new THEN cand[p].users[u] ELSE listed[u]]
      fail == /\ Goto(p, "restart")
              /\ UNCHANGED <<lock, cand, prev, cur, tag, mode, outer>>
  IN /\ pc[p] = "add"
     /\ \/ /\ Additions(p) = {}
           /\ NextTag(p)
           /\ UNCHANGED <<live, faults>>
        \/ /\ Additions(p) # {} /\ xr = "up"
           /\ SetLive(tag[p], with(absent))
           /\ IF absent = Additions(p) THEN NextTag(p) ELSE fail
           /\ UNCHANGED faults
        \/ /\ Additions(p) # {} /\ xr # "up"
           /\ fail
           /\ UNCHANGED <<live, faults>>
        \/ /\ Additions(p) # {} /\ xr = "up" /\ Fault("api")
           /\ \E new \in SUBSET absent : SetLive(tag[p], with(new))
           /\ fail
     /\ UNCHANGED <<data, file, xr, ops>>

------------------------------------------------------------------------------
(* Restart, health check, rollback *)

\* Mutants: a failed restart is only reported; it is retried without limit.
RestartFailedReportsOnly(p) == Finish(p, "failed")

RestartFailedForEver(p) ==
  /\ Goto(p, "rollback")
  /\ UNCHANGED <<lock, cand, prev, cur, tag, mode, outer>>

RestartFailed(p) ==
  IF mode[p] # "rollback" /\ prev[p] # NoConfig
    THEN /\ Goto(p, "rollback")
         /\ UNCHANGED <<lock, cand, prev, cur, tag, mode, outer>>
    ELSE Finish(p, "failed")

\* The supervisor stops Xray and starts it again, or the command fails.
RestartXray(p) ==
  /\ pc[p] = "restart"
  /\ \/ /\ xr' = "starting" /\ live' = NothingLive
        /\ Goto(p, "health")
        /\ UNCHANGED <<lock, cand, prev, cur, tag, mode, outer, faults>>
     \/ /\ Fault("nostart")
        /\ xr' = "dead" /\ live' = NothingLive
        /\ RestartFailed(p)
     \/ /\ Fault("refuse")
        /\ UNCHANGED xray
        /\ RestartFailed(p)
  /\ UNCHANGED <<data, file, ops>>

\* wait_until_healthy: the port answers, or it does not for 25 seconds.
Health(p) ==
  /\ pc[p] = "health"
  /\ IF xr = "up"
       THEN Finish(p, IF mode[p] = "rollback" THEN "failed" ELSE "ok")
       ELSE RestartFailed(p)
  /\ UNCHANGED <<data, file, xray, budget>>

\* Mutant: the previous file is put back but Xray is not restarted on it.
RollbackWithoutRestart(p) ==
  /\ pc[p] = "rollback"
  /\ file' = prev[p]
  /\ Finish(p, "failed")
  /\ UNCHANGED <<data, xray, budget>>

Rollback(p) ==
  /\ pc[p] = "rollback"
  /\ file' = prev[p]
  /\ mode' = [mode EXCEPT ![p] = "rollback"]
  /\ Goto(p, "restart")
  /\ UNCHANGED <<data, lock, xray, cand, prev, cur, tag, outer, budget>>

------------------------------------------------------------------------------
(* Xray, the supervisor and the container *)

\* Xray reads config.json once, when it starts; without a usable one it exits.
XrayLoad ==
  /\ xr = "starting"
  /\ IF file \in ValidConfig
       THEN /\ xr' = "loaded"
            /\ live' = [keys |-> file.keys, users |-> [t \in Tag |-> file.users]]
       ELSE xr' = "down" /\ UNCHANGED live
  /\ UNCHANGED <<data, lock, file, job, outer, budget>>

XrayListen ==
  /\ xr = "loaded"
  /\ xr' = "up"
  /\ UNCHANGED <<data, lock, file, live, job, outer, budget>>

XrayCrash ==
  /\ Fault("crash")
  /\ xr \in Running
  /\ xr' = "down" /\ live' = NothingLive
  /\ UNCHANGED <<data, lock, file, job, outer, ops>>

\* The supervisor's main loop starts what it wants running.
SupervisorStart ==
  /\ container = "serving"
  /\ xr = "down"
  /\ \/ xr' = "starting" /\ UNCHANGED faults
     \/ xr' = "dead" /\ Fault("nostart")
  /\ UNCHANGED <<data, lock, file, live, job, outer, ops>>

\* restart_xray from the dashboard or vpnctl restart: it takes no lock.
ToolRestart ==
  /\ container = "serving"
  /\ Fault("tool")
  /\ xr' = "starting" /\ live' = NothingLive
  /\ UNCHANGED <<data, lock, file, job, outer, ops>>

\* p is killed or an exception leaves the pipeline; the lock goes with it.
Abort(p) ==
  /\ Fault("abort")
  /\ pc[p] # "idle"
  /\ Forget(p)
  /\ IF lock = p THEN lock' = NoProc /\ report' = "interrupted"
                 ELSE UNCHANGED <<lock, report>>
  /\ UNCHANGED <<data, file, xray, container, ops>>

Redeploy ==
  /\ Fault("redeploy")
  /\ container' = "booting"
  /\ lock' = NoProc
  /\ xr' = "down" /\ live' = NothingLive
  /\ pc' = [p \in Proc |-> "idle"]
  /\ cand' = [p \in Proc |-> NoConfig]
  /\ prev' = [p \in Proc |-> NoConfig]
  /\ cur' = [p \in Proc |-> Nobody]
  /\ tag' = [p \in Proc |-> 1]
  /\ mode' = [p \in Proc |-> "normal"]
  /\ report' = "none"
  /\ UNCHANGED <<data, file, ops>>

------------------------------------------------------------------------------
Operations(p) ==
  \/ \E u \in User, active \in BOOLEAN : SetActive(p, u, active)
  \/ \E u \in User : RegenerateUuid(p, u)
  \/ \E forced \in BOOLEAN : Resync(p, forced)

Pipeline(p) ==
  \/ Snapshot(p) \/ Acquire(p) \/ LockTimeout(p)
  \/ Render(p) \/ Validate(p) \/ Write(p) \/ Status(p)
  \/ List(p) \/ Remove(p) \/ Add(p)
  \/ RestartXray(p) \/ Health(p) \/ Rollback(p)

Environment == XrayCrash \/ ToolRestart \/ Redeploy

Next ==
  \/ \E p \in Proc : Operations(p) \/ Bootstrap(p) \/ Pipeline(p) \/ Abort(p)
  \/ RotateKeys
  \/ XrayLoad \/ XrayListen \/ SupervisorStart
  \/ Environment

Spec == Init /\ [][Next]_vars

(***************************************************************************)
(* The pipeline is straight-line code with a time limit on every wait, the *)
(* supervisor loops for ever, and Xray starts when it is executed.         *)
(***************************************************************************)
Fairness ==
  /\ \A p \in Proc : WF_vars(Pipeline(p))
  /\ WF_vars(\E p \in Proc : Bootstrap(p))
  /\ WF_vars(XrayLoad) /\ WF_vars(XrayListen) /\ WF_vars(SupervisorStart)

FairSpec == Spec /\ Fairness

------------------------------------------------------------------------------
(* Properties *)

\* config_lock: at any time at most one process is between taking the lock and
\* returning, and it is the one the lock names.
OneApplyAtATime == \A p \in Proc : pc[p] \in Locked <=> lock = p

\* "A configuration is never activated before xray run -test accepts it": the
\* file Xray starts from is never one the validator would reject, rollbacks,
\* kills and redeploys included.
FileIsValid == file \in ValidConfig \union {NoConfig}

LiveAccountsMatchFile == \A t \in Tag : live.users[t] = file.users

LiveMatchesFile == live.keys = file.keys /\ LiveAccountsMatchFile

\* When apply_configuration has said ok and nobody is applying, an Xray that has
\* loaded its configuration serves exactly what config.json says: the same keys
\* and, on every inbound, the same accounts, whichever of the three ways of
\* succeeding (written, api, restart) was taken and whoever restarted meanwhile.
OkMeansLive ==
  (lock = NoProc /\ report \in Success /\ xr \in Serving) => LiveMatchesFile

\* An apply that synchronised or restarted Xray leaves it with exactly the accounts
\* of the file on every inbound, and so it stays, whatever went wrong before and
\* goes wrong after: appliers killed in the middle of a sync or before their restart,
\* API calls that half succeed, status requests that fail, restarts without the lock.
OkMeansAccountsLive ==
  (lock = NoProc /\ report = "ok" /\ xr \in Serving) => LiveAccountsMatchFile

\* "A restart happens only when the structure of the config changed": as long as
\* nothing fails, the account sync against an Xray that is up never has to fall
\* back to a restart, however its inbounds differed from the candidate.
SyncNeedsNoRestart ==
  [][\A p \in Proc :
       (pc[p] \in Syncing /\ pc'[p] = "restart") => (xr # "up" \/ faults' > 0)]_vars

\* The process between Write and the end of its apply has a proposal pending; the
\* configuration it will put back if it fails is still the one in force.
Writing == lock # NoProc /\ pc[lock] \in Written
Committed == IF Writing THEN prev[lock] ELSE file
Pending == IF Writing THEN cand[lock] ELSE NoConfig

Store == INSTANCE ConfigStore WITH
  Valid <- ValidConfig, NoConfig <- NoConfig,
  committed <- Committed, pending <- Pending,
  outcome <- IF report = "written" THEN "ok" ELSE report

\* A failed apply never changes which configuration is in force, one that says ok
\* always does, a killed one does either, and appliers do not overwrite each other.
ImplementsStore == Store!StoreSpec

\* Every operation ends: nobody holds the lock, or waits for it, for ever.
OperationsEnd == \A p \in Proc : pc[p] # "idle" ~> pc[p] = "idle"

\* Once operations and disturbances have stopped, Xray comes up and serves what
\* config.json says, also after operations that failed.
Converges == <>[](xr = "up" /\ LiveMatchesFile)

\* README: "Account still connects after being disabled: It should not", and
\* vpnctl: panel and CLI "can never disagree".  When all operations have ended,
\* the last one with ok, the file holds the accounts the database says are active.
FileMatchesDatabase ==
  (report \in Success /\ \A p \in Proc : pc[p] = "idle") => file.users = ActiveUsers

------------------------------------------------------------------------------
(* The inductive invariant behind the properties, in named parts.           *)
(* ApplyPipelineProofs proves that each part is preserved; the runs check it.*)

\* What a process carries: a candidate, from the snapshot on, with keys once it is
\* rendered; a valid one, and the configuration it replaces, when it may write.
CandidateInv ==
  \A p \in Proc :
    /\ pc[p] \in {"acquire"} \union Locked => cand[p] # NoConfig
    /\ pc[p] = "validate" => cand[p].keys # 0
    /\ pc[p] \in BeforeLock \union Unwritten \union {"status"} => tag[p] = 1
    /\ pc[p] \in {"write"} \union Written =>
         cand[p] \in ValidConfig /\ prev[p] \in ValidConfig \union {NoConfig}

\* The file is the candidate of the process that wrote it until it rolls back.
WriterInv ==
  \A p \in Proc :
    /\ pc[p] = "write" => file = prev[p]
    /\ pc[p] \in Written => file = IF mode[p] = "rollback" THEN prev[p] ELSE cand[p]
    /\ mode[p] = "rollback" => pc[p] \in {"restart", "health"} /\ prev[p] # NoConfig

\* Before the first configuration is written Xray is not started, so a process
\* that may have to roll back always has something to roll back to.
BootInv ==
  /\ container = "booting" => xr = "down"
  /\ file = NoConfig => container = "booting"
  /\ \A p \in Proc :
       /\ pc[p] \in {"write"} \union Written /\ prev[p] = NoConfig => container = "booting"
       /\ pc[p] \in Syncing \union Restarting => container = "serving"

\* Keys only move forward: file, candidate, disk.
KeyOrderInv ==
  /\ file # NoConfig => file.keys <= keys
  /\ \A p \in Proc :
       /\ pc[p] \in {"validate", "write"} \union Written => cand[p].keys <= keys
       /\ pc[p] = "validate" /\ file # NoConfig => file.keys <= cand[p].keys
       /\ pc[p] \in {"write"} \union Written /\ prev[p] # NoConfig =>
            prev[p].keys <= cand[p].keys
       /\ pc[p] \in Syncing => prev[p].keys = cand[p].keys

\* The keys Xray serves lie between those of the configuration in force and those
\* of the next candidate: equal ones at both ends leave nothing to restart for.
\* A process killed between Write and RestartXray breaks this.
LiveKeysInv ==
  xr \in Serving =>
    /\ live.keys <= keys
    /\ \A p \in Proc :
         /\ pc[p] \in {"validate", "write"} \union Written /\ mode[p] # "rollback" =>
              live.keys <= cand[p].keys
         /\ pc[p] \in Written /\ prev[p] # NoConfig => prev[p].keys <= live.keys
    /\ (\A p \in Proc : pc[p] \notin Written) => file.keys <= live.keys

\* Where the account sync stands: inbounds already done match the candidate; the
\* one at hand holds, account by account, what was listed or what is wanted,
\* whether or not Xray was restarted in between.
SyncedSoFar(p) ==
  /\ pc[p] \in Syncing =>
       \A t \in Tag : t < tag[p] => live.users[t] = cand[p].users
  /\ pc[p] = "remove" =>
       \A u \in User : live.users[tag[p]][u] \in {cur[p][u], cand[p].users[u]}
  /\ pc[p] = "add" =>
       \A u \in User :
         \/ live.users[tag[p]][u] = cand[p].users[u]
         \/ u \in Additions(p) /\ live.users[tag[p]][u] = 0

SyncInv == xr \in Serving => \A p \in Proc : SyncedSoFar(p)

\* Between the restart and the verdict Xray can only have loaded the new file.
HealthInv ==
  xr \in Serving => \A p \in Proc : pc[p] = "health" => LiveMatchesFile

\* As long as nothing has gone wrong, Xray stays up under a sync, and holds what was
\* listed until the removal, and none of the accounts to add after it.
QuietSyncInv ==
  faults = 0 => \A p \in Proc :
    /\ pc[p] = "remove" => xr = "up" /\ live.users[tag[p]] = cur[p]
    /\ pc[p] = "add" =>
         xr = "up" /\ \A u \in Additions(p) : live.users[tag[p]][u] = 0

\* These two are preserved whatever goes wrong.
StoreInv ==
  /\ TypeOK /\ OneApplyAtATime /\ FileIsValid
  /\ CandidateInv /\ WriterInv /\ BootInv /\ KeyOrderInv

AccountsInv == StoreInv /\ SyncInv /\ HealthInv /\ QuietSyncInv /\ OkMeansAccountsLive

\* Preserved as long as the supervisor answers status requests and no process is
\* killed while it applies.
LiveInv == AccountsInv /\ LiveKeysInv /\ OkMeansLive
==============================================================================
