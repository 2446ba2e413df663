------------------------------- MODULE Links --------------------------------
(***************************************************************************)
(* Do the links an administrator hands out connect, and go on doing so?    *)
(* What a link says comes from the environment of the container, from the  *)
(* key files and from the stored path; whether it connects depends on what *)
(* Xray was last started with, on the path the panel's gateway read when   *)
(* it started, and on the platform's proxy. Deployments, crashes of the    *)
(* panel, rotations and restores change these one at a time.               *)
(*                                                                         *)
(* An apply is one step here, unless it is killed (ApplyPipeline has its   *)
(* steps), as are a backup, a rotation and a restore (Volume).             *)
(* ensure_ws_path looks first and stores later.                            *)
(***************************************************************************)
EXTENDS Credentials, FiniteSets

CONSTANTS
  Client,         \* requests of the panel and vpnctl commands
  Environments,   \* the environments a deployment may come with
  MaxDeploys, MaxOps, MaxFaults, MaxPath, MaxKeys, MaxProxy   \* bounds of the model

ASSUME LinksConstants ==
  /\ "container" \notin Client
  /\ {MaxDeploys, MaxOps, MaxFaults, MaxPath, MaxKeys, MaxProxy} \subseteq Nat
  /\ MaxProxy < 65536 /\ MaxPath > 0

\* Paths the code generates, each unlike the others and unlike any override.
Generated(n) == <<Slash, 100 + n>>

\* A URL ends at a Query; what is escaped in it is decoded by the server, before the
\* router compares.
Cut(url) ==
  LET end == SelectInSeq(url, LAMBDA c : c = Query)
  IN IF end = 0 THEN url ELSE SubSeq(url, 1, end - 1)

Decoded(url) == [i \in DOMAIN url |-> IF url[i] \in Escape THEN Unescaped(url[i]) ELSE url[i]]

\* StaticFiles is mounted before the gateway's route, for WebSockets too.
Mounted(route) == Len(route) >= 3 /\ SubSeq(route, 1, 3) = <<Slash, Static, Slash>>

\* websocket_gateway: the path of the request, to be compared with the one in memory
\* (Admitted). There is none if another route takes the request.
Requested(url) ==
  LET route == Decoded(Cut(url))
      rest == SelectInSeq(route, LAMBDA c : c # Slash)
  IN IF Mounted(route) THEN NoPath
     ELSE <<Slash>> \o (IF rest = 0 THEN NoPath ELSE SubSeq(route, rest, Len(route)))

\* A path that means the same in a link, in a URL and in the gateway: no white space at
\* its end (a link drops it), nothing a URL gives a meaning to, and not under /static.
Plain(p) ==
  /\ Last(p) # Blank /\ ~Mounted(p)
  /\ \A i \in DOMAIN p : p[i] # Query /\ p[i] \notin Escape

\* The operator's assumption on WS_FALLBACK_PATH: nothing in the code checks it.
ASSUME PlainOverrides ==
  \A e \in Environments :
    /\ e.override \in Seq(Nat)
    /\ Settings(e).override # NoPath => Plain(Settings(e).override)

VARIABLES
  env,        \* the environment of the latest deployment
  rail,       \* Railway's variables as that deployment saw them
  proxy,      \* the TCP proxy the platform has now, 0 for none
  phase,      \* "off", "boot" (the bootstrap runs), "on"
  path,       \* the path in the settings table
  keys,       \* the generation in the key files, 0 before the first boot
  newest,     \* the latest generation made
  made,       \* how many paths were generated
  xr,         \* what Xray was started with; nothing if its keys are 0
  file,       \* the same of config.json
  panel,      \* whether the panel is up
  gate,       \* the path in the panel's memory
  archive,    \* what backups hold: the latest, if any
  task,       \* what the container and each client are doing
  promised,   \* links handed out that by the documentation still connect
  unapplied,  \* other keys were put on disk and no apply has succeeded since
  behind,     \* the panel has failed to read the path, or a restore has changed it since
  mishaps,    \* what has gone wrong and is not over: see Mishaps
  deploys, ops, faults

disk == <<path, keys, newest, made>>
world == <<env, rail, proxy, phase, deploys>>
xray == <<xr, file>>
record == <<promised, unapplied, behind, mishaps>>
gateway == <<panel, gate>>
vars == <<disk, world, xray, gateway, archive, task, record, ops, faults>>

Proc == Client \cup {"container"}

Idle == [job |-> "none", at |-> "none", got |-> NoPath, keys |-> 0]
Job(job, at) == [job |-> job, at |-> at, got |-> NoPath, keys |-> keys]

Applies == {"boot", "configure", "apply", "restore"}

\* torn: an apply was killed between the writing of config.json and the restart of Xray,
\*   which has not been restarted since. lost: a restore has left the settings table
\*   without a path, in this deployment. raced: one process has stored a path over
\*   another's.
Mishaps == {"torn", "lost", "raced"}

\* The operator's assumption of Volume: a restore is begun while nothing else is under
\* way, a rotation while nothing applies.
Applying == \E p \in Proc : task[p].job \in Applies

Now == Settings(env)
Nothing == [keys |-> 0, sni |-> Unset, ws |-> FALSE]
Served == [keys |-> keys, sni |-> Now.sni, ws |-> Now.fallback]

Unhurt(l, e) ==
  CASE l.kind = "reality" -> l.sni = Settings(e).sni
    [] OTHER -> /\ e.fallback /\ l.host = e.domain
                /\ Settings(e).override = Now.override

\* The volume is empty. There may be a backup of an earlier one.
Init ==
  /\ env \in Environments /\ rail = RailwayInfo(Unset, 0) /\ proxy = 0 /\ phase = "off"
  /\ path = NoPath /\ keys = 0
  /\ xr = Nothing /\ file = Nothing /\ panel = FALSE /\ gate = NoPath
  /\ \/ archive = {} /\ newest = 0 /\ made = 0
     \/ archive = {[path |-> Generated(1), keys |-> 1]} /\ newest = 1 /\ made = 1
  /\ task = [p \in Proc |-> Idle]
  /\ promised = {} /\ unapplied = FALSE /\ behind = FALSE /\ mishaps = {}
  /\ deploys = 0 /\ ops = 0 /\ faults = 0
-----------------------------------------------------------------------------
(* The container. *)

\* A deployment, or a restart of the container (e = env): everything that ran is gone.
\* What that leaves of an apply under way does not matter: with Xray down, the next one
\* writes config.json whatever it holds.
Deploy(e) ==
  /\ deploys < MaxDeploys /\ deploys' = deploys + 1
  /\ env' = e /\ rail' = RailwayInfo(e.domain, proxy)
  /\ xr' = Nothing /\ panel' = FALSE /\ gate' = NoPath
  /\ IF Refused(e)
       THEN phase' = "off" /\ task' = [p \in Proc |-> Idle] /\ UNCHANGED <<keys, newest>>
       ELSE /\ phase' = "boot"
            /\ keys' = IF keys = 0 THEN newest + 1 ELSE keys
            /\ newest' = IF keys = 0 THEN newest + 1 ELSE newest
            /\ task' = [[p \in Proc |-> Idle] EXCEPT !["container"] = Job("boot", "look")]
  /\ promised' = {l \in promised : Unhurt(l, e)}
  /\ mishaps' = mishaps \cap {"raced"}
  /\ UNCHANGED <<path, made, file, proxy, archive, unapplied, behind, ops, faults>>

\* Mutant: what is stored is not looked at.
LookNowhere(p) ==
  /\ task[p].at = "look" /\ made < MaxPath
  /\ made' = made + 1
  /\ task' = [task EXCEPT ![p].at = "store", ![p].got = Generated(made + 1)]
  /\ UNCHANGED <<path, keys, newest, world, xray, gateway, archive, record, ops, faults>>

\* The first half of ensure_ws_path: the override, the stored path, or a new one.
Look(p) ==
  /\ task[p].at = "look"
  /\ LET override == Now.override
         Found(found) == /\ task' = [task EXCEPT ![p].at = "do", ![p].got = found]
                         /\ UNCHANGED made
     IN \/ override # NoPath /\ Found(override)
        \/ override = NoPath /\ path # NoPath /\ Found(path)
        \/ /\ override = NoPath /\ path = NoPath /\ made < MaxPath
           /\ made' = made + 1
           /\ task' = [task EXCEPT ![p].at = "store", ![p].got = Generated(made + 1)]
  /\ UNCHANGED <<path, keys, newest, world, xray, gateway, archive, record, ops, faults>>

\* Its second half, whatever has been stored in the meantime.
Store(p) ==
  /\ task[p].at = "store"
  /\ path' = task[p].got
  /\ mishaps' = mishaps \cup (IF path # NoPath THEN {"raced"} ELSE {})
  /\ task' = [task EXCEPT ![p].at = "do"]
  /\ UNCHANGED <<keys, newest, made, world, xray, gateway, archive>>
  /\ UNCHANGED <<promised, unapplied, behind, ops, faults>>

\* The database does not answer. What that means is up to the caller.
StoreFails(p) ==
  /\ task[p].at \in {"look", "store"} /\ Now.override = NoPath
  /\ faults < MaxFaults /\ faults' = faults + 1
  /\ task' = [task EXCEPT ![p].at = "do", ![p].got = NoPath]
  /\ UNCHANGED <<disk, world, xray, gateway, archive, record, ops>>

Ready(p, job) == task[p].at = "do" /\ task[p].job = job

\* Step 7 of the bootstrap only warns if there is no path; the apply asks again.
BootPath ==
  /\ Ready("container", "boot")
  /\ task' = [task EXCEPT !["container"] = Job("configure", "look")]
  /\ UNCHANGED <<disk, world, xray, gateway, archive, record, ops, faults>>

\* Mutant: what REALITY uses is left out of structural_signature.
StructuralButKeys == [file EXCEPT !.keys = keys] # Served

Structural == file # Served

\* What an apply does to a running Xray. If config.json held the same but for accounts,
\* and nobody insists, accounts are synchronised (or that fails, and it is restarted).
Restarted(config) == xr' = config /\ mishaps' = mishaps \ {"torn"}
Synchronised == UNCHANGED <<xr, mishaps>>

\* The end of an apply that says ok: config.json is what the keys and the environment
\* say. An Xray that is not running is started with it.
Applied(p) ==
  /\ task[p].at = "do" /\ task[p].job \in Applies \ {"boot"} /\ task[p].got # NoPath
  /\ file' = Served /\ unapplied' = FALSE
  /\ \/ Restarted(Served)
     \/ p # "container" /\ ~Structural /\ task[p].job # "restore" /\ Synchronised
  /\ IF p = "container"
       THEN phase' = "on" /\ task' = [task EXCEPT ![p] = Job("start", "look")]
       ELSE UNCHANGED phase /\ task' = [task EXCEPT ![p] = Idle]
  /\ UNCHANGED <<disk, env, rail, proxy, deploys, gateway, archive, promised, behind, ops, faults>>

\* Or it fails. Without a path it raises. The candidate is refused, or Xray does not start
\* with it and is started with what config.json held before (where that fails as well:
\* ApplyPipeline). A failed bootstrap ends the container.
ApplyFails(p) ==
  /\ task[p].at = "do" /\ task[p].job \in Applies \ {"boot"}
  /\ \/ task[p].got = NoPath /\ Synchronised /\ UNCHANGED faults
     \/ /\ task[p].got # NoPath /\ faults < MaxFaults /\ faults' = faults + 1
        /\ Synchronised \/ (p # "container" /\ Restarted(file))
  /\ phase' = IF p = "container" THEN "off" ELSE phase
  /\ task' = [task EXCEPT ![p] = Idle]
  /\ UNCHANGED <<disk, env, rail, proxy, deploys, file, gateway, archive>>
  /\ UNCHANGED <<promised, unapplied, behind, ops>>

\* Or its process is killed, before or after it writes config.json.
ApplyKilled(c) ==
  /\ task[c].at # "none" /\ task[c].job \in Applies
  /\ faults < MaxFaults /\ faults' = faults + 1
  /\ \/ UNCHANGED <<file, mishaps>>
     \/ /\ task[c].at = "do" /\ task[c].got # NoPath
        /\ file' = Served
        /\ mishaps' = mishaps \cup (IF xr # Served THEN {"torn"} ELSE {})
  /\ task' = [task EXCEPT ![c] = Idle]
  /\ UNCHANGED <<disk, world, xr, gateway, archive, promised, unapplied, behind, ops>>

\* Xray crashes, or somebody restarts it (vpnctl restart, the panel's tools): it starts
\* with what config.json holds.
XrayRestart ==
  /\ phase = "on" /\ Restarted(file)
  /\ UNCHANGED <<disk, world, file, gateway, archive, task, promised, unapplied, behind, ops, faults>>

\* Mutant: the path is read as it was stored, whatever the environment says.
PanelStartStored ==
  /\ Ready("container", "start")
  /\ panel' = TRUE /\ gate' = path
  /\ behind' = (task["container"].got = NoPath)
  /\ task' = [task EXCEPT !["container"] = Idle]
  /\ UNCHANGED <<disk, world, xray, archive, promised, unapplied, mishaps, ops, faults>>

\* lifespan: the path is read once; if that fails the gateway admits nobody.
PanelStart ==
  /\ Ready("container", "start")
  /\ panel' = TRUE /\ gate' = task["container"].got
  /\ behind' = (task["container"].got = NoPath)
  /\ task' = [task EXCEPT !["container"] = Idle]
  /\ UNCHANGED <<disk, world, xray, archive, promised, unapplied, mishaps, ops, faults>>

\* The panel dies and the supervisor starts it again. Its requests, if they are
\* clients, take no further step (or see ApplyKilled).
PanelCrash ==
  /\ panel
  /\ faults < MaxFaults /\ faults' = faults + 1
  /\ panel' = FALSE /\ gate' = NoPath
  /\ task' = [task EXCEPT !["container"] = Job("start", "look")]
  /\ UNCHANGED <<disk, world, xray, archive, record, ops>>
-----------------------------------------------------------------------------
(* Clients. *)

\* Requests come to a panel; vpnctl is assumed to be run when the bootstrap is over.
Begin(c) ==
  /\ phase = "on" /\ task[c] = Idle
  /\ ops < MaxOps /\ ops' = ops + 1

\* build_credentials reads the keys, and the path only if there is a fallback.
BeginShow(c) ==
  /\ Begin(c)
  /\ task' = [task EXCEPT ![c] =
                Job("show", IF FallbackAvailable(Now, rail) THEN "look" ELSE "do")]
  /\ UNCHANGED <<disk, world, xray, gateway, archive, record, faults>>

Shown(c) ==
  RealityLink(Now, rail, task[c].keys) \cup WebSocketLink(Now, rail, task[c].got)

\* A page begun before a rotation shows the keys of before, and a container that has
\* not been redeployed since the proxy was replaced does not know its port
\* (README.md:680): these are not promised.
UpToDate(l) == l.kind = "reality" => l.keys = keys /\ l.port = proxy

Show(c) ==
  /\ Ready(c, "show")
  /\ promised' = promised \cup {l \in Shown(c) : UpToDate(l)}
  /\ task' = [task EXCEPT ![c] = Idle]
  /\ UNCHANGED <<disk, world, xray, gateway, archive, unapplied, behind, mishaps, ops, faults>>

\* Any operation that applies: an account's, a resync, the sweep.
BeginApply(c) ==
  /\ Begin(c)
  /\ task' = [task EXCEPT ![c] = Job("apply", "look")]
  /\ UNCHANGED <<disk, world, xray, gateway, archive, record, faults>>

Backup(c) ==
  /\ Begin(c)
  /\ archive' = {[path |-> path, keys |-> keys]}
  /\ UNCHANGED <<disk, world, xray, gateway, task, record, faults>>

\* vpnctl restore: settings table and key files are the archive's, then an apply. The
\* links that say otherwise are void. An archive made when an override was all there was
\* holds no path: the next to look makes one.
RestoreOf(c, copy) ==
  /\ Begin(c) /\ \A p \in Proc : task[p] = Idle
  /\ path' = copy.path /\ keys' = copy.keys
  /\ task' = [task EXCEPT ![c] = Job("restore", "look")]
  /\ unapplied' = (unapplied \/ copy.keys # keys)
  /\ behind' = (behind \/ (Now.override = NoPath /\ copy.path # path))
  /\ promised' = {l \in promised :
                    CASE l.kind = "reality" -> l.keys = copy.keys
                      [] OTHER -> Now.override # NoPath \/ l.path = copy.path}
  /\ mishaps' = (mishaps \ {"lost"})
                  \cup (IF Now.override = NoPath /\ copy.path = NoPath THEN {"lost"} ELSE {})
  /\ UNCHANGED <<newest, made, world, xray, gateway, archive, faults>>

Restore(c) == \E copy \in archive : RestoreOf(c, copy)

\* generate-reality-keys.sh --rotate voids the REALITY links of before.
Rotate(c) ==
  /\ Begin(c) /\ ~Applying /\ newest < MaxKeys
  /\ keys' = newest + 1 /\ newest' = newest + 1
  /\ unapplied' = TRUE
  /\ promised' = {l \in promised : l.kind # "reality"}
  /\ UNCHANGED <<path, made, world, xray, gateway, archive, task, behind, mishaps, faults>>

\* The TCP proxy is added, or deleted and added again.
NewProxy ==
  /\ proxy < MaxProxy /\ proxy' = proxy + 1
  /\ promised' = {l \in promised : l.kind # "reality"}
  /\ UNCHANGED <<disk, env, rail, phase, deploys, xray, gateway, archive, task>>
  /\ UNCHANGED <<unapplied, behind, mishaps, ops, faults>>
-----------------------------------------------------------------------------
Container == BootPath \/ PanelStart \/ PanelCrash \/ XrayRestart \/ \E e \in Environments : Deploy(e)

Ensure == \E p \in Proc : Look(p) \/ Store(p) \/ StoreFails(p) \/ Applied(p) \/ ApplyFails(p)

Operation ==
  \E c \in Client :
    BeginShow(c) \/ Show(c) \/ BeginApply(c) \/ ApplyKilled(c)
    \/ Backup(c) \/ Restore(c) \/ Rotate(c)

Next == Container \/ Ensure \/ Operation \/ NewProxy

Spec == Init /\ [][Next]_vars
-----------------------------------------------------------------------------
(* Properties. *)

\* Types.
LinksTyped ==
  /\ env \in Environments /\ proxy \in 0..MaxProxy /\ phase \in {"off", "boot", "on"}
  /\ keys \in 0..newest /\ newest \in 0..(MaxKeys + 2) /\ made \in 0..MaxPath
  /\ path \in {NoPath} \cup {Generated(n) : n \in 1..made}
  /\ {xr.keys, file.keys} \subseteq 0..newest /\ (gate # NoPath => panel)
  /\ mishaps \subseteq Mishaps
  /\ \A p \in Proc :
       /\ task[p].job \in {"none", "start", "show"} \cup Applies
       /\ task[p].at \in {"none", "look", "store", "do"}
  /\ \A l \in promised :
       \/ l.kind = "reality" /\ l.keys \in 1..newest /\ l.port \in 1..MaxProxy
       \/ l.kind = "ws" /\ l.path # NoPath

Admitted(p) == Now.fallback /\ panel /\ gate # NoPath /\ Requested(p) = gate

Connects(l) ==
  CASE l.kind = "reality" -> xr # Nothing /\ l.keys = xr.keys /\ l.sni = xr.sni /\ l.port = proxy
    [] OTHER -> l.host = rail.domain /\ Admitted(l.path) /\ xr # Nothing /\ xr.ws

\* What a link depends on has been brought to where it is: an apply has succeeded since the
\* keys on disk changed, the panel has read the path since it did, and nothing is torn
\* or raced.
Settled(l) ==
  CASE l.kind = "reality" -> ~unapplied /\ "torn" \notin mishaps
    [] OTHER -> panel /\ ~behind /\ "raced" \notin mishaps

\* Every link ever handed out connects while the container is up and what it depends on
\* is settled, through redeployments, refused environments, failed and repeated boots,
\* crashes of the panel and of Xray, failing databases, failed and killed applies, until
\* something the link says is changed deliberately: by a rotation, a restore of another
\* state, another variable, another proxy (README.md:80, README.md:185, ensure_ws_path's
\* "persisted"). After a killed apply "ok" does not mean that the keys are served (torn).
IssuedLinksLast == phase = "on" => \A l \in promised : Settled(l) => Connects(l)

\* A path that has been stored is replaced by a restore only, although ensure_ws_path
\* looks and stores in two steps and many may be in it; unless a restore has left the
\* table without one while the panel runs: then all who look make a path, and the last
\* stays.
PathKept ==
  [][path # NoPath /\ path' # path =>
       "lost" \in mishaps \/ \E c \in Client : task'[c].job = "restore"]_vars

\* Every WebSocket link that is handed out while the panel is up is admitted by its
\* gateway (credentials.py:5). Violated: a restore changes the stored path, and the
\* gateway goes on with the one it read when it started.
NewLinksAdmitted ==
  [][panel => \A l \in promised' \ promised : l.kind = "ws" => Admitted(l.path)]_vars
=============================================================================
