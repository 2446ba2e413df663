# RailGate: TLA+ specifications

RailGate is a single-container VPN gateway: an Xray process, an admin web
application, a `vpnctl` command and a supervisor (PID 1). This directory models
the parts of it in which several actors touch the same state, checks them with
TLC and proves the central properties with TLAPS.

    tlc -config ApplyStore.cfg MCApplyPipeline.tla     # check one run
    tlapm ApplyPipelineProofs.tla                      # check the proofs

## 1. The system

| component | source | state it keeps | operations | interacts with |
|---|---|---|---|---|
| apply pipeline | `app/xray_manager.py`, `app/service.py:62`, `app/bootstrap.py:178` | `config.json`, `run/apply.lock` | render, validate, write, sync accounts, restart, health check, roll back | database (reads accounts), key files, Xray's API, supervisor |
| supervisor | `scripts/supervisor.py` | the two children, `desired_running`, backoff and crash counters | start, stop, restart, status, shutdown | control socket, signals, children |
| accounts | `app/models.py`, `app/service.py` | table `users` | create, delete, enable, disable, renew, set date, regenerate UUID | apply pipeline |
| expiry sweep | `app/expiry.py` | none between cycles | list expired accounts, disable, apply | accounts, apply pipeline |
| Xray | external binary | configuration read at start, account list per inbound | run, list, add and remove accounts | apply pipeline, supervisor |
| key material | `app/xray_manager.py:257-301`, `scripts/generate-reality-keys.sh` | three key files, `ws-path` | ensure, rotate | apply pipeline, credentials |
| command line | `scripts/vpnctl` | none | the service operations, resync, restart, restore | all of the above, from a process of its own |
| database | `app/database.py` | SQLite file, migrations | migrate, connection per operation | everything |
| backup | `app/backup.py` | archives | create, restore | database, key files |
| login | `app/auth.py`, `app/main.py:285-335` | table `sessions`, the limiter's two dictionaries | sign in, sign out, sign everybody out, check a cookie, purge | database, every route of the panel |
| WebSocket gateway | `app/main.py:740-805` | cached path, two pumps per client | connect, pump, tear down | Xray's WebSocket inbound |
| configuration | `app/config.py`, `app/railway_info.py` | none: read from the environment at start | accept or refuse, resolve endpoints | everything |
| credentials | `app/credentials.py`, `app/credential_generator.py` | none | build the links of an account | configuration, key files, stored path, gateway |
| event log | `app/logstore.py` | table `events`, write counter | append, trim | database |
| diagnostics, panel | `app/diagnostics.py`, `app/system_info.py`, `app/tools.py`, `app/main.py` | none | reports and pages | reads only, save the operations of the others |

**What is hard.** The panel's worker threads, the expiry loop and `vpnctl` run
the same operations at the same time, in two processes, with only a file lock
around the last part of them. The configuration exists four times: in the
database, in `config.json`, in the running Xray and in the candidate of a
process that is applying; each copy is made from an earlier look at another.
What survives on `/data` is four files
that nobody writes atomically together. Appliers can be killed anywhere, Xray can crash anywhere, a restart can be asked
for without the lock, and the supervisor carries out commands in threads that
race with its own main loop. The panel answers each request in a thread: sign-ins,
sign-outs and purges meet in the same rows, and failures in the same limiter.
A link is made of what the environment, the key files and the database say at one
moment, and is used against what Xray, the gateway and the platform hold at another.
The gateway's two pumps share two sockets of which either may end at any await.

**What makes each part correct.** Apply pipeline: one apply at a time; the file
is always one Xray accepts; "ok" means Xray serves the file; a failed apply
changes nothing; nothing blocks for ever. Supervisor: one child per program, a
restart that says ok is a fresh child, what dies comes back, shutdown leaves
nothing. Volume: key files of two pairs are never taken for one, issued keys stay,
the last change can be restored. Accounts: names are unique, an update reaches the account it was meant
for, expired accounts are disabled and only those. Login: a session that is over
is not accepted, one that is not is kept, a lockout holds. Links: what was handed
out connects until something it says is changed on purpose. Gateway: nothing is lost
before the end of a connection, and nothing is left after it. Across them: what the
database says is in the end what Xray serves.

## 2. Modules

| module | models | by |
|---|---|---|
| `ConfigStore` | what the pipeline promises: propose, accept, reject, interrupt | abstract, three variables |
| `ApplyPipeline` | `apply_configuration` and everything it calls, for many processes | the core |
| `ApplyPipelineProofs` | theorems about it | TLAPS |
| `Accounts` | the users table under concurrent operations and the sweep | |
| `AccountsProofs` | ids and names never change hands, old UUIDs stay dead | TLAPS |
| `Supervisor` | main loop, control threads, children, shutdown | |
| `SupervisorProofs` | one child, fresh restarts, what is wanted and given up on, what a shutdown leaves | TLAPS |
| `Volume` | database file, key files and archives, with all that writes them | |
| `VolumeProofs` | keys belong together and stay, the last change is recoverable | TLAPS |
| `Panel` | the login limiter and the sessions under concurrent requests | |
| `PanelProofs` | sessions end when they should and not before, lockouts hold, failures are bounded | TLAPS |
| `Configuration` | what is refused, and what becomes of, the variables of an environment | operators |
| `Credentials` | endpoints and links as functions of settings, platform, keys and path | operators |
| `Links` | deployments, the stored path, applies, the panel, clients, backups, rotation: composes the two above with their users | |
| `LinksProofs` | normalised paths survive, links last, a stored path stays | TLAPS |
| `Gateway` | one WebSocket connection: handler, two pumps, both ends | |
| `GatewayProofs` | nothing is left over, nothing is lost | TLAPS |
| `Induction` | least and greatest numbers, induction up to a number | TLAPS |
| `MC*` | model values and symmetry for the runs | |

### ApplyPipeline

One process runs `service.<operation>`: it changes the database (`SetActive`,
`RegenerateUuid`, or nothing for `Resync`), evaluates `active_users()`
(`Snapshot`), waits for the lock (`Acquire`, `LockTimeout`), and then follows
`apply_configuration` line by line: `Render`, `Validate`, `Write`, `Status`,
`List`/`Remove`/`Add` per inbound, `RestartXray`, `Health`, `Rollback`. The
label of a process is the call it is about to make. `Finish` is every `return`:
the lock goes, the result is `report`. `Abort` is a kill or an exception out of
the `with` block (the kernel releases a `flock`); `Redeploy` replaces the
container, of which the database, the keys and `config.json` survive.

* An account list is a function from accounts to UUID generations, 0 for "not in
  the list". Deleted, disabled and expired accounts are all just not active.
* Everything `structural_signature` compares is one generation number, `keys`. (The
  WebSocket path is not in `config.json`: see Links.)
* `xr` is the Xray process: "dead" after a failed exec that nobody retries,
  "down" when the supervisor will start it, then starting, loaded, up. It reads
  the file only on the way from starting to loaded (`XrayLoad`).
* A restart is one step, although the supervisor stops and starts a process in
  several: `Supervisor!RestartIsFresh` is what justifies that.
* `Faults` selects what may go wrong; every kind is described where it is
  declared. What an API call does when it fails half way is a choice over all
  subsets of the accounts it was asked to add or remove.

### Accounts

`get_user` and the `UPDATE` are two connections, so an operation is two steps
(three for a renewal, which looks the account up again in `set_expiry`). `Job`
holds what the session read. Names are compared in two ways, as in the code:
`create_user` looks a name up without regard to case (`NameTaken`, which compares what
`Fold` makes of names), the UNIQUE constraint that its INSERT meets compares names as
they are (`NameUsed`). `asOf`, in a row, is history: the id that was next when the name
was looked up. The sweep is a listing and one transaction per
account. Dates are days, `Never` is a date after the last one. The clock moves
between any two steps.

### Supervisor

`Program._lock` makes `start`, `reap` and the first half of `stop` atomic, and
those are the steps. `held` is the local variable `process` of `stop`.
Children are numbered in the order they are started, which lets a property say
"newer". Delays are abstracted to a timer that is unset, waiting or due, so the
backoff's length is not modelled; the four reads of `run`'s test for a start that is due
(`supervisor.py:389-392`), which are made without the lock, are four steps; the crash window is modelled by a free choice
of how many earlier crashes are still inside it.

### Volume

The database is a state (absent, empty, ready, torn) and the number of the last
change in it; a key file is the generation of its content, or `NoFile`, or
`EmptyFile` between the truncation and the write. `init_db` is `Schema` and
`Migrate` (two processes may both read "no migration" and the slower fails);
`ensure_reality_keys` reads and writes file by file (`Look`, `Write`), under the
lock in an apply and without it in the bootstrap and the panel's `lifespan`.
`_write_secret` replaces a file atomically; `write_bytes`, `write_text` and the
shell's `>` truncate first, hence `TruncateDatabase`/`FillDatabase` and
`TruncateKey`/`FillKey`, which restore and rotation share. A restore goes on after
its safety copy whether it has one or not (`NoBackup`). An apply's render and
restart are ApplyPipeline's: here it reads the accounts, takes the lock and ensures
the keys. A bootstrap that is through goes on as an apply (`Ensured`).

A step of a process that is killed or gets an `OSError` leaves the files as they
are; a database that was being filled is left empty or with a part of its pages,
and SQLite refuses a file shorter than its header says.

Two assumptions are the operator's: restores and rotations are run alone (`Alone`),
and no command is run before the first bootstrap is through (`Begin`). The first is more
than an operator can see to: the panel's expiry loop applies when an account falls due,
whoever is restoring. Without it TLC finds `KeysKept` violated: an apply reads a key file
that a rotation has just truncated. With it nobody writes key files while a backup copies
them, so nothing is claimed here of the keys in an archive.

### Panel

The routes are plain functions, so each request runs in a thread of its own
(`Thread`). One statement of SQL is one step, for the connections commit each; so
is one body of the limiter's lock, with the memory guard at its end. In between
everything interleaves: the limiter's clock is read before its lock is taken, Argon2
runs outside it, and `get_session` reads a row, judges its date and deletes it in
three steps (`Lookup`, `Judge`, `Drop`). `Fault` is a statement that raises, or a
restart, which empties the limiter and, if no secret is set (`Ephemeral`), hashes
with a new one. A route that needs a session is `Visit`, whatever it does with it,
save the two that end sessions. Hashes and CSRF values are compared, never computed.
`validTo`, `issued` and `ended`, and a request's `dead` and `done`, are the
properties' records of what happened; no guard but the choice of a fresh token reads
them. The event log is left out.

### Configuration, Credentials and Links

`Configuration` and `Credentials` are functions: `Refused` is every `ConfigError` of
`load_settings`, `NormalisePath` is `_normalise_ws_path`, `PublicEndpoint` is
`resolve_public_endpoint`, and a link is a set with one record, or none where the code
answers with a reason. A path is a sequence in which slashes, white space, the word
"static", the characters that end a path in a URL (`Query`) and escaped characters
(`Escape`) matter; a host is a name, and a port of 0 is one that is not there. The loop that squeezes repeated
slashes is a recursive function, so that `LinksProofs` can reason about it.

`Links` puts them to use. A deployment brings one of the `Environments` and the proxy the
platform has then; if it is not refused the bootstrap ensures keys and path and applies,
and the panel starts. `ensure_ws_path` is called by the bootstrap, by every apply, by
`lifespan` and for every credential page, and is two steps, `Look` and `Store`; what a
failing database means (`StoreFails`) is up to the caller: a warning (`BootPath`), a
failed apply, a page without the link, or a panel whose gateway admits nobody. `job` is
the caller, and `at` the step. An apply is one step (`Applied`, `ApplyFails`,
`ApplyKilled`): how it gets there is ApplyPipeline's subject. But what it leaves behind is
here: `file` is what `config.json` says, `xr` what Xray was last started with. An apply
that finds in the file what it would write (`Structural`) synchronises the accounts only
and says ok, whatever Xray runs; so after one that was killed between the writing of the
file and the restart, Xray stays on its old keys until somebody restarts it
(`XrayRestart`). Keys are a number, and backup, restore and rotation
single steps, which Volume takes apart.

What a link's path becomes on its way is `Requested`: the URL is cut at a `?` or `#`, escapes
are decoded, a path under `/static` goes to the mount (`main.py:161`), and of any other the
gateway drops the slashes in front. The overrides in the model are ones that all this
leaves alone (`Plain`, assumed in `PlainOverrides`; nothing in the code checks it). That
they survive is the theorem `PathsSurvive`; others, as `/a%41`, make links the gateway refuses.

`promised`, `unapplied`, `behind` and `mishaps` are records for the properties that no guard
reads. `mishaps` has what makes the properties' exceptions: "torn", an apply was killed
between the file and the restart, and Xray has not been restarted since; "lost", a restore
has left the running container without a path; "raced", one process has stored a path over
another's. The archive of a container that had `WS_FALLBACK_PATH` from the start holds no
path. Where it is restored without the override, an apply and a credential page may both
find none and store one each, and the later replaces that of a link that has been shown.
Nothing is promised of a link whose contents are changed deliberately: by a rotation, by
the restore of another state, by other variables, by a new proxy; nor of a page that was
begun before a rotation, nor of links made between the replacement of a proxy and the
redeployment that tells the container of it (`README.md:680`).

Two assumptions are left: a restore begins, and a rotation runs, while nobody applies (the
operator's, as in Volume), and no command is run before the bootstrap is over.
The panel may crash at any time, also during a restore.

### Gateway

A step goes from one `await` to the next, which is what asyncio promises; `handler`, `up`
and `down` are the awaits the three tasks are in. Data are counted at every stage they
pass: nothing reorders them, so a count says which. The socket's and the server's buffers
hold `Cap` messages, then `drain` and `send_bytes` wait. Either end may leave, close or
reset between any two steps. Writing to a connection that Xray has closed is answered
with a reset, and after a reset what the kernel had buffered is gone. `cut` records that
a pump was ended by something else than the end of its input, which excuses it in
`DownComplete` and `UpComplete`.

`accept()` stands outside the `try` (`main.py:781`): if the client has left meanwhile and
it raises, nobody closes the socket to Xray, which stays until it is collected
(`AcceptRaises`, "abandoned"; `NothingLeft` allows for that). Data for a client that has
left may raise in the server, and then its last upload is cut off; `UpComplete` excludes it.

## 3. What TLC checks

Every run finishes within about two minutes on two cores. `CHECK_DEADLOCK FALSE`
everywhere: the bounded behaviours stop when the operations are used up, and the
supervisor exits.

| run | bounds | properties | shows |
|---|---|---|---|
| ApplyStore | 2 processes, 1 account, 1 inbound, 3 key generations of which one is rejected, 3 operations, 2 disturbances of every kind | StoreInv, OneApplyAtATime, FileIsValid, OkMeansAccountsLive, ImplementsStore | one apply at a time; the file is always acceptable; accounts are in place after an apply that synchronised or restarted Xray, killed appliers or not; the pipeline implements ConfigStore |
| ApplyLive | 2 processes, 1 account, 2 inbounds, 2 operations, 2 of api, invalid, timeout, crash, tool, redeploy | LiveInv, OkMeansLive, SyncNeedsNoRestart, OperationsEnd, Converges | "ok" means Xray serves the file, keys and the accounts on every inbound; an undisturbed sync needs no restart; operations end; Xray comes up with the file |
| AccountsTable | 2 sessions, 2 names that differ in case only, 3 ids, 4 operations, a clock that moves by a day | AccountsInv, UniqueNames, UpdateHitsItsAccount, ExpiredIsDisabled, OldUuidStaysDead | names and ids under deletion and re-creation; the sweep gets everybody |
| SupervisorControl | 2 threads, any 2 commands for Xray, 1 crash of either program or 1 failed start, SIGTERM | OneChild, RestartKeepsWanted, GivesUpOnCrashes, RestartIsFresh, KeptAlive, ShutdownEnds | children stay consistent under every command; what dies comes back; shutdown ends |
| VolumeDisk | the container and a shell, 6 commands of 7 kinds, 2 changes, 3 key generations, 2 faults of any kind | VolumeInv, KeysMatch, Recoverable, KeysKept | keys of two pairs are never taken for one; only the operator replaces issued keys; the last change can be restored |
| PanelLogin | 2 threads, 2 clients, 2 tokens, 5 requests of which 2 with a cookie, a limit of 2 failures, memory for 1 client, 1 fault | PanelInv, SignedOutStaysOut, SessionsLast, FailuresBounded, LockHolds | over is over, valid is kept, lockouts hold, and late threads add a bounded number of failures |
| LinksEnvironment | 2 clients, 5 environments (usual; override and own host; no fallback and another server name; a path and a host that no link can have; refused), 3 deployments, 3 operations, 1 failure or killed apply, 3 paths, 2 key generations, 2 proxies | LinksTyped, IssuedLinksLast, PathKept | links connect whenever what they depend on is settled; a stored path stays, unless a restore took it away |
| GatewayTunnel | 3 messages per direction, buffers of 2 | GatewayTyped, NothingLeft, DownComplete, UpComplete, HandlerEnds, BothFlow | nothing left over, nothing lost before the end, the handler ends, the directions are independent |

**Why the bounds are enough to be interesting.** Two processes are the least
that can race, and the lock admits one at a time, so a third adds only
another waiter. Three operations allow a change, a concurrent one and a repair; four on the
users table allow an account to be created, read, deleted and created again before
the reader writes.  Xray is the only program a command of the repository's is for
(`xray_manager.py:648`), and two commands are the least that can overlap.
Two disturbances allow one inside the handling of another (a crash during a
rollback). Two inbounds are what distinguishes "this inbound" from "an earlier one". Two key generations give one structural
change; three are used where one is rejected, so that a good one follows it.
In Volume six commands are a boot, a change, a backup, a
second change, a restore of the older state and a restore back, and two faults cut
short two boots in a row, or a restore and the boot after it. In Panel two tokens
let the purge of one sign-in meet the session of another, five requests are a lockout,
the threads that were already past the check, and a request after them, and with
memory for one client the guard strikes. The run restarts with a new secret; a set one
is left to the proofs, as are longer clocks. In Links three deployments are one that issues links,
one that changes the environment and one that changes it back; three operations are a
page, a restore or rotation, and a page or an apply beside it; a backup may be there from
the start, of an earlier volume, or be made before a path was stored. The torn apply, the
lost path and the race for a new one all happen within them. In Gateway three messages fill a buffer of two with one
that waits, in each direction, when an end leaves.
The proofs of section 5 have no bounds.

**Fairness.** Each process's pipeline is straight-line code in which every wait
has a time limit, so an enabled step is taken (`WF(Pipeline(p))`); the
supervisor loops for ever; a started Xray proceeds. No fairness is assumed of
operations, faults, the clock or signals. In `Supervisor` the main loop and
each thread are weakly fair, and timers elapse; a child need not obey SIGTERM.
`Panel` and `Links` have no liveness property and no
fairness. In `Gateway` the event loop runs every task that can run, and both ends read
what they are sent; that they send, leave or close is not assumed. In `Accounts` the sweep is weakly fair because `expiry_loop` survives any
exception. `KeptAlive` promises nothing after a failed `Popen`, when
`next_start_at` is 0 and nothing retries, nor for a program that a stop command was
sent to (`stopAsked` records that for the properties).

**Mutants.** Operators marked "Mutant" stand before the definition they alter.
Each is a bug this code could have (a lock opened and not waited for, a signature
that leaves out the keys, an UPDATE that writes the whole row back), and each
makes one property of one run fail. The specifications do not use them.

## 4. Where code and documentation disagree

These runs are expected to end in a counterexample.

| run | property | what happens |
|---|---|---|
| ApplyStaleSnapshot | FileMatchesDatabase | `service.py:65` reads the accounts before the lock is taken. Session A reads, session B disables an account and applies, A applies: the account is back in the file and in Xray, both said ok. |
| ApplyAbortedChange | OkMeansLive | New keys are written to the file, the process dies before the restart; the next apply sees no structural difference to the file, syncs accounts and says ok while Xray has the old keys. |
| VolumeRedeploy | RedeployKeepsVolume | `restore_backup` overwrites files in place. A redeploy in between leaves an empty database, or an empty key file, and the next bootstrap takes it for a first boot: it creates the tables again, or generates new keys. |
| LinksRestore | NewLinksAdmitted | `lifespan` reads the WebSocket path once; a restore changes the stored one and restarts Xray only. Until the panel is restarted every WebSocket link it builds has a path its own gateway refuses. |

`Recoverable` shows what then still holds: the state before
the restore is in an archive, unless its safety copy failed (`README.md:538` promises that
"a mistaken restore is itself recoverable" without that exception; `backup.py:176`
goes on). When the file is torn rather than empty,
no `vpnctl` command works any more, `restore` included, because `main()` calls
`init_db` before it looks at the command (`scripts/vpnctl:684`).

Six more disagreements are in the models, which do as the code does, and have no run
of their own:

* `disable_expired_users` ("Flip expired-but-still-enabled accounts to disabled",
  `models.py:301`) lists once and then updates by id: an account renewed in between is
  disabled although its date is to come (`SweepOne` after an `Update`).
* A restart command that passed the `shutting_down` test (`supervisor.py:274`) starts Xray
  after `shutdown()` has stopped it, and the supervisor exits with a child running,
  although it is to reap children "so Railway deploys shut down cleanly"
  (`supervisor.py:12`).
* A sweep that has disabled accounts and whose apply fails is not retried: the next cycle
  finds nobody to disable and returns (`expiry.py:24`). The accounts stay connected until
  another operation applies.
* Two creations that overlap may create `Bob` and `bob`, which every look-up takes for one
  name (`tests/test_models.py:78`), because the UNIQUE constraint does not (`database.py:37`).
  `UniqueNames` says that this race is the only way to it.
* A failed sign-in that reads the limiter's clock and waits for its lock while a lockout
  begins writes the older deadline over the newer (`auth.py:73`, `auth.py:79`); if it waited
  for a whole lockout, the new one ends at once. `LockHolds` says that nothing less does.
* After the restore of an archive without a path, `ensure_ws_path`'s "persisted" path
  (`xray_manager.py:291`) may be replaced by another process's (`PathKept`, "lost").

Two renewals that overlap compute from the same date and give the days of one. The
model does that too; no document promises their sum, so no run asks for it.

## 5. What TLAPS proves

For every number of processes, accounts, inbounds up to two, key generations,
operations and disturbances:

* **`MutualExclusion`, `FileAlwaysValid`, `TypeCorrect`**, from `StoreInv`, which
  needs no assumption on `Faults`. Its parts: `CandidateInv` (a process that may
  write has a validated candidate and a valid or absent predecessor), `WriterInv`
  (while a process is past `Write`, the file is its candidate, or its predecessor
  once it rolls back: nobody else writes), `BootInv` (Xray is not started before a
  first configuration exists, hence a process that fails after a restart always
  has something to roll back to), `KeyOrderInv` (key generations are ordered:
  file, candidate, disk). `FileIsValid` alone is not inductive: `Rollback` writes
  `prev`, so the invariant must know that `prev` was once a valid file.
* **`Refinement`**: `Spec => ImplementsStore`. The committed configuration is the
  file, except while a process is past `Write`, when it is the one that process
  would restore; the pending one is its candidate. `Write` is the proposal,
  returning is acceptance or rejection, and everything else is a stutter.
* **`OkAccounts`**, which needs no assumption on `Faults` either: after an apply that
  synchronised or restarted Xray, on every inbound, Xray has the accounts of the file.
  (An apply that took Xray to be down reports "written" and is not claimed to.) The
  invariant is `SyncInv`: inbounds already done match the candidate, the one at hand
  holds account by account what was listed or what is wanted. That is needed because a
  restart by somebody else makes Xray load the candidate under a sync that works from
  a list it read before.
* **`OkLive`** (neither "silent" nor "abort" in `Faults`): the same with the keys.
  `LiveKeysInv` keeps Xray's keys between those of the configuration in force and
  those of the candidate; if the two ends are equal, which is what "not
  structural" says, so is Xray's. ApplyAbortedChange shows that the assumption
  cannot be dropped.
* **`StoreInvariant`, `LiveInvariant`, `SyncStaysOnline`**: the invariants themselves, and
  that a sync on which nothing fails never falls back to a restart: what it removes was
  listed, what it adds was not, and nobody else writes to Xray while it holds the lock.
* **`TableSafe`**, and from it **`NamesAreUnique`, `IdsNeverChangeHands`,
  `OldUuidsStayDead`** (`Accounts`): from `AheadOfIds`, AUTOINCREMENT stays
  ahead of every row and of every operation under way, and from `LookedUp`, what a
  creation did not find is still not among the rows that were there when it looked.
* **`ProcessAlways`, `AtMostOneChild`, `RestartsAreFresh`** (`Supervisor`): from `FreshInv`: from
  the moment a restart holds the child it found, any other that runs is newer than
  the command, and after it has waited for that child every one is.
* **`WantedStays`** (`RestartKeepsWanted`) is not inductive: in the middle of a restart
  nothing is wanted. `WantedInv` says that a program that is not wanted although nobody
  asked for that is in the hands of a restart and, while its child still runs, of one that
  waits for just that child: `start()` leaves a running child alone and does not set
  `desired_running`, so any other restart would end too early.
* **`GivesUpRightly`** (`GivesUpOnCrashes`), provided no command is for admin-api, which is
  so in this repository: `CountInv` adds up the crashes counted, the one that is being
  looked at and the one not yet reaped; their sum never exceeds the deaths.
* **`ShutdownLeavesNone`**: at exit a program has no child unless a start or a restart of it
  was under way when `shutdown()` began, which is the case section 4 names;
  **`UntouchedAreStopped`**: so admin-api, which no command is for, never has one.

* **`VolumeSafe`**, and from it **`KeysBelongTogether`, `IssuedKeysStay`,
  `LastChangeRecoverable`** (`Volume`), for any number of
  processes, key generations and faults. `Places` says who can run beside whom.
  `KeysInv` is why three files written one by one are safe: until the pair is
  complete for the first time there is no short id, which is written last, and
  `load_reality_keys` wants all three; afterwards a reader finds every file it looks
  at. It is given up once an overwriting was cut short (`Cut`). For the data the
  invariant ties the copy in hand to the database that is about to be truncated
  (`DataOf`).
* **`RedeployKeepsUncut`**: what VolumeRedeploy refutes holds for every step before a restore
  or rotation is first cut short. `UncutData` adds that a database without a schema has had
  no changes, or is in the hands of a restore, which is alone.

* **`PanelSafe`**, and from it **`OverStaysOut`, `SessionsStay`, `LockoutsHold`**
  (`Panel`), for any number of threads, clients, tokens and faults, any limits, and
  either kind of secret. `SignedOutStaysOut` and `SessionsLast` are not inductive.
  `RowsInv` says no row under the current secret belongs to an ended session,
  `LoginFacts` that a token which is not yet answered is in the table, ended or over
  from its INSERT on, `BearsInv` that it is borne by one request, and `VisitInv` that
  the date a request judges is the date of its session, so that what it drops is over.
  `LockoutsHold` needs that no clock reading in a request is ahead of the clock; that it may
  be behind is its exception (`ComesLate`).
* **`FewFailures`** (`FailuresBounded`), from `CountedInv`: the failures on record and the
  threads that are past `check` (`Late`) are together at most the limit less one plus the
  number of threads, because a thread joins them only while fewer than the limit count.
  What it needs of the recursive `Recent`, that pruning yields a list of times that is
  never longer, is by induction on the list.

* **`PathsSurvive`** (`NormalisePath`): a path that was normalised, whatever from, goes into a
  link, a URL and through the router as it is, if it is `Plain`: no white space at its end,
  no escape, no `?` or `#`, and not under `/static`. `NormalisedHasOne`
  shows by induction that the loop leaves exactly one slash in front, and `PathComesBack`
  that the router, which drops slashes in front, then changes nothing.
* **`LinksLast`, `StoredPathStays`** (`Links`), for any environments that satisfy
  `PlainOverrides` and any number of clients, deployments, operations and failures.
  `IssuedLinksLast` speaks of a container that is up, and of links whose ground is `Settled`,
  and is not inductive. `PromiseInv` says what a promised link contains, whatever the container is doing: the keys on disk,
  the path in force (`PathInForce`), the variables of the latest deployment. `ServedInv` and
  `GateInv` tie `config.json`, Xray and the gateway to the same three, but for mishaps.
  `PathKept` rests on `PhaseInv` and `TaskInv`: the bootstrap runs alone and leaves a path,
  so outside of it a task is about to store one only after a restore has taken it away.
* **`LinksAreTyped`** (`LinksTyped`), by `RangeInv` on top: a stored path was generated, is
  in a task's hands or lies in an archive, keys are counted by first boots and rotations.
* **`NewLinksUsuallyAdmitted`**: what LinksRestore refutes holds unless a restore has
  changed the path, or the panel failed to read it, since the panel started (`behind`), or
  a path was stored over another ("raced").
* **`TunnelTyped`, `TunnelLeavesNothing`, `DownIsComplete`, `UpIsComplete`** (`Gateway`),
  for buffers of any size and any amount of data.

Each run of section 4 has its counterpart here, which says when the property does hold:
`OkLive` for ApplyAbortedChange, `RedeployKeepsUncut`, `NewLinksUsuallyAdmitted`, and
**`SerialMatches`** for ApplyStaleSnapshot: if operations do not overlap (`OneAtATime`) and
none is killed, an apply that says ok leaves the file with the accounts of the database,
whatever else fails. `SerialInv` says that the one operation under way is alone and that its
candidate is what the database still says. Of a killed operation the change stays in the
database while the last report may still be an earlier one's ok.

Assumptions are those of the modules (`ConstantsOK` and the like), which every
run evaluates. Every invariant and action property of the passing runs is proved. Only
model-checked: the seven liveness properties (`OperationsEnd`, `Converges`,
`ExpiredIsDisabled`, `KeptAlive`, `ShutdownEnds`, `HandlerEnds`, `BothFlow`), which need
fairness and `ENABLED` and are outside the prover's reach. The induction theorems of the
library are too, because they take the statement as an operator; `Induction` derives what
the proofs about `Recent` and `NormalisePath` need from the well-foundedness of strict
inclusion of finite sets, with the statement as a set (`UpTo`).

## 6. Not modelled, and planned

Not modelled: templates and static files, the text of links and QR codes, diagnostics and
system information, the parsing of numbers and keywords in the environment (one field,
`malformed`), output pumps and log rotation of the supervisor, the two exits of
`apply_configuration` for `allow_restart=False` (no caller passes it), account notes, two
backups that share a file name, the mirror of the public key in the settings table (a
convenience only, `xray_manager.py:285`), and the event log, which nothing reads but the
display.

Planned, in this order:

1. The sweep composed with an abstract pipeline, with one that is retried beside it.
2. Restores, rotations and backups beside live readers and writers (`Alone`), with what the
   archives then hold, and the stored path beside the keys in `Volume`.
3. The expiry rules of `app/util.py` against a reference.
4. Proofs: whatever the models of 1 to 3 promise.
