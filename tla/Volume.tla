------------------------------- MODULE Volume -------------------------------
(***************************************************************************)
(* What must survive on /data: the database file and the three REALITY key *)
(* files, with everything that writes them: the bootstrap and the panel's  *)
(* start, account changes, an apply that finds no keys,                    *)
(* generate-reality-keys.sh --rotate, backups and restores.  Nothing here  *)
(* is atomic and anything may be cut short.  A state of the database is    *)
(* told from another by the number of the last change it contains, a key   *)
(* file by the generation of its content.                                  *)
(***************************************************************************)
EXTENDS Naturals, FiniteSets

CONSTANTS
  Proc, Cli,    \* everything that runs; Cli: vpnctl and shell sessions
  Faults,       \* {"kill", "redeploy", "space"}: what may go wrong
  MaxGen,       \* bound: generations of keys, numbered from 2
  MaxChange,    \* bound: account changes
  MaxOps,       \* bound: commands
  MaxFaults,    \* bound: faults
  NoArchive

\* A key file is not there, or has just been truncated.
NoFile == 0
EmptyFile == 1

\* The private key, the public key and the short id, in the order of KEY_FILES.
KeyFile == 1..3
Keys == [KeyFile -> 0..MaxGen]
Archive == [data : 0..MaxChange, file : Keys]
Command == {"boot", "start", "apply", "change", "backup", "restore", "rotate"}

\* Commands during which nothing else is taken to run: the operator sees to that as
\* far as commands go, but the panel's expiry loop may fall due and apply as well.
Alone == {"restore", "rotate"}

ASSUME ConstantsOK ==
  /\ Cli \subseteq Proc
  /\ Faults \subseteq {"kill", "redeploy", "space"}
  /\ MaxGen \in Nat \ {0} /\ MaxChange \in Nat /\ MaxOps \in Nat /\ MaxFaults \in Nat
  /\ NoArchive \notin Archive

VARIABLES
  file,       \* the key files
  db,         \* the database file: its state and the last change in it
  archives,   \* the whole archives in /data/backups
  up,         \* the bootstrap of this container has ensured the keys
  pc, cmd,    \* where each process is, and its command
  at,         \* the key file it is about to read or write
  found,      \* load_reality_keys: no file read so far was missing or empty
  gen,        \* the key pair it has generated
  copy,       \* the archive it is making
  from,       \* the archive it restores
  nextGen, nextChange,
  issued,     \* keys were complete once, so that links exist
  mishaps,    \* "cut": a restore or rotation ended while it was overwriting
              \* "unsaved": a restore went on without its safety copy
  ops, faults

disk == <<file, db, archives>>
local == <<at, found, gen, copy, from>>
history == <<nextGen, nextChange, issued, mishaps>>
bounds == <<ops, faults>>
vars == <<disk, up, pc, cmd, local, history, bounds>>

NoKeys == [k \in KeyFile |-> NoFile]
Label == {"idle", "schema", "migrate", "change", "users", "lock", "look", "write",
          "snapshot", "copy", "archive", "truncate", "fill", "truncateKey", "fillKey"}

TypeOK ==
  /\ file \in Keys
  /\ db \in [state : {"absent", "empty", "ready", "torn"}, data : 0..MaxChange]
  /\ archives \subseteq Archive
  /\ up \in BOOLEAN
  /\ pc \in [Proc -> Label]
  /\ cmd \in [Proc -> Command \union {"none"}]
  /\ at \in [Proc -> KeyFile]
  /\ found \in [Proc -> BOOLEAN]
  /\ gen \in [Proc -> 0..MaxGen]
  /\ copy \in [Proc -> Archive]
  /\ from \in [Proc -> Archive \union {NoArchive}]
  /\ nextGen \in 2..(MaxGen + 2) /\ nextChange \in 1..(MaxChange + 1)
  /\ issued \in BOOLEAN
  /\ mishaps \subseteq {"cut", "unsaved"}
  /\ ops \in 0..MaxOps /\ faults \in 0..MaxFaults

NoCopy == [data |-> 0, file |-> NoKeys]

Init ==
  /\ file = NoKeys
  /\ db = [state |-> "absent", data |-> 0]
  /\ archives = {}
  /\ up = FALSE
  /\ pc = [p \in Proc |-> "idle"] /\ cmd = [p \in Proc |-> "none"]
  /\ at = [p \in Proc |-> 1]
  /\ found = [p \in Proc |-> FALSE]
  /\ gen = [p \in Proc |-> 0]
  /\ copy = [p \in Proc |-> NoCopy]
  /\ from = [p \in Proc |-> NoArchive]
  /\ nextGen = 2 /\ nextChange = 1
  /\ issued = FALSE /\ mishaps = {}
  /\ ops = 0 /\ faults = 0

Whole(f) == \A k \in KeyFile : f[k] > EmptyFile
Matched(f) == \A j, k \in KeyFile : f[j] = f[k]
Busy(p) == pc[p] # "idle"

\* The first file is truncated already, or another is about to be.
Overwriting(p) ==
  \/ pc[p] \in {"fill", "fillKey"}
  \/ pc[p] = "truncateKey" /\ (cmd[p] = "restore" \/ at[p] > 1)

Goto(p, label) == pc' = [pc EXCEPT ![p] = label]

\* The process ends; what it remembered is gone.
Forget(p) ==
  /\ at' = [at EXCEPT ![p] = 1]
  /\ found' = [found EXCEPT ![p] = FALSE]
  /\ gen' = [gen EXCEPT ![p] = 0]
  /\ copy' = [copy EXCEPT ![p] = NoCopy]
  /\ from' = [from EXCEPT ![p] = NoArchive]

End(p) == Goto(p, "idle") /\ cmd' = [cmd EXCEPT ![p] = "none"] /\ Forget(p)

------------------------------------------------------------------------------
(* Commands *)

\* What a command does once the database has its schema.
FirstStep(c) ==
  CASE c \in {"boot", "start"} -> "look"
    [] c = "apply"             -> "users"
    [] c = "change"            -> "change"
    [] c \in {"backup", "restore"} -> "snapshot"
    [] c = "rotate"            -> "truncateKey"

\* Only vpnctl restores, only a shell rotates; the supervisor boots the
\* container once and then starts the panel.  vpnctl calls init_db first, the
\* panel only at its start, the script never.
Begin(p, c) ==
  /\ ~Busy(p)
  /\ ops < MaxOps /\ ops' = ops + 1
  /\ c \in {"restore", "rotate"} => p \in Cli
  /\ c \in {"boot", "start"} => p \notin Cli
  /\ IF c = "boot" THEN ~up /\ \A q \in Proc : cmd[q] # "boot" ELSE up
  /\ c \in Alone => \A q \in Proc : ~Busy(q)
  /\ \A q \in Proc : cmd[q] \notin Alone
  /\ cmd' = [cmd EXCEPT ![p] = c]
  /\ Goto(p, IF c # "rotate" /\ (p \in Cli \/ c \in {"boot", "start"})
               THEN "schema" ELSE FirstStep(c))
  /\ IF c = "restore" THEN \E a \in archives : from' = [from EXCEPT ![p] = a]
                      ELSE UNCHANGED from
  /\ IF c = "rotate" THEN nextGen <= MaxGen /\ gen' = [gen EXCEPT ![p] = nextGen]
                          /\ nextGen' = nextGen + 1
                     ELSE UNCHANGED <<gen, nextGen>>
  /\ UNCHANGED <<disk, up, at, found, copy, nextChange, issued, mishaps, faults>>

\* init_db: connect creates the file, then the applied migrations are read.
Schema(p) ==
  /\ pc[p] = "schema"
  /\ CASE db.state = "torn"  -> End(p) /\ UNCHANGED db
       [] db.state = "ready" -> Goto(p, FirstStep(cmd[p])) /\ UNCHANGED <<db, cmd, local>>
       [] OTHER -> /\ db' = [db EXCEPT !.state = "empty"]
                   /\ Goto(p, "migrate")
                   /\ UNCHANGED <<cmd, local>>
  /\ UNCHANGED <<file, archives, up, history, bounds>>

\* The migration and its row in one transaction; the row of somebody who was
\* faster makes it fail.
Migrate(p) ==
  /\ pc[p] = "migrate"
  /\ IF db.state = "empty"
       THEN /\ db' = [db EXCEPT !.state = "ready"]
            /\ Goto(p, FirstStep(cmd[p]))
            /\ UNCHANGED <<cmd, local>>
       ELSE End(p) /\ UNCHANGED db
  /\ UNCHANGED <<file, archives, up, history, bounds>>

\* A committed change of an account; the session then applies it.
Change(p) ==
  /\ pc[p] = "change"
  /\ nextChange <= MaxChange
  /\ IF db.state = "ready"
       THEN /\ db' = [db EXCEPT !.data = nextChange]
            /\ nextChange' = nextChange + 1
            /\ Goto(p, "users") /\ UNCHANGED <<cmd, local>>
       ELSE End(p) /\ UNCHANGED <<db, nextChange>>
  /\ UNCHANGED <<file, archives, up, nextGen, issued, mishaps, bounds>>

\* active_users
ReadUsers(p) ==
  /\ pc[p] = "users"
  /\ IF db.state = "ready" THEN Goto(p, "lock") /\ UNCHANGED <<cmd, local>> ELSE End(p)
  /\ UNCHANGED <<disk, up, history, bounds>>

\* config_lock, which ensure_reality_keys has in an apply and not in a boot.
Locked(p) == pc[p] \in {"look", "write"} /\ cmd[p] \notin {"boot", "start"}

Lock(p) ==
  /\ pc[p] = "lock"
  /\ IF \E q \in Proc : Locked(q)
       THEN End(p)     \* after 30 seconds
       ELSE Goto(p, "look") /\ UNCHANGED <<cmd, local>>
  /\ UNCHANGED <<disk, up, history, bounds>>

------------------------------------------------------------------------------
(* ensure_reality_keys *)

\* The keys are there; the bootstrap goes on to its apply.
Ensured(p) ==
  /\ issued' = TRUE
  /\ IF cmd[p] = "boot"
       THEN /\ up' = TRUE
            /\ Goto(p, "users") /\ cmd' = [cmd EXCEPT ![p] = "apply"] /\ Forget(p)
       ELSE End(p) /\ UNCHANGED up

\* Mutant: the private key alone is looked at, as the script does.
AllFoundFirst(p) == IF at[p] = 1 THEN file[1] > EmptyFile ELSE found[p]

\* Mutant: a file is looked for only where nobody puts one.
AllFoundNever(p) == FALSE

\* Every file read so far has content, this one included.
AllFound(p) == (at[p] > 1 => found[p]) /\ file[at[p]] > EmptyFile

\* load_reality_keys, one file at a time; a new pair unless all have content.
Look(p) ==
  /\ pc[p] = "look"
  /\ CASE at[p] < 3 ->
            /\ found' = [found EXCEPT ![p] = AllFound(p)]
            /\ at' = [at EXCEPT ![p] = @ + 1]
            /\ UNCHANGED <<up, pc, cmd, gen, copy, from, nextGen, issued>>
       [] at[p] = 3 /\ AllFound(p) -> Ensured(p) /\ UNCHANGED nextGen
       [] OTHER ->
            /\ nextGen <= MaxGen /\ nextGen' = nextGen + 1
            /\ gen' = [gen EXCEPT ![p] = nextGen]
            /\ at' = [at EXCEPT ![p] = 1]
            /\ Goto(p, "write")
            /\ UNCHANGED <<up, cmd, found, copy, from, issued>>
  /\ UNCHANGED <<disk, nextChange, mishaps, bounds>>

\* Mutant: a file that has content is left alone.
NewContentIfMissing(p) == IF file[at[p]] > EmptyFile THEN file[at[p]] ELSE gen[p]

NewContent(p) == gen[p]

\* _write_secret replaces one file as a whole, private key first.
Write(p) ==
  /\ pc[p] = "write"
  /\ file' = [file EXCEPT ![at[p]] = NewContent(p)]
  /\ IF at[p] < 3
       THEN at' = [at EXCEPT ![p] = @ + 1]
            /\ UNCHANGED <<up, pc, cmd, found, gen, copy, from, issued>>
       ELSE Ensured(p)
  /\ UNCHANGED <<db, archives, nextGen, nextChange, mishaps, bounds>>

------------------------------------------------------------------------------
(* create_backup and restore_backup *)

\* A backup ends here; restore_backup goes on, whether it has a copy or not.
AfterCopy(p) ==
  IF cmd[p] = "restore" THEN Goto(p, "truncate") /\ UNCHANGED <<cmd, local>> ELSE End(p)

NoBackup(p) ==
  /\ AfterCopy(p)
  /\ mishaps' = mishaps \union
       (IF cmd[p] = "restore" /\ db.state = "ready" THEN {"unsaved"} ELSE {})

\* VACUUM INTO; BackupError when there is no users table to count.
SnapshotDatabase(p) ==
  /\ pc[p] = "snapshot"
  /\ IF db.state = "ready"
       THEN /\ copy' = [copy EXCEPT ![p] = [NoCopy EXCEPT !.data = db.data]]
            /\ at' = [at EXCEPT ![p] = 1]
            /\ Goto(p, "copy")
            /\ UNCHANGED <<cmd, found, gen, from, mishaps>>
       ELSE NoBackup(p)
  /\ UNCHANGED <<disk, up, nextGen, nextChange, issued, bounds>>

Copied(p) == file[at[p]]

CopyKey(p) ==
  /\ pc[p] = "copy"
  /\ copy' = [copy EXCEPT ![p].file[at[p]] = Copied(p)]
  /\ IF at[p] < 3 THEN at' = [at EXCEPT ![p] = @ + 1] /\ UNCHANGED pc
                  ELSE at' = [at EXCEPT ![p] = 1] /\ Goto(p, "archive")
  /\ UNCHANGED <<disk, up, cmd, found, gen, from, history, bounds>>

\* Mutant: restore_backup takes no safety copy.
ArchivedOnBackup(p) == IF cmd[p] = "backup" THEN archives \union {copy[p]} ELSE archives

Archived(p) == archives \union {copy[p]}

\* The tar file; one that is cut short cannot be restored and does not count.
WriteArchive(p) ==
  /\ pc[p] = "archive"
  /\ archives' = Archived(p)
  /\ AfterCopy(p)
  /\ UNCHANGED <<file, db, up, history, bounds>>

\* write_bytes truncates the database file and then fills it.
TruncateDatabase(p) ==
  /\ pc[p] = "truncate"
  /\ db' = [state |-> "empty", data |-> 0]
  /\ Goto(p, "fill")
  /\ UNCHANGED <<file, archives, up, cmd, local, history, bounds>>

FillDatabase(p) ==
  /\ pc[p] = "fill"
  /\ db' = [state |-> "ready", data |-> from[p].data]
  /\ at' = [at EXCEPT ![p] = 1]
  /\ Goto(p, "truncateKey")
  /\ UNCHANGED <<file, archives, up, cmd, found, gen, copy, from, history, bounds>>

\* What a restore or a rotation puts into key file k.
Source(p, k) == IF cmd[p] = "rotate" THEN gen[p] ELSE from[p].file[k]

\* Mutant: the script keeps the short id.
NextKeyKeepsShortId(p) ==
  IF at[p] < 3 /\ (cmd[p] # "rotate" \/ at[p] = 1)
    THEN /\ at' = [at EXCEPT ![p] = @ + 1]
         /\ Goto(p, "truncateKey")
         /\ UNCHANGED <<cmd, found, gen, copy, from>>
    ELSE End(p)

\* After the last file the script ends and vpnctl calls init_db and sync.
NextKey(p) ==
  CASE at[p] < 3 -> /\ at' = [at EXCEPT ![p] = @ + 1]
                    /\ Goto(p, "truncateKey")
                    /\ UNCHANGED <<cmd, found, gen, copy, from>>
    [] at[p] = 3 /\ cmd[p] = "rotate" -> End(p)
    [] OTHER -> /\ Goto(p, "schema")
                /\ cmd' = [cmd EXCEPT ![p] = "apply"]
                /\ Forget(p)

\* A file the archive does not have is skipped.
TruncateKey(p) ==
  /\ pc[p] = "truncateKey"
  /\ IF Source(p, at[p]) = NoFile
       THEN NextKey(p) /\ UNCHANGED file
       ELSE /\ file' = [file EXCEPT ![at[p]] = EmptyFile]
            /\ Goto(p, "fillKey")
            /\ UNCHANGED <<cmd, local>>
  /\ UNCHANGED <<db, archives, up, history, bounds>>

FillKey(p) ==
  /\ pc[p] = "fillKey"
  /\ file' = [file EXCEPT ![at[p]] = Source(p, at[p])]
  /\ NextKey(p)
  /\ UNCHANGED <<db, archives, up, history, bounds>>

------------------------------------------------------------------------------
(* Faults *)

FaultsLeft(kind) == kind \in Faults /\ faults < MaxFaults /\ faults' = faults + 1

\* Those of set P end where they are; a database that was being filled is left
\* empty or with a part of its pages.
LeaveBehind(P) ==
  /\ IF \E p \in P : pc[p] = "fill"
       THEN \E s \in {"empty", "torn"} : db' = [db EXCEPT !.state = s]
       ELSE UNCHANGED db
  /\ mishaps' = mishaps \union (IF \E p \in P : Overwriting(p) THEN {"cut"} ELSE {})

\* A process is killed or gets an error while it writes to the disk.
Kill(p) ==
  /\ FaultsLeft("kill")
  /\ Busy(p)
  /\ LeaveBehind({p})
  /\ End(p)
  /\ UNCHANGED <<file, archives, up, nextGen, nextChange, issued, ops>>

\* The container is replaced and only /data is left.
Redeploy ==
  /\ FaultsLeft("redeploy")
  /\ LeaveBehind(Proc)
  /\ up' = FALSE
  /\ pc' = [p \in Proc |-> "idle"] /\ cmd' = [p \in Proc |-> "none"]
  /\ at' = [p \in Proc |-> 1]
  /\ found' = [p \in Proc |-> FALSE]
  /\ gen' = [p \in Proc |-> 0]
  /\ copy' = [p \in Proc |-> NoCopy]
  /\ from' = [p \in Proc |-> NoArchive]
  /\ UNCHANGED <<file, archives, nextGen, nextChange, issued, ops>>

\* The disk has no room for the snapshot or for the tar file.
NoSpace(p) ==
  /\ FaultsLeft("space")
  /\ pc[p] \in {"snapshot", "archive"}
  /\ NoBackup(p)
  /\ UNCHANGED <<disk, up, nextGen, nextChange, issued, ops>>

------------------------------------------------------------------------------

Step(p) ==
  \/ Schema(p) \/ Migrate(p) \/ Change(p) \/ ReadUsers(p) \/ Lock(p)
  \/ Look(p) \/ Write(p)
  \/ SnapshotDatabase(p) \/ CopyKey(p) \/ WriteArchive(p)
  \/ TruncateDatabase(p) \/ FillDatabase(p) \/ TruncateKey(p) \/ FillKey(p)

Next ==
  \/ \E p \in Proc :
       \/ \E c \in Command : Begin(p, c)
       \/ Step(p)
       \/ Kill(p)
       \/ NoSpace(p)
  \/ Redeploy

Spec == Init /\ [][Next]_vars

------------------------------------------------------------------------------
(* Invariants *)

Cut == "cut" \in mishaps

\* Which command a process may be at which step with.
Fits(label, c) ==
  /\ label = "idle" <=> c = "none"
  /\ label = "change" => c = "change"
  /\ label \in {"schema", "migrate"} => c # "rotate"
  /\ label \in {"users", "lock"} => c \in {"apply", "change"}
  /\ label \in {"look", "write"} => c \in {"boot", "start", "apply", "change"}
  /\ label \in {"snapshot", "copy", "archive"} => c \in {"backup", "restore"}
  /\ label \in {"truncate", "fill"} => c = "restore"
  /\ label \in {"truncateKey", "fillKey"} => c \in Alone

\* Who runs with whom: nothing before the bootstrap is through, and nothing
\* beside a restore or rotation.
Places ==
  /\ \A p \in Proc : Fits(pc[p], cmd[p]) /\ (Busy(p) => (cmd[p] = "boot" <=> ~up))
  /\ \A p, q \in Proc :
       p # q /\ Busy(p) /\ Busy(q) => cmd[p] \notin Alone \union {"boot"}

Good(f) == Whole(f) /\ Matched(f)

\* Whoever goes through the key files starts with the first.  Readers of issued
\* keys find them; whoever writes keys has written one pair
\* so far; whoever copies them has copied what is there.
KeysOf(p) ==
  /\ pc[p] \notin {"look", "write", "copy", "truncateKey", "fillKey"} => at[p] = 1
  /\ pc[p] = "look" /\ issued /\ at[p] > 1 => found[p]
  /\ pc[p] = "write" =>
       /\ ~issued /\ gen[p] > EmptyFile
       /\ \A k \in KeyFile : k < at[p] => file[k] = gen[p]
  /\ pc[p] = "copy" => \A k \in KeyFile : k < at[p] => copy[p].file[k] = file[k]
  /\ pc[p] = "archive" => \A k \in KeyFile : copy[p].file[k] = file[k]
  /\ pc[p] \in {"truncateKey", "fillKey"} =>
       /\ cmd[p] = "rotate" => gen[p] > EmptyFile
       /\ \A k \in KeyFile : k < at[p] => file[k] = Source(p, k)

\* Until the keys are complete for the first time there is no short id; from
\* then on the files are good whenever nobody overwrites them.
KeysInv ==
  /\ ~issued => file[3] = NoFile /\ archives = {} /\ ~up
  /\ issued /\ (\A p \in Proc : ~Overwriting(p)) => Good(file)
  /\ \A a \in archives : Good(a.file)
  /\ \A p \in Proc : KeysOf(p)

\* The state after the last committed change is never lost: it is in the
\* database or in an archive, wherever a restore of something else stands,
\* unless that restore had no safety copy.
Recoverable ==
  \/ "unsaved" \in mishaps
  \/ db = [state |-> "ready", data |-> nextChange - 1]
  \/ nextChange = 1
  \/ \E a \in archives : a.data = nextChange - 1

\* A restore that is about to overwrite the database has a copy of it.
DataOf(p) ==
  /\ cmd[p] = "restore" => from[p] \in archives
  /\ cmd[p] = "restore" /\ pc[p] \in {"copy", "archive"} =>
       db.state = "ready" /\ copy[p].data = db.data
  /\ pc[p] = "truncate" /\ db.state = "ready" =>
       "unsaved" \in mishaps \/ \E a \in archives : a.data = db.data
  /\ pc[p] = "fill" => db.state = "empty"

\* The inductive invariant: the steps, the keys as long as no overwriting was
\* cut short, and the data.
VolumeInv ==
  /\ TypeOK
  /\ Places
  /\ Cut \/ KeysInv
  /\ Recoverable /\ \A p \in Proc : DataOf(p)

------------------------------------------------------------------------------
(* Properties *)

\* Key files that are all there belong together: a boot that was cut short, at
\* whichever file, never leaves a private key with another pair's public key or
\* short id to be taken for complete keys.
KeysMatch == Cut \/ (\E p \in Proc : Overwriting(p)) \/ (Whole(file) => Matched(file))

\* Once links have been handed out, nobody but the operator who rotates makes
\* new keys: no boot, panel start or apply, at whatever moment it looks.
KeysKept ==
  [][(issued /\ ~Cut /\ nextGen' # nextGen)
       => \E p \in Proc : ~Busy(p) /\ cmd'[p] = "rotate"]_vars

\* What app/bootstrap.py says of itself: a redeploy neither regenerates keys
\* that were issued nor resets a database that has had changes.
RedeployKeepsVolume ==
  [][\A p \in Proc : cmd[p] = "boot" =>
       /\ issued => nextGen' = nextGen
       /\ (pc[p] = "migrate" /\ db.state = "empty" /\ db'.state = "ready") => nextChange = 1]_vars

==============================================================================
