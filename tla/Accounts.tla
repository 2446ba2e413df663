------------------------------ MODULE Accounts ------------------------------
(***************************************************************************)
(* The users table of app/models.py and the operations on it in            *)
(* app/service.py, with the expiry sweep of app/expiry.py.  An operation   *)
(* reads the account in one connection and updates it by id in another, so *)
(* other sessions, the sweep and the clock move in between.  What the      *)
(* operations then apply to Xray is ApplyPipeline's.                       *)
(***************************************************************************)
EXTENDS Naturals, FiniteSets

CONSTANTS
  Session,     \* panel requests and vpnctl commands
  Name,        \* user names
  Fold,        \* a name in lower case: what COLLATE NOCASE compares
  Days,        \* arguments of --days
  Dates,       \* arguments of --expire, Never included
  MaxId,       \* bound: rows ever inserted
  MaxTime,     \* bound: the clock, in days
  Horizon,     \* bound: the latest expiry date
  MaxUuid,     \* bound: UUIDs of one account
  MaxOps,      \* bound: operations in one behaviour
  NoRow, NoJob

\* expires_at IS NULL
Never == Horizon + 1

ASSUME ConstantsOK ==
  /\ Days \subseteq Nat \ {0}
  /\ Fold \in [Name -> Name]
  /\ MaxId \in Nat /\ MaxTime \in Nat /\ Horizon \in Nat
  /\ MaxUuid \in Nat /\ MaxOps \in Nat
  /\ Dates \subseteq 0..Never

Id == 1..MaxId
\* asOf is history: the ids below it had been given out when the name was looked up.
Row == [name : Name, expires : 0..Never, enabled : BOOLEAN, uuid : 0..MaxUuid,
        asOf : 1..(MaxId + 1)]
\* An operation under way: the row its session has read, and what it will write.
Job == [op : {"create", "delete", "enable", "disable", "expiry", "uuid"},
        id : 0..MaxId, seen : Row, enable : BOOLEAN]

ASSUME AbsentValues == NoRow \notin Row /\ NoJob \notin Job

VARIABLES
  now,         \* utcnow()
  rows,        \* the users table
  nextId,      \* AUTOINCREMENT
  pc, job,     \* where each session is, and its operation
  sweep,       \* ids the sweep has listed and not disabled yet
  ops

session == <<pc, job>>
vars == <<now, rows, nextId, session, sweep, ops>>

TypeOK ==
  /\ now \in 0..MaxTime
  /\ rows \in [Id -> Row \union {NoRow}]
  /\ nextId \in 1..(MaxId + 1)
  /\ pc \in [Session -> {"idle", "check", "write"}]
  /\ job \in [Session -> Job \union {NoJob}]
  /\ sweep \subseteq Id
  /\ ops \in 0..MaxOps

Init ==
  /\ now = 0
  /\ rows = [i \in Id |-> NoRow]
  /\ nextId = 1
  /\ pc = [s \in Session |-> "idle"]
  /\ job = [s \in Session |-> NoJob]
  /\ sweep = {}
  /\ ops = 0

Exists(i) == i \in Id /\ rows[i] # NoRow

\* Mutant: an account is expired only on the day after its date.
ExpiredStrictly(row) == row.expires < now

Expired(row) == row.expires <= now

------------------------------------------------------------------------------
(* Operations *)

Start(s, label, j) ==
  /\ pc[s] = "idle"
  /\ ops < MaxOps /\ ops' = ops + 1
  /\ pc' = [pc EXCEPT ![s] = label]
  /\ job' = [job EXCEPT ![s] = j]
  /\ UNCHANGED <<now, rows, nextId, sweep>>

End(s) ==
  /\ pc' = [pc EXCEPT ![s] = "idle"]
  /\ job' = [job EXCEPT ![s] = NoJob]

NewJob(op, i, row) ==
  [op |-> op, id |-> i, seen |-> row, enable |-> TRUE]

\* Mutants: the look-up tells upper from lower case; the column is not UNIQUE.
NameTakenExactly(name) == \E i \in Id : rows[i] # NoRow /\ rows[i].name = name
NeverUsed(name) == FALSE

\* get_user_by_username looks a name up without regard to case ...
NameTaken(name) == \E i \in Id : rows[i] # NoRow /\ Fold[rows[i].name] = Fold[name]

\* ... but the UNIQUE constraint of the column compares names as they are.
NameUsed(name) == \E i \in Id : rows[i] # NoRow /\ rows[i].name = name

\* create_user: refused when the name is taken, otherwise INSERT later.
BeginCreate(s, name, expires) ==
  /\ ~NameTaken(name)
  /\ Start(s, "write",
       NewJob("create", 0,
              [name |-> name, expires |-> expires, enabled |-> TRUE, uuid |-> 0,
               asOf |-> nextId]))

\* delete_user_by_id, set_enabled(False), regenerate_uuid: get_user, then write.
BeginUpdate(s, i, op) ==
  /\ Exists(i)
  /\ op \in {"delete", "disable", "uuid"}
  /\ Start(s, "write", NewJob(op, i, rows[i]))

\* set_enabled(True) refuses an account that has expired.
BeginEnable(s, i) ==
  /\ Exists(i)
  /\ ~Expired(rows[i])
  /\ Start(s, "write", NewJob("enable", i, rows[i]))

\* expiry_from_days with the base renew_account picks.
Extend(row, days) ==
  IF row.expires # Never /\ ~Expired(row) THEN row.expires + days ELSE now + days

\* renew_account --days: the new date is computed from the row read here.
BeginRenew(s, i, days) ==
  /\ Exists(i)
  /\ Extend(rows[i], days) <= Horizon
  /\ Start(s, "check",
       NewJob("expiry", i, [rows[i] EXCEPT !.expires = Extend(rows[i], days)]))

BeginSetDate(s, i, date) ==
  /\ Exists(i)
  /\ Start(s, "check", NewJob("expiry", i, [rows[i] EXCEPT !.expires = date]))

\* set_expiry looks the account up again and decides whether to enable it.
CheckExpiry(s) ==
  /\ pc[s] = "check"
  /\ IF Exists(job[s].id)
       THEN /\ pc' = [pc EXCEPT ![s] = "write"]
            /\ job' = [job EXCEPT ![s].enable = job[s].seen.expires > now]
       ELSE End(s)
  /\ UNCHANGED <<now, rows, nextId, sweep, ops>>

\* Mutants: AUTOINCREMENT is dropped, so the highest free id is used again; an
\* update writes back every column of the row that was read.
FreshIdReused ==
  CHOOSE i \in Id : rows[i] = NoRow /\ \A j \in Id : j < i => rows[j] # NoRow

WrittenWhole(j) == [j.seen EXCEPT
  !.enabled = IF j.op \in {"enable", "expiry"} THEN TRUE ELSE @,
  !.uuid = IF j.op = "uuid" THEN @ + 1 ELSE @]

FreshId == nextId

\* The columns each UPDATE statement sets, on the row as it is now.
Updated(j) == [rows[j.id] EXCEPT
  !.enabled = CASE j.op = "enable" -> TRUE
                [] j.op = "disable" -> FALSE
                [] j.op = "expiry" /\ j.enable -> TRUE
                [] OTHER -> @,
  !.expires = IF j.op = "expiry" THEN j.seen.expires ELSE @,
  !.uuid = IF j.op = "uuid" THEN @ + 1 ELSE @]

\* INSERT fails on the UNIQUE constraint if that very name has been taken meanwhile.
Insert(s) ==
  /\ pc[s] = "write" /\ job[s].op = "create"
  /\ IF NameUsed(job[s].seen.name)
       THEN UNCHANGED <<rows, nextId>>
       ELSE /\ nextId <= MaxId
            /\ rows' = [rows EXCEPT ![FreshId] = job[s].seen]
            /\ nextId' = nextId + 1
  /\ End(s)
  /\ UNCHANGED <<now, sweep, ops>>

Delete(s) ==
  /\ pc[s] = "write" /\ job[s].op = "delete"
  /\ rows' = [rows EXCEPT ![job[s].id] = NoRow]
  /\ End(s)
  /\ UNCHANGED <<now, nextId, sweep, ops>>

\* UPDATE ... WHERE id = ?: no row, no effect, and the caller gets None.
Update(s) ==
  /\ pc[s] = "write" /\ job[s].op \in {"enable", "disable", "expiry", "uuid"}
  /\ IF Exists(job[s].id)
       THEN /\ Updated(job[s]).uuid <= MaxUuid
            /\ rows' = [rows EXCEPT ![job[s].id] = Updated(job[s])]
       ELSE UNCHANGED rows
  /\ End(s)
  /\ UNCHANGED <<now, nextId, sweep, ops>>

------------------------------------------------------------------------------
(* The sweep and the clock *)

Due == {i \in Id : rows[i] # NoRow /\ rows[i].enabled /\ Expired(rows[i])}

\* disable_expired_users: the accounts are listed once...
SweepList ==
  /\ sweep = {}
  /\ Due # {}
  /\ sweep' = Due
  /\ UNCHANGED <<now, rows, nextId, session, ops>>

\* ... and disabled one by one, in transactions of their own, without a second look.
SweepOne(i) ==
  /\ i \in sweep
  /\ sweep' = sweep \ {i}
  /\ rows' = IF rows[i] # NoRow THEN [rows EXCEPT ![i].enabled = FALSE] ELSE rows
  /\ UNCHANGED <<now, nextId, session, ops>>

\* The admin process is restarted; its sweep is gone, commands in vpnctl are not.
SweepInterrupted ==
  /\ sweep # {}
  /\ ops < MaxOps /\ ops' = ops + 1
  /\ sweep' = {}
  /\ UNCHANGED <<now, rows, nextId, session>>

Tick ==
  /\ now < MaxTime
  /\ now' = now + 1
  /\ UNCHANGED <<rows, nextId, session, sweep, ops>>

Begin(s) ==
  \/ \E name \in Name, date \in Dates : BeginCreate(s, name, date)
  \/ \E i \in Id, op \in {"delete", "disable", "uuid"} : BeginUpdate(s, i, op)
  \/ \E i \in Id : BeginEnable(s, i)
  \/ \E i \in Id, days \in Days : BeginRenew(s, i, days)
  \/ \E i \in Id, date \in Dates : BeginSetDate(s, i, date)

Finish(s) == CheckExpiry(s) \/ Insert(s) \/ Delete(s) \/ Update(s)

Next ==
  \/ \E s \in Session : Begin(s) \/ Finish(s)
  \/ SweepList \/ (\E i \in Id : SweepOne(i)) \/ SweepInterrupted
  \/ Tick

Spec == Init /\ [][Next]_vars

(***************************************************************************)
(* expiry_loop runs a cycle every EXPIRY_CHECK_INTERVAL, whatever the last *)
(* one raised.                                                             *)
(***************************************************************************)
FairSpec == Spec /\ WF_vars(SweepList) /\ WF_vars(\E i \in Id : SweepOne(i))

------------------------------------------------------------------------------
(* Properties *)

Alike(name, other) == Fold[name] = Fold[other]

\* However creations, deletions and re-creations overlap, no name is held twice;
\* and two names that differ in case only are both held only if the look-up for the
\* later came before the INSERT of the earlier (the constraint does not tell).
UniqueNames ==
  \A i, j \in Id : (Exists(i) /\ Exists(j) /\ i < j) =>
    /\ rows[i].name # rows[j].name
    /\ Alike(rows[i].name, rows[j].name) => rows[j].asOf <= i

\* An operation on an account that is deleted, and its name or place reused, while
\* it is under way never lands on another account.
UpdateHitsItsAccount ==
  \A s \in Session :
    (job[s] # NoJob /\ Exists(job[s].id)) => rows[job[s].id].name = job[s].seen.name

\* The inductive invariant behind the two: AUTOINCREMENT stays ahead of the rows
\* and of every operation under way, so an id never changes hands.
AheadOfIds ==
  /\ \A i \in Id : Exists(i) => i < nextId
  /\ \A s \in Session : job[s] # NoJob => job[s].id < nextId

\* What a creation under way saw is still so for the rows that were there.
LookedUp ==
  \A s \in Session : (job[s] # NoJob /\ job[s].op = "create") =>
    /\ job[s].seen.asOf <= nextId
    /\ \A i \in Id : (Exists(i) /\ i < job[s].seen.asOf) =>
         ~Alike(rows[i].name, job[s].seen.name)

BusyHasJob == \A s \in Session : pc[s] # "idle" <=> job[s] # NoJob

AccountsInv ==
  /\ TypeOK /\ BusyHasJob /\ AheadOfIds
  /\ LookedUp /\ UniqueNames /\ UpdateHitsItsAccount

\* "Credentials regenerated. Previously issued links no longer work": no other
\* operation that was under way brings an old UUID back.
OldUuidStaysDead ==
  [][\A i \in Id : (Exists(i) /\ Exists(i)') => rows'[i].uuid >= rows[i].uuid]_vars

\* An account whose date has passed is disabled, renewed or deleted in the end,
\* also when it was enabled, or given a past date, after the sweep had listed.
ExpiredIsDisabled ==
  \A i \in Id : (Exists(i) /\ rows[i].enabled /\ rows[i].expires <= now)
                  ~> ~(Exists(i) /\ rows[i].enabled /\ rows[i].expires <= now)
==============================================================================
