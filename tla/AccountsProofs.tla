--------------------------- MODULE AccountsProofs ---------------------------
(***************************************************************************)
(* Proofs about the users table: an id never changes hands, a name is      *)
(* never held twice, and two names that differ in case only are both held  *)
(* only after overlapping creations, whatever the number of sessions,      *)
(* accounts and dates.                                                     *)
(***************************************************************************)
EXTENDS Accounts, TLAPS

\* Steps that leave the table and the sessions alone.
LEMMA AccountsStutter ==
  ASSUME AccountsInv, UNCHANGED <<rows, nextId, pc, job>>,
         now' \in 0..MaxTime, sweep' \subseteq Id, ops' \in 0..MaxOps
  PROVE  AccountsInv'
BY DEF AccountsInv, TypeOK, BusyHasJob, AheadOfIds, LookedUp, UniqueNames,
       UpdateHitsItsAccount, Exists, Id

\* The initial table is empty and nothing is under way.
LEMMA AccountsStart == Init => AccountsInv
<1> SUFFICES ASSUME Init PROVE AccountsInv
  OBVIOUS
<1> USE ConstantsOK DEF Init
<1>1. TypeOK
  BY DEF TypeOK
<1>2. \A i \in Id : ~Exists(i)
  BY DEF Exists
<1> QED
  BY <1>1, <1>2
  DEF AccountsInv, BusyHasJob, AheadOfIds, LookedUp, UniqueNames, UpdateHitsItsAccount

\* A session that begins an operation on an account that exists, or on none.
LEMMA StartStep ==
  ASSUME AccountsInv, NEW s \in Session, NEW label \in {"check", "write"},
         NEW j \in Job, Start(s, label, j),
         j.id < nextId,
         Exists(j.id) => rows[j.id].name = j.seen.name,
         j.op = "create" =>
           /\ j.seen.asOf = nextId
           /\ \A i \in Id : Exists(i) => ~Alike(rows[i].name, j.seen.name)
  PROVE  AccountsInv'
<1> USE ConstantsOK, AbsentValues
<1>1. /\ TypeOK /\ BusyHasJob /\ AheadOfIds /\ LookedUp /\ UniqueNames
      /\ UpdateHitsItsAccount /\ j # NoJob
  BY DEF AccountsInv
<1>2. TypeOK'
  BY <1>1 DEF TypeOK, Start
<1>3. BusyHasJob'
  BY <1>1 DEF TypeOK, Start, BusyHasJob
<1>4. AheadOfIds'
  BY <1>1 DEF TypeOK, Start, AheadOfIds, Exists
<1>5. UniqueNames'
  BY <1>1 DEF Start, UniqueNames, Exists
<1>6. UpdateHitsItsAccount'
  BY <1>1 DEF TypeOK, Start, UpdateHitsItsAccount, Exists
<1>7. LookedUp'
  <2>1. nextId \in Nat /\ rows' = rows /\ nextId' = nextId /\ job' = [job EXCEPT ![s] = j]
    BY <1>1 DEF TypeOK, Start
  <2> QED
    BY <1>1, <2>1 DEF TypeOK, LookedUp, Exists
<1> QED
  BY <1>2, <1>3, <1>4, <1>5, <1>6, <1>7 DEF AccountsInv

\* The jobs that Begin hands to Start are well formed.
LEMMA BeginStep ==
  ASSUME AccountsInv, NEW s \in Session, Begin(s)
  PROVE  AccountsInv'
<1> USE ConstantsOK, AbsentValues
<1>1. /\ TypeOK /\ AheadOfIds /\ nextId \in Nat
      /\ \A i \in Id : Exists(i) => rows[i] \in Row /\ i < nextId /\ i \in Nat
  BY DEF AccountsInv, TypeOK, AheadOfIds, Exists, Id
<1>2. CASE \E name \in Name, date \in Dates : BeginCreate(s, name, date)
  <2>1. PICK name \in Name, date \in Dates : BeginCreate(s, name, date)
    BY <1>2
  <2> DEFINE r == [name |-> name, expires |-> date, enabled |-> TRUE, uuid |-> 0,
                  asOf |-> nextId]
             j == NewJob("create", 0, r)
  <2>2. r \in Row
    BY <1>1 DEF Row, TypeOK
  <2>3. j \in Job /\ j.id = 0
    BY <2>2 DEF NewJob, Job
  <2>4. 0 < nextId /\ ~Exists(0)
    BY <1>1 DEF TypeOK, Exists, Id
  <2>5. Start(s, "write", j)
    BY <2>1 DEF BeginCreate
  <2>6. /\ j.seen.asOf = nextId
        /\ \A i \in Id : Exists(i) => ~Alike(rows[i].name, j.seen.name)
    BY <2>1 DEF BeginCreate, NameTaken, Exists, Alike, NewJob
  <2> HIDE DEF j
  <2> QED
    BY <2>3, <2>4, <2>5, <2>6, StartStep
<1>3. CASE \E i \in Id, op \in {"delete", "disable", "uuid"} : BeginUpdate(s, i, op)
  <2>1. PICK i \in Id, op \in {"delete", "disable", "uuid"} : BeginUpdate(s, i, op)
    BY <1>3
  <2> DEFINE j == NewJob(op, i, rows[i])
  <2>2. Exists(i) /\ Start(s, "write", j)
    BY <2>1 DEF BeginUpdate
  <2>3. j \in Job /\ j.id = i /\ j.seen = rows[i] /\ j.op # "create"
    BY <1>1, <2>2 DEF NewJob, Job, Id
  <2> HIDE DEF j
  <2> QED
    BY <1>1, <2>2, <2>3, StartStep
<1>4. CASE \E i \in Id : BeginEnable(s, i)
  <2>1. PICK i \in Id : BeginEnable(s, i)
    BY <1>4
  <2> DEFINE j == NewJob("enable", i, rows[i])
  <2>2. Exists(i) /\ Start(s, "write", j)
    BY <2>1 DEF BeginEnable
  <2>3. j \in Job /\ j.id = i /\ j.seen = rows[i] /\ j.op # "create"
    BY <1>1, <2>2 DEF NewJob, Job, Id
  <2> HIDE DEF j
  <2> QED
    BY <1>1, <2>2, <2>3, StartStep
<1>5. CASE \E i \in Id, days \in Days : BeginRenew(s, i, days)
  <2>1. PICK i \in Id, days \in Days : BeginRenew(s, i, days)
    BY <1>5
  <2> DEFINE r == [rows[i] EXCEPT !.expires = Extend(rows[i], days)]
             j == NewJob("expiry", i, r)
  <2>2. Exists(i) /\ Start(s, "check", j)
    BY <2>1 DEF BeginRenew
  <2>3. Extend(rows[i], days) \in 0..Never
    <3>1. Extend(rows[i], days) \in Nat
      BY <1>1, <2>2 DEF Extend, Row, Never, TypeOK
    <3>2. Extend(rows[i], days) <= Horizon
      BY <2>1 DEF BeginRenew
    <3> QED
      BY <3>1, <3>2 DEF Never
  <2>4. r \in Row /\ r.name = rows[i].name
    BY <1>1, <2>2, <2>3 DEF Row
  <2>5. j \in Job /\ j.id = i /\ j.seen = r /\ j.op # "create"
    BY <1>1, <2>4 DEF NewJob, Job, Id
  <2> HIDE DEF j, r
  <2> QED
    BY <1>1, <2>2, <2>4, <2>5, StartStep
<1>6. CASE \E i \in Id, date \in Dates : BeginSetDate(s, i, date)
  <2>1. PICK i \in Id, date \in Dates : BeginSetDate(s, i, date)
    BY <1>6
  <2> DEFINE r == [rows[i] EXCEPT !.expires = date]
             j == NewJob("expiry", i, r)
  <2>2. Exists(i) /\ Start(s, "check", j)
    BY <2>1 DEF BeginSetDate
  <2>3. r \in Row /\ r.name = rows[i].name
    BY <1>1, <2>2 DEF Row
  <2>4. j \in Job /\ j.id = i /\ j.seen = r /\ j.op # "create"
    BY <1>1, <2>3 DEF NewJob, Job, Id
  <2> HIDE DEF j, r
  <2> QED
    BY <1>1, <2>2, <2>3, <2>4, StartStep
<1> QED
  BY <1>2, <1>3, <1>4, <1>5, <1>6 DEF Begin

Columns(r, a, b, c) == [r EXCEPT !.enabled = a, !.expires = b, !.uuid = c]

\* An UPDATE that sets columns of the right types leaves a row with the same name.
LEMMA ColumnsTyped ==
  ASSUME NEW r \in Row, NEW a \in BOOLEAN, NEW b \in 0..Never, NEW c \in 0..MaxUuid
  PROVE  /\ Columns(r, a, b, c) \in Row
         /\ Columns(r, a, b, c).name = r.name /\ Columns(r, a, b, c).asOf = r.asOf
BY DEF Row, Columns

\* Operations that end: the row they write, if any, keeps its name and its id.
LEMMA FinishStep ==
  ASSUME AccountsInv, NEW s \in Session, Finish(s)
  PROVE  AccountsInv'
<1> USE ConstantsOK, AbsentValues
<1>1. /\ TypeOK /\ BusyHasJob /\ AheadOfIds /\ LookedUp /\ UniqueNames
      /\ UpdateHitsItsAccount
      /\ nextId \in Nat
      /\ pc[s] # "idle" => job[s] \in Job
      /\ \A i \in Id : Exists(i) => rows[i] \in Row /\ i < nextId
      /\ Id \subseteq Nat
  BY DEF AccountsInv, TypeOK, BusyHasJob, AheadOfIds, Exists, Id
<1>2. CASE CheckExpiry(s)
  <2>1. UNCHANGED <<now, rows, nextId, sweep, ops>>
    BY <1>2 DEF CheckExpiry
  <2>2. CASE End(s)
    BY <1>1, <2>1, <2>2
    DEF AccountsInv, TypeOK, BusyHasJob, AheadOfIds, LookedUp, UniqueNames,
        UpdateHitsItsAccount, Exists, End
  <2>3. CASE /\ pc' = [pc EXCEPT ![s] = "write"]
             /\ job' = [job EXCEPT ![s].enable = job[s].seen.expires > now]
    <3>1. job[s] \in Job /\ job'[s] \in Job /\ job'[s].id = job[s].id
          /\ job'[s].seen = job[s].seen /\ job'[s].op = job[s].op
      <4> DEFINE e == job[s].seen.expires > now
      <4>1. job[s] \in Job /\ e \in BOOLEAN
        BY <1>1, <1>2 DEF CheckExpiry
      <4>2. job'[s] = [job[s] EXCEPT !.enable = e]
        BY <1>1, <2>3 DEF TypeOK
      <4> HIDE DEF e
      <4> QED
        BY <4>1, <4>2 DEF Job
    <3>2. \A q \in Session : q # s => job'[q] = job[q] /\ pc'[q] = pc[q]
      BY <1>1, <2>3 DEF TypeOK
    <3>3. TypeOK'
      <4>1. job' \in [Session -> Job \union {NoJob}]
        BY <1>1, <2>3, <3>1, <3>2 DEF TypeOK
      <4> QED
        BY <1>1, <2>1, <2>3, <4>1 DEF TypeOK
    <3>4. BusyHasJob'
      BY <1>1, <1>2, <2>3, <3>1, <3>2 DEF BusyHasJob, CheckExpiry, TypeOK
    <3>5. AheadOfIds' /\ LookedUp' /\ UniqueNames' /\ UpdateHitsItsAccount'
      BY <1>1, <2>1, <3>1, <3>2
      DEF AheadOfIds, LookedUp, UniqueNames, UpdateHitsItsAccount, Exists
    <3> QED
      BY <3>3, <3>4, <3>5 DEF AccountsInv
  <2> QED
    BY <1>2, <2>2, <2>3 DEF CheckExpiry
<1>3. ASSUME End(s)
      PROVE  /\ pc' \in [Session -> {"idle", "check", "write"}]
             /\ job' \in [Session -> Job \union {NoJob}]
             /\ BusyHasJob'
             /\ job'[s] = NoJob
             /\ \A q \in Session : q # s => job'[q] = job[q]
  BY <1>1, <1>3 DEF End, TypeOK, BusyHasJob
<1>4. CASE Insert(s)
  <2>1. End(s) /\ UNCHANGED <<now, sweep, ops>> /\ job[s] \in Job
    BY <1>1, <1>4 DEF Insert
  <2>2. CASE NameUsed(job[s].seen.name)
    <3>1. UNCHANGED <<rows, nextId>>
      BY <1>4, <2>2 DEF Insert
    <3> QED
      BY <1>1, <1>3, <2>1, <3>1
      DEF AccountsInv, TypeOK, AheadOfIds, LookedUp, UniqueNames, UpdateHitsItsAccount,
          Exists
  <2>3. CASE ~NameUsed(job[s].seen.name)
    <3>1. /\ nextId \in Id /\ nextId' = nextId + 1
          /\ rows' = [rows EXCEPT ![nextId] = job[s].seen]
      BY <1>1, <1>4, <2>3 DEF Insert, FreshId, TypeOK, Id
    <3>2. job[s].seen \in Row /\ job[s].seen # NoRow /\ ~Exists(nextId)
      <4>1. job[s].seen \in Row
        BY <2>1 DEF Job
      <4>2. ~(nextId < nextId)
        BY <1>1
      <4> QED
        BY <1>1, <3>1, <4>1, <4>2
    <3>3. \A i \in Id : i # nextId => rows'[i] = rows[i]
      BY <1>1, <3>1 DEF TypeOK
    <3>4. rows'[nextId] = job[s].seen
      BY <1>1, <3>1 DEF TypeOK
    <3>5. \A i \in Id : Exists(i) => rows[i].name # job[s].seen.name
      BY <2>3 DEF NameUsed, Exists
    <3>6. TypeOK'
      <4>1. rows' \in [Id -> Row \union {NoRow}]
        BY <1>1, <3>1, <3>2 DEF TypeOK
      <4>2. nextId' \in 1..(MaxId + 1)
        BY <3>1 DEF Id
      <4> QED
        BY <1>1, <1>3, <2>1, <4>1, <4>2 DEF TypeOK
    <3>7. AheadOfIds'
      <4>1. \A i \in Id : Exists(i)' => i < nextId'
        <5> SUFFICES ASSUME NEW i \in Id, rows'[i] # NoRow PROVE i < nextId + 1
          BY <3>1 DEF Exists
        <5>1. CASE i = nextId
          BY <1>1, <5>1
        <5>2. CASE i # nextId
          <6>1. Exists(i)
            BY <3>3, <5>2 DEF Exists
          <6>2. i < nextId /\ i \in Nat
            BY <1>1, <6>1
          <6> QED
            BY <1>1, <6>2
        <5> QED
          BY <5>1, <5>2
      <4>2. \A q \in Session : job'[q] # NoJob => job[q].id < nextId /\ job'[q] = job[q]
        BY <1>1, <1>3, <2>1 DEF AheadOfIds
      <4>3. \A q \in Session : job'[q] # NoJob => job[q] \in Job /\ job[q].id \in Nat
        BY <1>1, <4>2 DEF TypeOK, Job
      <4>4. \A q \in Session : job'[q] # NoJob => job'[q].id < nextId'
        <5> SUFFICES ASSUME NEW q \in Session, job'[q] # NoJob PROVE job'[q].id < nextId'
          OBVIOUS
        <5>1. job[q].id < nextId /\ job'[q] = job[q] /\ job[q].id \in Nat
          BY <4>2, <4>3
        <5>2. nextId \in Nat /\ nextId' = nextId + 1
          BY <1>1, <3>1
        <5> QED
          BY <5>1, <5>2
      <4> QED
        BY <4>1, <4>4 DEF AheadOfIds
    <3>8. UniqueNames'
      <4>1. \A i \in Id : (Exists(i) /\ Alike(rows[i].name, job[s].seen.name)) =>
                           job[s].seen.asOf <= i
        <5>1. job[s] # NoJob /\ job[s].op = "create"
          BY <1>1, <1>4 DEF Insert, BusyHasJob
        <5>2. job[s].seen.asOf \in Nat
          BY <3>2 DEF Row
        <5> QED
          BY <1>1, <5>1, <5>2 DEF LookedUp
      <4> SUFFICES ASSUME NEW i \in Id, NEW k \in Id, Exists(i)', Exists(k)', i < k
                   PROVE  /\ rows'[i].name # rows'[k].name
                          /\ Alike(rows'[i].name, rows'[k].name) => rows'[k].asOf <= i
        BY DEF UniqueNames, Alike
      <4>2. i # nextId
        <5>1. ASSUME i = nextId PROVE FALSE
          <6>1. k # nextId /\ i \in Nat /\ k \in Nat
            BY <1>1, <5>1
          <6>2. Exists(k) /\ k < nextId
            BY <1>1, <3>3, <6>1 DEF Exists
          <6> QED
            BY <5>1, <6>1, <6>2
        <5> QED
          BY <5>1
      <4>3. Exists(i) /\ rows'[i] = rows[i]
        BY <3>3, <4>2 DEF Exists
      <4>4. CASE k = nextId
        BY <3>4, <3>5, <4>1, <4>3, <4>4
      <4>5. CASE k # nextId
        BY <1>1, <3>3, <4>3, <4>5 DEF UniqueNames, Exists
      <4> QED
        BY <4>4, <4>5
    <3>9. UpdateHitsItsAccount'
      <4>1. \A q \in Session : job'[q] # NoJob => job'[q] = job[q] /\ job[q].id < nextId
        BY <1>1, <1>3, <2>1 DEF AheadOfIds
      <4>2. \A q \in Session : job'[q] # NoJob => job[q].id # nextId
        BY <1>1, <4>1
      <4> QED
        BY <1>1, <3>3, <4>1, <4>2 DEF UpdateHitsItsAccount, Exists
    <3>10. LookedUp'
      <4> SUFFICES ASSUME NEW q \in Session, job'[q] # NoJob, job'[q].op = "create"
                   PROVE  /\ job'[q].seen.asOf <= nextId'
                          /\ \A i \in Id : (Exists(i)' /\ i < job'[q].seen.asOf) =>
                               ~Alike(rows'[i].name, job'[q].seen.name)
        BY DEF LookedUp, Alike
      <4>1. job'[q] = job[q] /\ job[q] \in Job /\ job[q].seen.asOf <= nextId
        <5>1. job'[q] = job[q] /\ job[q] # NoJob
          BY <1>3, <2>1
        <5>2. job[q] \in Job
          BY <1>1, <5>1 DEF TypeOK
        <5>3. job[q].seen.asOf <= nextId
          BY <1>1, <5>1 DEF LookedUp
        <5> QED
          BY <5>1, <5>2, <5>3
      <4>2. job[q].seen.asOf \in Nat
        BY <4>1 DEF Job, Row
      <4>3. \A i \in Id : i < job[q].seen.asOf => i # nextId
        BY <1>1, <4>1, <4>2
      <4>4. job'[q].seen.asOf <= nextId'
        BY <1>1, <3>1, <4>1, <4>2
      <4> QED
        BY <1>1, <3>3, <4>1, <4>3, <4>4 DEF LookedUp, Exists
    <3> QED
      BY <1>3, <2>1, <3>6, <3>7, <3>8, <3>9, <3>10 DEF AccountsInv
  <2> QED
    BY <2>2, <2>3
<1>5. ASSUME End(s), UNCHANGED <<now, nextId, sweep, ops>>,
             rows' \in [Id -> Row \union {NoRow}],
             \A i \in Id : rows'[i] # NoRow =>
               /\ rows[i] # NoRow
               /\ rows'[i].name = rows[i].name /\ rows'[i].asOf = rows[i].asOf
      PROVE  AccountsInv'
  <2>1. TypeOK'
    BY <1>1, <1>3, <1>5 DEF TypeOK
  <2>2. \A q \in Session : job'[q] # NoJob => job'[q] = job[q]
    BY <1>3, <1>5
  <2>3. AheadOfIds'
    BY <1>1, <1>5, <2>2 DEF AheadOfIds, Exists
  <2>4. UniqueNames'
    BY <1>1, <1>5 DEF UniqueNames, Exists
  <2>5. UpdateHitsItsAccount'
    <3> SUFFICES ASSUME NEW q \in Session, job'[q] # NoJob,
                        job'[q].id \in Id, rows'[job'[q].id] # NoRow
                 PROVE  rows'[job'[q].id].name = job'[q].seen.name
      BY DEF UpdateHitsItsAccount, Exists
    <3>1. job'[q] = job[q] /\ job[q].id \in Id /\ rows'[job[q].id] # NoRow
      BY <2>2
    <3>2. Exists(job[q].id) /\ rows'[job[q].id].name = rows[job[q].id].name
      BY <1>5, <3>1 DEF Exists
    <3> QED
      BY <1>1, <3>1, <3>2 DEF UpdateHitsItsAccount
  <2>6. LookedUp'
    BY <1>1, <1>5, <2>2 DEF LookedUp, Exists
  <2> QED
    BY <1>3, <1>5, <2>1, <2>3, <2>4, <2>5, <2>6 DEF AccountsInv
<1>6. CASE Delete(s)
  BY <1>1, <1>5, <1>6 DEF Delete, TypeOK
<1>7. CASE Update(s)
  <2>1. End(s) /\ UNCHANGED <<now, nextId, sweep, ops>> /\ job[s] \in Job
    BY <1>1, <1>7 DEF Update
  <2>2. CASE ~Exists(job[s].id)
    BY <1>1, <1>5, <1>7, <2>1, <2>2 DEF Update, TypeOK
  <2>3. CASE Exists(job[s].id)
    <3> DEFINE i == job[s].id
    <3>1. /\ i \in Id /\ rows[i] \in Row
          /\ Updated(job[s]).uuid <= MaxUuid
          /\ rows' = [rows EXCEPT ![i] = Updated(job[s])]
      BY <1>1, <1>7, <2>3 DEF Update, Exists
    <3>2. /\ Updated(job[s]) \in Row
          /\ Updated(job[s]).name = rows[i].name /\ Updated(job[s]).asOf = rows[i].asOf
      <4>1. job[s].seen \in Row /\ job[s].enable \in BOOLEAN
        BY <2>1 DEF Job
      <4> DEFINE j == job[s]
      <4> DEFINE a == CASE j.op = "enable" -> TRUE
                        [] j.op = "disable" -> FALSE
                        [] j.op = "expiry" /\ j.enable -> TRUE
                        [] OTHER -> rows[i].enabled
                 b == IF j.op = "expiry" THEN j.seen.expires ELSE rows[i].expires
                 c == IF j.op = "uuid" THEN rows[i].uuid + 1 ELSE rows[i].uuid
      <4>2. Updated(j) = Columns(rows[i], a, b, c)
        BY DEF Updated, Columns
      <4>3. a \in BOOLEAN
        BY <3>1, <4>1 DEF Row
      <4>4. b \in 0..Never /\ c \in Nat
        BY <3>1, <4>1 DEF Row
      <4> HIDE DEF a, b, c
      <4>5. c \in 0..MaxUuid
        BY <3>1, <4>2, <4>4 DEF Row, Columns
      <4> QED
        BY <3>1, <4>2, <4>3, <4>4, <4>5, ColumnsTyped
    <3>3. /\ rows' \in [Id -> Row \union {NoRow}]
          /\ \A k \in Id : rows'[k] # NoRow =>
               /\ rows[k] # NoRow
               /\ rows'[k].name = rows[k].name /\ rows'[k].asOf = rows[k].asOf
      BY <1>1, <3>1, <3>2 DEF TypeOK
    <3> QED
      BY <1>5, <2>1, <3>3
  <2> QED
    BY <2>2, <2>3
<1> QED
  BY <1>2, <1>4, <1>6, <1>7 DEF Finish

\* The sweep and the clock.
LEMMA SweepStep ==
  ASSUME AccountsInv,
         SweepList \/ (\E i \in Id : SweepOne(i)) \/ SweepInterrupted \/ Tick
  PROVE  AccountsInv'
<1> USE ConstantsOK, AbsentValues
<1>1. TypeOK
  BY DEF AccountsInv
<1>2. CASE SweepList \/ SweepInterrupted \/ Tick
  BY <1>1, <1>2, AccountsStutter
  DEF SweepList, SweepInterrupted, Tick, session, TypeOK, Due
<1>3. CASE \E i \in Id : SweepOne(i)
  <2>1. PICK i \in Id : SweepOne(i)
    BY <1>3
  <2>2. /\ rows' \in [Id -> Row \union {NoRow}]
        /\ \A k \in Id : rows'[k] # NoRow <=> rows[k] # NoRow
        /\ \A k \in Id : rows[k] # NoRow =>
             rows'[k].name = rows[k].name /\ rows'[k].asOf = rows[k].asOf
    <3>1. CASE rows[i] = NoRow
      BY <1>1, <2>1, <3>1 DEF SweepOne, TypeOK
    <3>2. CASE rows[i] # NoRow
      <4>1. rows[i] \in Row /\ rows' = [rows EXCEPT ![i].enabled = FALSE]
        BY <1>1, <2>1, <3>2 DEF SweepOne, TypeOK
      <4>2. [rows[i] EXCEPT !.enabled = FALSE] \in Row
        BY <4>1 DEF Row
      <4>3. /\ [rows[i] EXCEPT !.enabled = FALSE].name = rows[i].name
            /\ [rows[i] EXCEPT !.enabled = FALSE].asOf = rows[i].asOf
        BY <4>1 DEF Row
      <4> QED
        BY <1>1, <4>1, <4>2, <4>3 DEF TypeOK
    <3> QED
      BY <3>1, <3>2
  <2>3. UNCHANGED <<now, nextId, pc, job, ops>> /\ sweep' \subseteq Id
    BY <1>1, <2>1 DEF SweepOne, session, TypeOK
  <2>4. TypeOK'
    BY <1>1, <2>2, <2>3 DEF TypeOK
  <2> QED
    BY <2>2, <2>3, <2>4
    DEF AccountsInv, BusyHasJob, AheadOfIds, LookedUp, UniqueNames, UpdateHitsItsAccount,
        Exists
<1> QED
  BY <1>2, <1>3

\* The inductive step, action by action.
LEMMA AccountsStep == AccountsInv /\ [Next]_vars => AccountsInv'
<1> SUFFICES ASSUME AccountsInv, [Next]_vars PROVE AccountsInv'
  OBVIOUS
<1>1. CASE \E s \in Session : Begin(s) \/ Finish(s)
  BY <1>1, BeginStep, FinishStep
<1>2. CASE SweepList \/ (\E i \in Id : SweepOne(i)) \/ SweepInterrupted \/ Tick
  BY <1>2, SweepStep
<1>3. CASE UNCHANGED vars
  BY <1>3, AccountsStutter DEF vars, session, AccountsInv, TypeOK
<1> QED
  BY <1>1, <1>2, <1>3 DEF Next

\* The inductive invariant of the users table, for any number of sessions.
THEOREM TableSafe == Spec => []AccountsInv
  BY AccountsStart, AccountsStep, PTL DEF Spec

\* models.py delete_user_by_id, set_enabled, set_expiry and regenerate_uuid: whatever
\* is deleted and created between its read and its write, an operation never
\* reaches an account other than the one it read.
THEOREM IdsNeverChangeHands == Spec => []UpdateHitsItsAccount
<1>1. AccountsInv => UpdateHitsItsAccount
  BY DEF AccountsInv
<1> QED
  BY <1>1, TableSafe, PTL

\* models.py create_user and the UNIQUE constraint of database.py: however creations,
\* deletions and re-creations overlap, no name is held twice, and two names alike but
\* for case are both held only if the later was looked up before the earlier was there.
THEOREM NamesAreUnique == Spec => []UniqueNames
<1>1. AccountsInv => UniqueNames
  BY DEF AccountsInv
<1> QED
  BY <1>1, TableSafe, PTL

\* The UUID an UPDATE leaves is the row's own or the next one.
LEMMA UuidNeverBack ==
  ASSUME AccountsInv, [Next]_vars, NEW i \in Id, Exists(i), Exists(i)'
  PROVE  rows'[i].uuid >= rows[i].uuid
<1> USE DEF Exists
<1>1. /\ rows \in [Id -> Row \union {NoRow}] /\ rows[i] \in Row /\ rows[i].uuid \in Nat
      /\ i < nextId /\ nextId \in Nat /\ i \in Nat
      /\ \A s \in Session : job[s] \in Job \union {NoJob}
  BY ConstantsOK DEF AccountsInv, TypeOK, AheadOfIds, Row, Id
<1>2. CASE UNCHANGED rows
  BY <1>1, <1>2
<1>3. ASSUME NEW s \in Session, Insert(s), ~UNCHANGED rows PROVE rows'[i] = rows[i]
  BY <1>1, <1>3 DEF Insert, FreshId
<1>4. ASSUME NEW s \in Session, Delete(s) PROVE rows'[i] = rows[i]
  BY <1>1, <1>4 DEF Delete
<1>5. ASSUME NEW s \in Session, Update(s), ~UNCHANGED rows
      PROVE  rows'[i].uuid >= rows[i].uuid
  <2>1. rows' = [rows EXCEPT ![job[s].id] = Updated(job[s])]
    BY <1>5 DEF Update
  <2>2. CASE job[s].id # i
    BY <1>1, <2>1, <2>2
  <2>3. CASE job[s].id = i
    <3>1. rows'[i] = Updated(job[s])
      BY <1>1, <2>1, <2>3
    <3>2. Updated(job[s]).uuid = IF job[s].op = "uuid" THEN rows[i].uuid + 1 ELSE rows[i].uuid
      BY <1>1, <2>3 DEF Updated, Row
    <3> QED
      BY <1>1, <3>1, <3>2
  <2> QED
    BY <2>2, <2>3
<1>6. ASSUME NEW k \in Id, SweepOne(k) PROVE rows'[i].uuid = rows[i].uuid
  BY <1>1, <1>6 DEF SweepOne, Row
<1>7. CASE UNCHANGED vars
  BY <1>2, <1>7 DEF vars
<1>8. ASSUME NEW s \in Session, Begin(s) \/ CheckExpiry(s) PROVE UNCHANGED rows
  BY <1>8 DEF Begin, BeginCreate, BeginUpdate, BeginEnable, BeginRenew, BeginSetDate, Start,
     CheckExpiry
<1>9. CASE SweepList \/ SweepInterrupted \/ Tick
  BY <1>2, <1>9 DEF SweepList, SweepInterrupted, Tick
<1>10. ASSUME NEW s \in Session, Begin(s) \/ Finish(s) PROVE rows'[i].uuid >= rows[i].uuid
  <2>1. rows'[i] = rows[i] => rows'[i].uuid >= rows[i].uuid
    BY <1>1
  <2> QED
    BY <1>2, <1>3, <1>4, <1>5, <1>8, <1>10, <2>1 DEF Finish
<1>11. ASSUME NEW k \in Id, SweepOne(k) PROVE rows'[i].uuid >= rows[i].uuid
  BY <1>1, <1>6, <1>11
<1> QED
  BY <1>7, <1>9, <1>10, <1>11 DEF Next

\* service.py: "Previously issued links no longer work": no operation that was under
\* way when an account's UUID was regenerated brings the old one back.
THEOREM OldUuidsStayDead == Spec => OldUuidStaysDead
<1>1. AccountsInv /\ [Next]_vars =>
        [\A i \in Id : (Exists(i) /\ Exists(i)') => rows'[i].uuid >= rows[i].uuid]_vars
  BY UuidNeverBack
<1> QED
  BY <1>1, TableSafe, PTL DEF Spec, OldUuidStaysDead
==============================================================================
