------------------------- MODULE ApplyPipelineProofs -------------------------
(***************************************************************************)
(* Proofs about ApplyPipeline for any number of processes, accounts, keys, *)
(* operations and disturbances.                                            *)
(***************************************************************************)
EXTENDS ApplyPipeline, TLAPS

\* What typing says of the variables of one process.
LEMMA TypeFacts ==
  /\ Nobody \in UserList
  /\ NothingLive \in [keys : 0..MaxKeys, users : [Tag -> UserList]]
  /\ 1 \in Tag
  BY ConstantsOK DEF Nobody, UserList, NothingLive, Tag

\* Leaving the pipeline keeps the local variables of all processes well typed.
LEMMA ForgetType ==
  ASSUME TypeOK, NEW p \in Proc, Forget(p)
  PROVE  /\ pc' \in [Proc -> BeforeLock \union Locked]
         /\ cand' \in [Proc -> Config \union {NoConfig}]
         /\ prev' \in [Proc -> Config \union {NoConfig}]
         /\ cur' \in [Proc -> UserList]
         /\ tag' \in [Proc -> Tag]
         /\ mode' \in [Proc -> {"normal", "forced", "rollback"}]
  BY TypeFacts DEF TypeOK, Forget, Goto, BeforeLock

\* Replacing the account list of one inbound touches nothing else Xray serves.
LEMMA SetLiveEffect ==
  ASSUME TypeOK, NEW t \in Tag, NEW users \in UserList, SetLive(t, users)
  PROVE  /\ live' \in [keys : 0..MaxKeys, users : [Tag -> UserList]]
         /\ live'.keys = live.keys
         /\ live'.users[t] = users
         /\ \A s \in Tag : s # t => live'.users[s] = live.users[s]
  BY DEF TypeOK, SetLive

\* What one `rmu` call leaves behind.
LEMMA RemoveEffect ==
  ASSUME TypeOK, NEW p \in Proc, Remove(p)
  PROVE  /\ UNCHANGED <<data, lock, file, xr, cand, prev, cur, tag, mode, outer, ops>>
         /\ live' \in [keys : 0..MaxKeys, users : [Tag -> UserList]]
         /\ live'.keys = live.keys
         /\ \A s \in Tag : s # tag[p] => live'.users[s] = live.users[s]
         /\ faults' \in 0..MaxFaults
         /\ pc[p] = "remove"
         /\ pc' \in {[pc EXCEPT ![p] = "add"], [pc EXCEPT ![p] = "restart"]}
         /\ pc'[p] = "add" =>
              \A u \in User : live'.users[tag[p]][u] =
                IF u \in Stale(p) THEN 0 ELSE live.users[tag[p]][u]
  <1> DEFINE listed == live.users[tag[p]]
             present == {u \in Stale(p) : listed[u] # 0}
  <1>1. tag[p] \in Tag /\ listed \in UserList
    BY DEF TypeOK
  <1>2. \A gone \in SUBSET present : Without(listed, gone) \in UserList
    BY <1>1, ConstantsOK DEF Without, UserList
  <1>3. CASE Stale(p) = {}
    BY <1>3 DEF TypeOK, Remove, Goto
  <1>4. CASE Stale(p) # {} /\ xr = "up" /\ SetLive(tag[p], Without(listed, present))
             /\ Goto(p, IF present = Stale(p) THEN "add" ELSE "restart")
             /\ UNCHANGED faults
    <2>1. /\ live' \in [keys : 0..MaxKeys, users : [Tag -> UserList]]
          /\ live'.keys = live.keys
          /\ live'.users[tag[p]] = Without(listed, present)
          /\ \A s \in Tag : s # tag[p] => live'.users[s] = live.users[s]
      BY <1>1, <1>2, <1>4, SetLiveEffect
    <2>2. pc'[p] = "add" => present = Stale(p)
      BY <1>4 DEF Goto, TypeOK
    <2>3. QED
      BY <1>4, <2>1, <2>2 DEF Remove, Goto, Without, TypeOK
  <1>5. CASE Stale(p) # {} /\ xr # "up"
    BY <1>5 DEF TypeOK, Remove, Goto
  <1>6. CASE /\ Stale(p) # {} /\ Fault("api") /\ Goto(p, "restart")
             /\ \E gone \in SUBSET present : SetLive(tag[p], Without(listed, gone))
    <2>1. PICK gone \in SUBSET present : SetLive(tag[p], Without(listed, gone))
      BY <1>6
    <2>2. /\ live' \in [keys : 0..MaxKeys, users : [Tag -> UserList]]
          /\ live'.keys = live.keys
          /\ \A s \in Tag : s # tag[p] => live'.users[s] = live.users[s]
      BY <1>1, <1>2, <2>1, SetLiveEffect
    <2>3. QED
      BY <1>6, <2>2, ConstantsOK DEF Remove, Goto, Fault, TypeOK
  <1>7. QED
    BY <1>3, <1>4, <1>5, <1>6 DEF Remove

\* What one `adu` call leaves behind.
LEMMA AddEffect ==
  ASSUME TypeOK, CandidateInv, NEW p \in Proc, Add(p)
  PROVE  /\ UNCHANGED <<data, file, xr, ops>>
         /\ live' \in [keys : 0..MaxKeys, users : [Tag -> UserList]]
         /\ live'.keys = live.keys
         /\ \A s \in Tag : s # tag[p] => live'.users[s] = live.users[s]
         /\ faults' \in 0..MaxFaults
         /\ pc[p] = "add"
         /\ \/ /\ Goto(p, "restart")
               /\ UNCHANGED <<lock, cand, prev, cur, tag, mode, outer>>
            \/ /\ NextTag(p)
               /\ \A u \in User : live'.users[tag[p]][u] =
                    IF u \in Additions(p) THEN cand[p].users[u] ELSE live.users[tag[p]][u]
  <1> DEFINE listed == live.users[tag[p]]
             absent == {u \in Additions(p) : listed[u] = 0}
             with(new) == [u \in User |-> IF u \in new THEN cand[p].users[u] ELSE listed[u]]
             fail == /\ Goto(p, "restart")
                     /\ UNCHANGED <<lock, cand, prev, cur, tag, mode, outer>>
  <1>1. tag[p] \in Tag /\ listed \in UserList /\ cand[p] # NoConfig
    BY DEF TypeOK, CandidateInv, Add, Locked, Written, Syncing
  <1>2. \A new \in SUBSET absent : with(new) \in UserList
    BY <1>1, ConstantsOK DEF TypeOK, UserList, Config
  <1> HIDE DEF fail
  <1>3. CASE Additions(p) = {} /\ NextTag(p) /\ UNCHANGED <<live, faults>>
    BY <1>3 DEF TypeOK, Add
  <1>4. CASE Additions(p) # {} /\ xr = "up" /\ SetLive(tag[p], with(absent))
             /\ (IF absent = Additions(p) THEN NextTag(p) ELSE fail)
             /\ UNCHANGED faults
    <2>1. /\ live' \in [keys : 0..MaxKeys, users : [Tag -> UserList]]
          /\ live'.keys = live.keys
          /\ live'.users[tag[p]] = with(absent)
          /\ \A s \in Tag : s # tag[p] => live'.users[s] = live.users[s]
      BY <1>1, <1>2, <1>4, SetLiveEffect
    <2>2. CASE absent = Additions(p)
      BY <1>4, <2>1, <2>2 DEF Add, TypeOK
    <2>3. CASE absent # Additions(p)
      BY <1>4, <2>1, <2>3 DEF Add, fail, TypeOK
    <2>4. QED
      BY <2>2, <2>3
  <1>5. CASE Additions(p) # {} /\ xr # "up" /\ fail /\ UNCHANGED <<live, faults>>
    BY <1>5 DEF TypeOK, Add, fail
  <1>6. CASE /\ Additions(p) # {} /\ Fault("api") /\ fail
             /\ \E new \in SUBSET absent : SetLive(tag[p], with(new))
    <2>1. PICK new \in SUBSET absent : SetLive(tag[p], with(new))
      BY <1>6
    <2>2. /\ live' \in [keys : 0..MaxKeys, users : [Tag -> UserList]]
          /\ live'.keys = live.keys
          /\ \A s \in Tag : s # tag[p] => live'.users[s] = live.users[s]
      BY <1>1, <1>2, <2>1, SetLiveEffect
    <2>3. QED
      BY <1>6, <2>2, ConstantsOK DEF Add, fail, Fault, TypeOK
  <1>7. QED
    BY <1>3, <1>4, <1>5, <1>6 DEF Add, fail

------------------------------------------------------------------------------
(* StoreInv: one lemma for each of its parts.                               *)

\* The type invariant is inductive.
LEMMA TypeStep ==
  ASSUME StoreInv, [Next]_vars
  PROVE  TypeOK'
  <1> USE ConstantsOK DEF StoreInv
  <1>1. ASSUME NEW p \in Proc, Operations(p) PROVE TypeOK'
    BY <1>1 DEF TypeOK, Outcome, Operations, SetActive, RegenerateUuid, Resync, BeginOperation,
       Operation, Goto, Account, BeforeLock, xray, outer, data
  <1>2. ASSUME NEW p \in Proc, Bootstrap(p) PROVE TypeOK'
    BY <1>2 DEF TypeOK, Bootstrap, Goto, BeforeLock, xray, outer, data, budget
  <1>3. ASSUME NEW p \in Proc, Snapshot(p) PROVE TypeOK'
    BY <1>3 DEF TypeOK, Snapshot, Goto, BeforeLock, xray, outer, data, budget,
       ActiveUsers, Config, UserList, Account
  <1>4. ASSUME NEW p \in Proc, Acquire(p) \/ Render(p) \/ Write(p) PROVE TypeOK'
    <2>1. cand[p] \in Config
      BY <1>4 DEF TypeOK, CandidateInv, Acquire, Render, Write, Locked, Unwritten
    <2>2. [cand[p] EXCEPT !.keys = keys] \in Config
      BY <2>1 DEF TypeOK, Config
    <2>3. QED
      BY <1>4, <2>1, <2>2 DEF TypeOK, Acquire, Render, Write, Goto, Locked, Unwritten,
         Written, xray, outer, data, budget
  <1>5. ASSUME NEW p \in Proc, LockTimeout(p) PROVE TypeOK'
    BY <1>5, ForgetType DEF TypeOK, LockTimeout, xray, outer, data, budget
  <1>6. ASSUME NEW p \in Proc, Validate(p) PROVE TypeOK'
    BY <1>6, ForgetType DEF TypeOK, Outcome, Validate, Accepted, Finish, Fault, Goto, Locked, Unwritten,
       xray, outer, data
  <1>7. ASSUME NEW p \in Proc, Status(p) PROVE TypeOK'
    BY <1>7, ForgetType DEF TypeOK, Outcome, Status, Finish, Fault, Goto, Locked, Written, Syncing,
       Restarting, xray, outer, data
  <1>8. ASSUME NEW p \in Proc, List(p) PROVE TypeOK'
    BY <1>8 DEF TypeOK, Outcome, List, Listed, Fault, Goto, Locked, Written, Syncing,
       Restarting, xray, outer, data
  <1>9. ASSUME NEW p \in Proc, Remove(p) PROVE TypeOK'
    BY <1>9, RemoveEffect DEF TypeOK, Locked, Written, Syncing, Restarting, outer, data
  <1>10. ASSUME NEW p \in Proc, Add(p) PROVE TypeOK'
    <2>1. CASE Goto(p, "restart") /\ UNCHANGED <<lock, cand, prev, cur, tag, mode, outer>>
      BY <1>10, <2>1, AddEffect DEF TypeOK, Goto, Locked, Written, Restarting, outer, data
    <2>2. CASE tag[p] < NTag /\ NextTag(p)
      <3>1. tag[p] + 1 \in Tag
        BY <2>2 DEF TypeOK, Tag
      <3>2. /\ pc' \in [Proc -> BeforeLock \union Locked]
            /\ tag' \in [Proc -> Tag]
            /\ cur' \in [Proc -> UserList]
            /\ UNCHANGED <<lock, cand, prev, mode, outer>>
        BY <2>2, <3>1, TypeFacts DEF TypeOK, NextTag, Goto, Locked, Written, Syncing
      <3>3. QED
        BY <1>10, <3>2, AddEffect DEF TypeOK, outer, data
    <2>3. CASE ~(tag[p] < NTag) /\ NextTag(p)
      <3>1. Finish(p, "ok")
        BY <2>3 DEF NextTag
      <3>2. QED
        BY <1>10, <3>1, AddEffect, ForgetType DEF TypeOK, Outcome, Finish, data
    <2>4. QED
      BY <1>10, <2>1, <2>2, <2>3, AddEffect
  <1>11. ASSUME NEW p \in Proc, RestartXray(p) \/ Health(p) \/ Rollback(p) PROVE TypeOK'
    BY <1>11, ForgetType, TypeFacts DEF TypeOK, Outcome, RestartXray, Health, Rollback, RestartFailed,
       Finish, Fault, Goto, Locked, Written, Restarting, XrayState, xray, outer, data, budget
  <1>12. ASSUME NEW p \in Proc, Abort(p) PROVE TypeOK'
    BY <1>12, ForgetType DEF TypeOK, Outcome, Abort, Fault, xray, outer, data
  <1>13. CASE RotateKeys
    BY <1>13 DEF TypeOK, RotateKeys, Operation, xray, outer, job
  <1>14. CASE XrayLoad
    BY <1>14 DEF TypeOK, XrayLoad, ValidConfig, Config, XrayState, data, job, outer, budget
  <1>15. CASE XrayListen \/ XrayCrash \/ SupervisorStart \/ ToolRestart
    BY <1>15, TypeFacts DEF TypeOK, XrayListen, XrayCrash, SupervisorStart, ToolRestart,
       Fault, XrayState, data, job, outer, budget
  <1>16. CASE Redeploy
    BY <1>16, TypeFacts DEF TypeOK, Outcome, Redeploy, Fault, XrayState, data, BeforeLock
  <1>17. CASE UNCHANGED vars
    BY <1>17 DEF TypeOK, vars, data, xray, job, outer, budget
  <1>18. QED
    BY <1>1, <1>2, <1>3, <1>4, <1>5, <1>6, <1>7, <1>8, <1>9, <1>10, <1>11, <1>12, <1>13,
       <1>14, <1>15, <1>16, <1>17 DEF Next, Pipeline, Environment

\* Every step into or out of the locked part takes or frees the lock with it.
LEMMA LockStep ==
  ASSUME StoreInv, [Next]_vars
  PROVE  OneApplyAtATime'
  <1> USE ConstantsOK DEF StoreInv, TypeOK, OneApplyAtATime, Locked, Unwritten, Written,
          Syncing, Restarting, Goto
  <1>1. ASSUME NEW p \in Proc, Operations(p) \/ Bootstrap(p) \/ Snapshot(p) \/ LockTimeout(p)
        PROVE  OneApplyAtATime'
    BY <1>1 DEF Operations, SetActive, RegenerateUuid, Resync, BeginOperation, Bootstrap,
       Snapshot, LockTimeout, Forget
  <1>2. ASSUME NEW p \in Proc, Acquire(p) \/ Render(p) \/ Write(p) \/ List(p) \/ Rollback(p)
        PROVE  OneApplyAtATime'
    BY <1>2 DEF Acquire, Render, Write, List, Rollback
  <1>3. ASSUME NEW p \in Proc, Validate(p) \/ Status(p) \/ RestartXray(p) \/ Health(p)
        PROVE  OneApplyAtATime'
    BY <1>3 DEF Validate, Accepted, Status, RestartXray, Health, RestartFailed, Finish, Forget
  <1>4. ASSUME NEW p \in Proc, Remove(p) PROVE OneApplyAtATime'
    BY <1>4, RemoveEffect
  <1>5. ASSUME NEW p \in Proc, Add(p) PROVE OneApplyAtATime'
    BY <1>5, AddEffect DEF NextTag, Finish, Forget
  <1>6. ASSUME NEW p \in Proc, Abort(p) PROVE OneApplyAtATime'
    BY <1>6 DEF Abort, Forget
  <1>7. CASE RotateKeys \/ XrayLoad \/ XrayListen \/ XrayCrash \/ SupervisorStart
             \/ ToolRestart \/ UNCHANGED vars
    BY <1>7 DEF RotateKeys, XrayLoad, XrayListen, XrayCrash, SupervisorStart, ToolRestart,
       vars, job
  <1>8. CASE Redeploy
    BY <1>8 DEF Redeploy
  <1>9. QED
    BY <1>1, <1>2, <1>3, <1>4, <1>5, <1>6, <1>7, <1>8 DEF Next, Pipeline, Environment

\* Only Write and Rollback replace the file, both with a configuration the validator
\* has accepted.
LEMMA FileStep ==
  ASSUME StoreInv, [Next]_vars
  PROVE  FileIsValid'
  <1> USE ConstantsOK, NoConfigIsNoConfig DEF StoreInv, TypeOK, OneApplyAtATime, Locked,
     Unwritten, Written, Syncing, Restarting, Goto, FileIsValid, CandidateInv,
     ValidConfig, WriterInv
  <1>1. ASSUME NEW p \in Proc, Operations(p) \/ Bootstrap(p) \/ Snapshot(p) \/ LockTimeout(p)
        PROVE  FileIsValid'
    BY <1>1 DEF Operations, SetActive, RegenerateUuid, Resync, BeginOperation,
       Bootstrap, Snapshot, LockTimeout, Forget, data, outer, xray, budget
  <1>2. ASSUME NEW p \in Proc, Acquire(p) \/ Render(p) \/ Write(p) \/ List(p) \/ Rollback(p)
        PROVE  FileIsValid'
    BY <1>2 DEF Acquire, Render, Write, List, Rollback, data, outer, xray
  <1>3. ASSUME NEW p \in Proc, Validate(p) \/ Status(p)
        PROVE  FileIsValid'
    BY <1>3 DEF Validate, Accepted, Status, Structural, Finish, Forget, data, outer, xray
  <1>4. ASSUME NEW p \in Proc, RestartXray(p) \/ Health(p)
        PROVE  FileIsValid'
    BY <1>4 DEF RestartXray, Health, RestartFailed, Finish, Forget, data, outer, xray
  <1>5. ASSUME NEW p \in Proc, Remove(p)
        PROVE  FileIsValid'
    BY <1>5, RemoveEffect DEF data, outer
  <1>6. ASSUME NEW p \in Proc, Add(p)
        PROVE  FileIsValid'
    BY <1>6, AddEffect DEF NextTag, Finish, Forget, data, outer
  <1>7. ASSUME NEW p \in Proc, Abort(p)
        PROVE  FileIsValid'
    BY <1>7 DEF Abort, Forget, data, outer, xray
  <1>8. CASE RotateKeys \/ XrayLoad \/ XrayListen \/ XrayCrash \/ SupervisorStart \/
     ToolRestart \/ UNCHANGED vars
    BY <1>8 DEF RotateKeys, Operation, XrayLoad, XrayListen, XrayCrash, SupervisorStart,
       ToolRestart, vars, job, data, outer, xray
  <1>9. CASE Redeploy
    BY <1>9 DEF Redeploy, data
  <1>10. QED
    BY <1>1, <1>2, <1>3, <1>4, <1>5, <1>6, <1>7, <1>8, <1>9 DEF Next, Pipeline, Environment

\* Candidates get their keys from the disk and are checked before they are written.
LEMMA CandidateStep ==
  ASSUME StoreInv, [Next]_vars
  PROVE  CandidateInv'
  <1> USE ConstantsOK, NoConfigIsNoConfig DEF StoreInv, TypeOK, OneApplyAtATime, Locked,
     Unwritten, Written, Syncing, Restarting, Goto, CandidateInv, ValidConfig,
     FileIsValid, KeyOrderInv, Config, BeforeLock
  <1>1. ASSUME NEW p \in Proc, Operations(p) \/ Bootstrap(p) \/ Snapshot(p) \/ LockTimeout(p)
        PROVE  CandidateInv'
    <2>1. CASE Operations(p) \/ Bootstrap(p)
      BY <2>1 DEF Operations, SetActive, RegenerateUuid, Resync, BeginOperation, Bootstrap
    <2>2. CASE Snapshot(p)
      <3>1. [users |-> ActiveUsers, keys |-> 0] \in Config
        BY DEF ActiveUsers, UserList, Account
      <3>2. /\ cand'[p] # NoConfig
            /\ pc' = [pc EXCEPT ![p] = "acquire"]
            /\ \A q \in Proc : q # p => cand'[q] = cand[q]
            /\ UNCHANGED <<prev, tag>> /\ pc[p] = "snapshot"
        BY <2>2, <3>1 DEF Snapshot
      <3>3. QED
        BY <3>2
    <2>3. CASE LockTimeout(p)
      BY <2>3 DEF LockTimeout, Forget
    <2>4. QED
      BY <1>1, <2>1, <2>2, <2>3
  <1>2. ASSUME NEW p \in Proc, Acquire(p) \/ Render(p) \/ Write(p) \/ List(p) \/ Rollback(p)
        PROVE  CandidateInv'
    BY <1>2 DEF Acquire, Render, Write, List, Rollback, data, outer, xray
  <1>3. ASSUME NEW p \in Proc, Validate(p) \/ Status(p)
        PROVE  CandidateInv'
    <2>1. CASE Validate(p)
      <3>1. CASE pc' = [pc EXCEPT ![p] = "idle"] /\ Forget(p)
        BY <3>1 DEF Forget
      <3>2. CASE /\ cand[p].keys \notin BadKeys /\ UNCHANGED <<cand, tag>>
                 /\ prev' = [prev EXCEPT ![p] = file] /\ Goto(p, "write")
        <4>1. cand[p] \in ValidConfig /\ pc[p] = "validate"
          BY <2>1, <3>2 DEF Validate, Accepted
        <4>2. QED
          BY <3>2, <4>1
      <3>3. QED
        BY <2>1, <3>1, <3>2 DEF Validate, Accepted, Finish, Forget
    <2>2. CASE Status(p)
      BY <2>2 DEF Status, Finish, Forget
    <2>3. QED
      BY <1>3, <2>1, <2>2
  <1>4. ASSUME NEW p \in Proc, RestartXray(p) \/ Health(p)
        PROVE  CandidateInv'
    BY <1>4 DEF RestartXray, Health, RestartFailed, Finish, Forget, data, outer, xray
  <1>5. ASSUME NEW p \in Proc, Remove(p)
        PROVE  CandidateInv'
    BY <1>5, RemoveEffect DEF data, outer
  <1>6. ASSUME NEW p \in Proc, Add(p)
        PROVE  CandidateInv'
    BY <1>6, AddEffect DEF NextTag, Finish, Forget, data, outer
  <1>7. ASSUME NEW p \in Proc, Abort(p)
        PROVE  CandidateInv'
    BY <1>7 DEF Abort, Forget, data, outer, xray
  <1>8. CASE RotateKeys \/ XrayLoad \/ XrayListen \/ XrayCrash \/ SupervisorStart \/
     ToolRestart \/ UNCHANGED vars
    BY <1>8 DEF RotateKeys, Operation, XrayLoad, XrayListen, XrayCrash, SupervisorStart,
       ToolRestart, vars, job, data, outer, xray
  <1>9. CASE Redeploy
    BY <1>9 DEF Redeploy, data
  <1>10. QED
    BY <1>1, <1>2, <1>3, <1>4, <1>5, <1>6, <1>7, <1>8, <1>9 DEF Next, Pipeline, Environment

\* Nobody else writes the file while a process is in the locked part.
LEMMA WriterStep ==
  ASSUME StoreInv, [Next]_vars
  PROVE  WriterInv'
  <1> USE ConstantsOK, NoConfigIsNoConfig DEF StoreInv, TypeOK, OneApplyAtATime, Locked,
     Unwritten, Written, Syncing, Restarting, Goto, WriterInv, BeforeLock, CandidateInv
  <1>1. ASSUME NEW p \in Proc, Operations(p) \/ Bootstrap(p) \/ Snapshot(p) \/ LockTimeout(p)
        PROVE  WriterInv'
    BY <1>1 DEF Operations, SetActive, RegenerateUuid, Resync, BeginOperation,
       Bootstrap, Snapshot, LockTimeout, Forget, data, outer, xray, budget
  <1>2. ASSUME NEW p \in Proc, Acquire(p) \/ Render(p) \/ Write(p) \/ List(p) \/ Rollback(p)
        PROVE  WriterInv'
    <2>1. CASE Acquire(p) \/ Render(p)
      BY <2>1 DEF Acquire, Render
    <2>2. CASE Write(p)
      BY <2>2 DEF Write
    <2>3. CASE Rollback(p)
      <3>1. \A q \in Proc : q # p => pc[q] \notin {"write"} \union Written
        BY <2>3 DEF Rollback
      <3>2. prev[p] # NoConfig
        BY <2>3 DEF Rollback, BootInv
      <3>3. QED
        BY <2>3, <3>1, <3>2 DEF Rollback
    <2>4. CASE List(p)
      BY <2>4 DEF List
    <2>5. QED
      BY <1>2, <2>1, <2>2, <2>3, <2>4
  <1>3. ASSUME NEW p \in Proc, Validate(p) \/ Status(p)
        PROVE  WriterInv'
    BY <1>3 DEF Validate, Accepted, Status, Structural, Finish, Forget, data, outer, xray
  <1>4. ASSUME NEW p \in Proc, RestartXray(p) \/ Health(p)
        PROVE  WriterInv'
    BY <1>4 DEF RestartXray, Health, RestartFailed, Finish, Forget, data, outer, xray
  <1>5. ASSUME NEW p \in Proc, Remove(p)
        PROVE  WriterInv'
    BY <1>5, RemoveEffect DEF data, outer
  <1>6. ASSUME NEW p \in Proc, Add(p)
        PROVE  WriterInv'
    BY <1>6, AddEffect DEF NextTag, Finish, Forget, data, outer
  <1>7. ASSUME NEW p \in Proc, Abort(p)
        PROVE  WriterInv'
    BY <1>7 DEF Abort, Forget, data, outer, xray
  <1>8. CASE RotateKeys \/ XrayLoad \/ XrayListen \/ XrayCrash \/ SupervisorStart \/
     ToolRestart \/ UNCHANGED vars
    BY <1>8 DEF RotateKeys, Operation, XrayLoad, XrayListen, XrayCrash, SupervisorStart,
       ToolRestart, vars, job, data, outer, xray
  <1>9. CASE Redeploy
    BY <1>9 DEF Redeploy, data
  <1>10. QED
    BY <1>1, <1>2, <1>3, <1>4, <1>5, <1>6, <1>7, <1>8, <1>9 DEF Next, Pipeline, Environment

\* Xray is only started once a first configuration has been written.
LEMMA BootStep ==
  ASSUME StoreInv, [Next]_vars
  PROVE  BootInv'
  <1> USE ConstantsOK, NoConfigIsNoConfig DEF StoreInv, TypeOK, OneApplyAtATime, Locked,
     Unwritten, Written, Syncing, Restarting, Goto, BootInv, CandidateInv, WriterInv,
     Running
  <1>1. ASSUME NEW p \in Proc, Operations(p) \/ Bootstrap(p) \/ Snapshot(p) \/ LockTimeout(p)
        PROVE  BootInv'
    BY <1>1 DEF Operations, SetActive, RegenerateUuid, Resync, BeginOperation,
       Bootstrap, Snapshot, LockTimeout, Forget, data, outer, xray, budget
  <1>2. ASSUME NEW p \in Proc, Acquire(p) \/ Render(p) \/ Write(p) \/ List(p) \/ Rollback(p)
        PROVE  BootInv'
    BY <1>2 DEF Acquire, Render, Write, List, Rollback, data, outer, xray
  <1>3. ASSUME NEW p \in Proc, Validate(p) \/ Status(p)
        PROVE  BootInv'
    <2>1. CASE Validate(p)
      BY <2>1 DEF Success, Validate, Accepted, Finish, Forget, outer, xray
    <2>2. CASE Status(p)
      <3>1. CASE /\ xr # "down" /\ UNCHANGED <<prev, outer>>
                 /\ \E label \in {"restart", "list"} : Goto(p, label)
        <4>1. container = "serving" /\ prev[p] # NoConfig
          BY <2>2, <3>1 DEF Status
        <4>2. QED
          BY <2>2, <3>1, <4>1 DEF Status, outer, xray
      <3>2. CASE Finish(p, "written")
        BY <2>2, <3>2 DEF Status, Finish, Forget, xray
      <3>3. QED
        BY <2>2, <3>1, <3>2 DEF Status
    <2>3. QED
      BY <1>3, <2>1, <2>2
  <1>4. ASSUME NEW p \in Proc, RestartXray(p) \/ Health(p)
        PROVE  BootInv'
    BY <1>4 DEF RestartXray, Health, RestartFailed, Finish, Forget, data, outer, xray
  <1>5. ASSUME NEW p \in Proc, Remove(p)
        PROVE  BootInv'
    BY <1>5, RemoveEffect DEF data, outer
  <1>6. ASSUME NEW p \in Proc, Add(p)
        PROVE  BootInv'
    BY <1>6, AddEffect DEF NextTag, Finish, Forget, data, outer
  <1>7. ASSUME NEW p \in Proc, Abort(p)
        PROVE  BootInv'
    BY <1>7 DEF Abort, Forget, data, outer, xray
  <1>8. CASE RotateKeys \/ XrayLoad \/ XrayListen \/ XrayCrash \/ SupervisorStart \/
     ToolRestart \/ UNCHANGED vars
    BY <1>8 DEF RotateKeys, Operation, XrayLoad, XrayListen, XrayCrash, SupervisorStart,
       ToolRestart, vars, job, data, outer, xray
  <1>9. CASE Redeploy
    BY <1>9 DEF Redeploy, data
  <1>10. QED
    BY <1>1, <1>2, <1>3, <1>4, <1>5, <1>6, <1>7, <1>8, <1>9 DEF Next, Pipeline, Environment

\* Keys are never applied in an order other than that of their generations.
LEMMA KeyOrderStep ==
  ASSUME StoreInv, [Next]_vars
  PROVE  KeyOrderInv'
  <1> USE ConstantsOK, NoConfigIsNoConfig DEF StoreInv, TypeOK, OneApplyAtATime, Locked,
     Unwritten, Written, Syncing, Restarting, Goto, KeyOrderInv, CandidateInv,
     WriterInv, BootInv, Config
  <1>1. ASSUME NEW p \in Proc, Operations(p) \/ Bootstrap(p) \/ Snapshot(p) \/ LockTimeout(p)
        PROVE  KeyOrderInv'
    BY <1>1 DEF Operations, SetActive, RegenerateUuid, Resync, BeginOperation,
       Bootstrap, Snapshot, LockTimeout, Forget, data, outer, xray, budget
  <1>2. ASSUME NEW p \in Proc, Acquire(p) \/ Render(p) \/ Write(p) \/ List(p) \/ Rollback(p)
        PROVE  KeyOrderInv'
    BY <1>2 DEF Acquire, Render, Write, List, Rollback, data, outer, xray
  <1>3. ASSUME NEW p \in Proc, Validate(p) \/ Status(p)
        PROVE  KeyOrderInv'
    BY <1>3 DEF Validate, Accepted, Status, Structural, Finish, Forget, data, outer, xray
  <1>4. ASSUME NEW p \in Proc, RestartXray(p) \/ Health(p)
        PROVE  KeyOrderInv'
    BY <1>4 DEF RestartXray, Health, RestartFailed, Finish, Forget, data, outer, xray
  <1>5. ASSUME NEW p \in Proc, Remove(p)
        PROVE  KeyOrderInv'
    BY <1>5, RemoveEffect DEF data, outer
  <1>6. ASSUME NEW p \in Proc, Add(p)
        PROVE  KeyOrderInv'
    BY <1>6, AddEffect DEF NextTag, Finish, Forget, data, outer
  <1>7. ASSUME NEW p \in Proc, Abort(p)
        PROVE  KeyOrderInv'
    BY <1>7 DEF Abort, Forget, data, outer, xray
  <1>8. CASE RotateKeys \/ XrayLoad \/ XrayListen \/ XrayCrash \/ SupervisorStart \/
     ToolRestart \/ UNCHANGED vars
    BY <1>8 DEF RotateKeys, Operation, XrayLoad, XrayListen, XrayCrash, SupervisorStart,
       ToolRestart, vars, job, data, outer, xray
  <1>9. CASE Redeploy
    BY <1>9 DEF Redeploy, data
  <1>10. QED
    BY <1>1, <1>2, <1>3, <1>4, <1>5, <1>6, <1>7, <1>8, <1>9 DEF Next, Pipeline, Environment

\* Every part of StoreInv holds before the bootstrap.
LEMMA StoreInit == Init => StoreInv
  BY ConstantsOK, TypeFacts DEF Outcome, Init, StoreInv, TypeOK, Account, Config, Tag, XrayState,
     BeforeLock, Locked, Unwritten, Written, Syncing, Restarting, OneApplyAtATime,
     FileIsValid, CandidateInv, WriterInv, BootInv, KeyOrderInv

\* The parts together are inductive.
LEMMA StoreStep == StoreInv /\ [Next]_vars => StoreInv'
  BY TypeStep, LockStep, FileStep, CandidateStep, WriterStep, BootStep, KeyOrderStep
     DEF StoreInv

\* The inductive invariant that needs no assumption on what may fail: whatever is
\* killed, rejected or restarted, file, candidates and lock fit together.
THEOREM StoreInvariant == Spec => []StoreInv
  BY StoreInit, StoreStep, PTL DEF Spec

\* The types of every variable, in every reachable state.
THEOREM TypeCorrect == Spec => []TypeOK
  <1>1. StoreInv => TypeOK
    BY DEF StoreInv
  <1>2. QED
    BY <1>1, StoreInvariant, PTL

\* config_lock works as its docstring says, whoever is killed or times out.
THEOREM MutualExclusion == Spec => []OneApplyAtATime
  <1>1. StoreInv => OneApplyAtATime
    BY DEF StoreInv
  <1>2. QED
    BY <1>1, StoreInvariant, PTL

\* config.json is never a configuration that Xray's own validator rejects.
THEOREM FileAlwaysValid == Spec => []FileIsValid
  <1>1. StoreInv => FileIsValid
    BY DEF StoreInv
  <1>2. QED
    BY <1>1, StoreInvariant, PTL

------------------------------------------------------------------------------
(* AccountsInv: the account sync, as long as status requests are answered.  *)

\* Two account lists that agree on every account are equal.
LEMMA SameList ==
  ASSUME NEW f \in UserList, NEW g \in UserList, \A u \in User : f[u] = g[u]
  PROVE  f = g
  BY DEF UserList

\* A process that is not in the sync, or whose inbounds nobody touched.
LEMMA SyncFrame ==
  ASSUME NEW p \in Proc, SyncedSoFar(p),
         \/ pc'[p] \notin Syncing
         \/ /\ pc'[p] = pc[p] /\ live' = live /\ cand'[p] = cand[p]
            /\ cur'[p] = cur[p] /\ tag'[p] = tag[p]
  PROVE  SyncedSoFar(p)'
  BY DEF SyncedSoFar, Additions, Syncing

\* Xray restarted in the middle of a sync has read the candidate from the file.
LEMMA SyncReload ==
  ASSUME StoreInv, XrayLoad, xr' \in Serving, NEW p \in Proc
  PROVE  SyncedSoFar(p)'
  <1>1. /\ live' = [keys |-> file.keys, users |-> [t \in Tag |-> file.users]]
        /\ UNCHANGED job
    BY DEF XrayLoad, Serving
  <1>2. CASE pc[p] \notin Syncing
    BY <1>1, <1>2 DEF SyncedSoFar, Syncing, job
  <1>3. CASE pc[p] \in Syncing
    <2>1. file = cand[p] /\ tag[p] \in Tag
      BY <1>3 DEF StoreInv, TypeOK, WriterInv, Syncing, Restarting, Written
    <2>2. QED
      BY <1>1, <2>1 DEF SyncedSoFar, job
  <1>4. QED
    BY <1>2, <1>3

\* Where the account sync stands is kept up by every step, of whatever process.
LEMMA SyncStep ==
  ASSUME StoreInv, SyncInv, [Next]_vars
  PROVE  SyncInv'
  <1> SUFFICES ASSUME xr' \in Serving, NEW q \in Proc
               PROVE  SyncedSoFar(q)'
    BY DEF SyncInv
  <1> USE DEF StoreInv, TypeOK, Goto, Syncing, Serving
  <1>0. ASSUME xr \in Serving PROVE SyncedSoFar(q)
    BY <1>0 DEF SyncInv
  \* While p is in the pipeline nobody else is.
  <1>a. ASSUME NEW p \in Proc, pc[p] \in Locked, q # p PROVE pc[q] \notin Locked
    BY <1>a, ConstantsOK DEF OneApplyAtATime
  <1>1. ASSUME NEW p \in Proc, Operations(p) \/ Bootstrap(p) \/ Snapshot(p) \/ LockTimeout(p)
        PROVE  SyncedSoFar(q)'
    <2>1. /\ UNCHANGED xray
          /\ pc'[p] \notin Syncing
          /\ q # p => UNCHANGED <<pc[q], cand[q], cur[q], tag[q]>>
      BY <1>1 DEF Operations, SetActive, RegenerateUuid, Resync, BeginOperation, Bootstrap,
         Snapshot, LockTimeout, Forget
    <2>2. QED
      BY <1>0, <2>1, SyncFrame DEF xray
  <1>2. ASSUME NEW p \in Proc, Acquire(p) \/ Render(p) \/ Write(p) \/ Rollback(p)
                                \/ Validate(p) \/ Health(p)
        PROVE  SyncedSoFar(q)'
    <2>1. /\ UNCHANGED xray
          /\ pc'[p] \notin Syncing
          /\ q # p => UNCHANGED <<pc[q], cand[q], cur[q], tag[q]>>
      BY <1>2 DEF Acquire, Render, Write, Rollback, Validate, Accepted, Health,
                  RestartFailed, Finish, Forget
    <2>2. QED
      BY <1>0, <2>1, SyncFrame DEF xray
  <1>3. ASSUME NEW p \in Proc, RestartXray(p)
        PROVE  SyncedSoFar(q)'
    <2>1. /\ UNCHANGED xray
          /\ pc'[p] \notin Syncing
          /\ q # p => UNCHANGED <<pc[q], cand[q], cur[q], tag[q]>>
      BY <1>3 DEF RestartXray, RestartFailed, Finish, Forget, xray
    <2>2. QED
      BY <1>0, <2>1, SyncFrame DEF xray
  <1>4. ASSUME NEW p \in Proc, Status(p)
        PROVE  SyncedSoFar(q)'
    <2>1. /\ UNCHANGED xray
          /\ q # p => UNCHANGED <<pc[q], cand[q], cur[q], tag[q]>>
      BY <1>4 DEF Status, Finish, Forget
    <2>2. CASE q = p /\ pc'[p] \in Syncing
      <3>1. pc'[p] = "list" /\ tag'[p] = 1
        BY <1>4, <2>2 DEF Status, CandidateInv, Finish, Forget
      <3>2. QED
        BY <2>2, <3>1 DEF SyncedSoFar, Tag
    <2>3. QED
      BY <1>0, <2>1, <2>2, SyncFrame DEF xray
  <1>5. ASSUME NEW p \in Proc, List(p)
        PROVE  SyncedSoFar(q)'
    <2>1. /\ UNCHANGED <<live, xr>>
          /\ q # p => UNCHANGED <<pc[q], cand[q], cur[q], tag[q]>>
      BY <1>5 DEF List, xray
    <2>2. CASE q = p /\ pc'[p] \in Syncing
      <3>1. /\ pc[p] = "list" /\ pc'[p] = "remove"
            /\ UNCHANGED <<live, cand, tag>>
            /\ cur'[p] = live.users[tag[p]]
        BY <1>5, <2>2 DEF List, Listed, xray
      <3>2. QED
        BY <1>0, <2>1, <2>2, <3>1 DEF SyncedSoFar
    <2>3. QED
      BY <1>0, <2>1, <2>2, SyncFrame
  <1>6. ASSUME NEW p \in Proc, Remove(p)
        PROVE  SyncedSoFar(q)'
    <2>1. CASE q # p
      <3>1. pc'[q] \notin Syncing
        BY <1>6, <1>a, <2>1, RemoveEffect DEF Locked, Written
      <3>2. QED
        BY <3>1 DEF SyncedSoFar
    <2>2. CASE q = p /\ pc'[p] = "restart"
      BY <2>2 DEF SyncedSoFar
    <2>3. CASE q = p /\ pc'[p] = "add"
      <3>1. SyncedSoFar(p) /\ pc[p] = "remove" /\ UNCHANGED <<cand, cur, tag>>
        BY <1>0, <1>6, <2>3, RemoveEffect
      <3>2. ASSUME NEW t \in Tag, t < tag[p] PROVE live'.users[t] = cand[p].users
        BY <1>6, <3>1, <3>2, RemoveEffect DEF SyncedSoFar, Tag
      <3>3. ASSUME NEW u \in User
            PROVE  \/ live'.users[tag[p]][u] = cand[p].users[u]
                   \/ u \in Additions(p) /\ live'.users[tag[p]][u] = 0
        <4>1. live'.users[tag[p]][u] =
                IF u \in Stale(p) THEN 0 ELSE live.users[tag[p]][u]
          BY <1>6, <2>3, RemoveEffect
        <4>2. live.users[tag[p]][u] \in {cur[p][u], cand[p].users[u]}
          BY <3>1 DEF SyncedSoFar
        <4>3. QED
          BY <4>1, <4>2 DEF Stale, Additions
      <3>4. QED
        BY <2>3, <3>1, <3>2, <3>3 DEF SyncedSoFar, Additions
    <2>4. QED
      BY <1>6, <2>1, <2>2, <2>3, RemoveEffect
  <1>7. ASSUME NEW p \in Proc, Add(p)
        PROVE  SyncedSoFar(q)'
    <2>1. CASE q # p
      <3>1. pc'[q] \notin Syncing
        BY <1>7, <1>a, <2>1, AddEffect DEF Locked, Written, NextTag, Finish, Forget
      <3>2. QED
        BY <3>1 DEF SyncedSoFar
    <2>2. CASE q = p /\ pc'[p] \notin Syncing
      BY <2>2 DEF SyncedSoFar
    <2>3. CASE q = p /\ pc'[p] \in Syncing
      <3>1. /\ pc'[p] = "list" /\ tag'[p] = tag[p] + 1 /\ UNCHANGED cand
            /\ SyncedSoFar(p) /\ pc[p] = "add"
            /\ \A u \in User : live'.users[tag[p]][u] =
                 IF u \in Additions(p) THEN cand[p].users[u] ELSE live.users[tag[p]][u]
        BY <1>0, <1>7, <2>3, AddEffect DEF NextTag, Finish, Forget
      <3>2. \A u \in User : live'.users[tag[p]][u] = cand[p].users[u]
        BY <3>1 DEF SyncedSoFar
      <3>3. live'.users[tag[p]] \in UserList /\ cand[p].users \in UserList
        BY <1>7, <3>1, AddEffect DEF CandidateInv, Config, Locked, Written
      <3>4. live'.users[tag[p]] = cand[p].users
        <4> HIDE DEF TypeOK
        <4>1. QED
          BY <3>2, <3>3, SameList
      <3>5. ASSUME NEW t \in Tag, t < tag[p] + 1 PROVE live'.users[t] = cand[p].users
        <4>1. CASE t = tag[p]
          BY <3>4, <4>1
        <4>2. CASE t < tag[p]
          BY <1>7, <3>1, <4>2, AddEffect DEF SyncedSoFar, Tag
        <4>3. QED
          BY <3>5, <4>1, <4>2, ConstantsOK DEF Tag
      <3>6. QED
        BY <2>3, <3>1, <3>5 DEF SyncedSoFar
    <2>4. QED
      BY <2>1, <2>2, <2>3
  <1>8. ASSUME NEW p \in Proc, Abort(p)
        PROVE  SyncedSoFar(q)'
    <2>1. /\ UNCHANGED xray
          /\ pc'[p] \notin Syncing
          /\ q # p => UNCHANGED <<pc[q], cand[q], cur[q], tag[q]>>
      BY <1>8 DEF Abort, Forget
    <2>2. QED
      BY <1>0, <2>1, SyncFrame DEF xray
  <1>9. CASE XrayLoad
    BY <1>9, SyncReload
  <1>10. CASE RotateKeys \/ XrayListen \/ UNCHANGED vars
    <2>1. UNCHANGED live /\ UNCHANGED job /\ xr \in Serving
      BY <1>10 DEF RotateKeys, XrayListen, vars, xray
    <2>2. QED
      BY <1>0, <2>1, SyncFrame DEF job
  <1>11. CASE XrayCrash \/ SupervisorStart \/ ToolRestart \/ Redeploy
    BY <1>11 DEF XrayCrash, SupervisorStart, ToolRestart, Redeploy
  <1>12. QED
    BY <1>1, <1>2, <1>3, <1>4, <1>5, <1>6, <1>7, <1>8, <1>9, <1>10, <1>11
       DEF Next, Pipeline, Environment

\* Xray loads nothing but the new file between the restart and the verdict.
LEMMA HealthStep ==
  ASSUME StoreInv, HealthInv, [Next]_vars
  PROVE  HealthInv'
  <1> SUFFICES ASSUME xr' \in Serving, NEW q \in Proc, pc'[q] = "health"
               PROVE  LiveMatchesFile'
    BY DEF HealthInv
  <1> USE DEF StoreInv, TypeOK, Goto, Serving, Locked, Unwritten, Written, Syncing, Restarting
  <1>0. ASSUME xr \in Serving, pc[q] = "health", UNCHANGED <<live, file>>
        PROVE  LiveMatchesFile'
    BY <1>0 DEF HealthInv, LiveMatchesFile, LiveAccountsMatchFile
  <1>1. ASSUME NEW p \in Proc, Operations(p) \/ Bootstrap(p) \/ Snapshot(p) \/ LockTimeout(p)
        PROVE  LiveMatchesFile'
    BY <1>0, <1>1 DEF Operations, SetActive, RegenerateUuid, Resync, BeginOperation,
       Bootstrap, Snapshot, LockTimeout, Forget, xray
  <1>2. ASSUME NEW p \in Proc, Acquire(p) \/ Render(p) \/ Validate(p) \/ Status(p)
                                \/ List(p) \/ Health(p)
        PROVE  LiveMatchesFile'
    BY <1>0, <1>2 DEF Acquire, Render, Validate, Accepted, Status, List, Health, RestartFailed,
       Finish, Forget, xray
  \* q is at its health check, so no other process is in the pipeline.
  <1>3. ASSUME NEW p \in Proc, Write(p) \/ Rollback(p) \/ Remove(p) \/ Add(p) \/ RestartXray(p)
        PROVE  LiveMatchesFile'
    <2>1. CASE Write(p) \/ Rollback(p)
      BY <2>1, ConstantsOK DEF Write, Rollback, OneApplyAtATime
    <2>2. CASE Remove(p)
      BY <2>2, RemoveEffect, ConstantsOK DEF OneApplyAtATime
    <2>3. CASE Add(p)
      BY <2>3, AddEffect, ConstantsOK DEF OneApplyAtATime, NextTag, Finish, Forget
    <2>4. CASE RestartXray(p)
      BY <2>4, ConstantsOK DEF RestartXray, RestartFailed, Finish, Forget, OneApplyAtATime, xray
    <2>5. QED
      BY <1>3, <2>1, <2>2, <2>3, <2>4
  <1>4. ASSUME NEW p \in Proc, Abort(p)
        PROVE  LiveMatchesFile'
    BY <1>0, <1>4 DEF Abort, Forget, xray
  <1>5. CASE XrayLoad
    BY <1>5 DEF XrayLoad, LiveMatchesFile, LiveAccountsMatchFile
  <1>6. CASE RotateKeys \/ XrayListen \/ UNCHANGED vars
    BY <1>0, <1>6 DEF RotateKeys, XrayListen, vars, xray, job
  <1>7. CASE XrayCrash \/ SupervisorStart \/ ToolRestart \/ Redeploy
    BY <1>7 DEF XrayCrash, SupervisorStart, ToolRestart, Redeploy
  <1>8. QED
    BY <1>1, <1>2, <1>3, <1>4, <1>5, <1>6, <1>7 DEF Next, Pipeline, Environment

\* The end of the account sync: every inbound matches the candidate.
LEMMA SyncEnds ==
  ASSUME StoreInv, SyncInv, xr \in Serving, NEW p \in Proc, Add(p), pc'[p] = "idle"
  PROVE  /\ lock' = NoProc /\ report' = "ok" /\ file' = file /\ xr' = xr
         /\ file = cand[p] /\ live'.keys = live.keys
         /\ \A t \in Tag : live'.users[t] = file'.users
  <1>1. /\ pc[p] = "add" /\ Finish(p, "ok") /\ ~(tag[p] < NTag)
        /\ file' = file /\ xr' = xr /\ live'.keys = live.keys
        /\ \A s \in Tag : s # tag[p] => live'.users[s] = live.users[s]
        /\ \A u \in User : live'.users[tag[p]][u] =
             IF u \in Additions(p) THEN cand[p].users[u] ELSE live.users[tag[p]][u]
    BY AddEffect DEF NextTag, Goto, StoreInv, TypeOK
  <1>2. SyncedSoFar(p) /\ file = cand[p] /\ tag[p] \in Tag /\ cand[p] \in Config
    BY <1>1 DEF SyncInv, StoreInv, TypeOK, WriterInv, CandidateInv, Locked, Written, Syncing
  <1>3. \A u \in User : live'.users[tag[p]][u] = cand[p].users[u]
    BY <1>1, <1>2 DEF SyncedSoFar
  <1>4. live'.users[tag[p]] \in UserList /\ cand[p].users \in UserList
    BY <1>2, AddEffect DEF StoreInv, Config
  <1>5. live'.users[tag[p]] = cand[p].users
    BY <1>3, <1>4, SameList
  <1>6. ASSUME NEW t \in Tag PROVE live'.users[t] = cand[p].users
    <2>1. CASE t = tag[p]
      BY <1>5, <2>1
    <2>2. CASE t # tag[p]
      <3>1. t < tag[p]
        BY <1>1, <1>2, <2>2, ConstantsOK DEF Tag
      <3>2. QED
        BY <1>1, <1>2, <2>2, <3>1 DEF SyncedSoFar, Syncing
    <2>3. QED
      BY <2>1, <2>2
  <1>7. QED
    BY <1>1, <1>2, <1>6 DEF Finish

\* How "nobody is applying, the last apply succeeded, Xray serves" comes about: it
\* held already, Xray has just loaded the file, or an apply has just succeeded
\* after a health check, after an account sync or for want of an answer.
LEMMA OkStep ==
  ASSUME StoreInv, SyncInv, HealthInv, [Next]_vars,
         lock' = NoProc, report' \in Success, xr' \in Serving
  PROVE  \/ lock = NoProc /\ xr \in Serving /\ UNCHANGED <<live, file, report>>
         \/ LiveMatchesFile'
         \/ \E p \in Proc : Add(p) /\ pc'[p] = "idle" /\ xr \in Serving
         \/ report' = "written" /\ "silent" \in Faults
  <1> USE ConstantsOK DEF StoreInv, TypeOK, Goto, Serving, Locked, Unwritten, Written,
          Syncing, Restarting, Success
  <1>1. ASSUME NEW p \in Proc, Operations(p) \/ Bootstrap(p) \/ Snapshot(p) \/ LockTimeout(p)
        PROVE  lock = NoProc /\ xr \in Serving /\ UNCHANGED <<live, file, report>>
    BY <1>1 DEF Operations, SetActive, RegenerateUuid, Resync, BeginOperation, Bootstrap,
       Snapshot, LockTimeout, xray, outer
  <1>2. ASSUME NEW p \in Proc, Acquire(p) \/ Render(p) \/ Validate(p) \/ Write(p) \/ List(p)
                                \/ Rollback(p) \/ RestartXray(p)
        PROVE  FALSE
    <2>1. CASE Acquire(p) \/ Render(p) \/ Write(p) \/ List(p) \/ Rollback(p)
      BY <2>1 DEF Acquire, Render, Write, List, Rollback, OneApplyAtATime
    <2>2. CASE Validate(p) \/ RestartXray(p)
      BY <2>2 DEF Validate, Accepted, RestartXray, RestartFailed, Finish, OneApplyAtATime
    <2>3. QED
      BY <1>2, <2>1, <2>2
  <1>3. ASSUME NEW p \in Proc, Status(p)
        PROVE  report' = "written" /\ "silent" \in Faults
    BY <1>3 DEF Status, Fault, Running, xray, OneApplyAtATime, Finish
  <1>4. ASSUME NEW p \in Proc, Health(p)
        PROVE  LiveMatchesFile'
    <2>1. xr \in Serving /\ pc[p] = "health" /\ UNCHANGED <<live, file>>
      BY <1>4 DEF Health, xray
    <2>2. QED
      BY <2>1 DEF HealthInv, LiveMatchesFile, LiveAccountsMatchFile
  <1>5. ASSUME NEW p \in Proc, Remove(p)
        PROVE  FALSE
    BY <1>5, RemoveEffect DEF OneApplyAtATime
  <1>6. ASSUME NEW p \in Proc, Add(p)
        PROVE  pc'[p] = "idle" /\ xr \in Serving
    BY <1>6, AddEffect DEF NextTag, Finish, Forget, OneApplyAtATime
  <1>7. ASSUME NEW p \in Proc, Abort(p)
        PROVE  lock = NoProc /\ xr \in Serving /\ UNCHANGED <<live, file, report>>
    BY <1>7 DEF Abort, xray
  <1>8. CASE RotateKeys \/ XrayListen \/ UNCHANGED vars
    BY <1>8 DEF RotateKeys, XrayListen, vars, xray, outer
  <1>9. CASE XrayLoad
    BY <1>9 DEF XrayLoad, LiveMatchesFile, LiveAccountsMatchFile
  <1>10. CASE XrayCrash \/ SupervisorStart \/ ToolRestart \/ Redeploy
    BY <1>10 DEF XrayCrash, SupervisorStart, ToolRestart, Redeploy
  <1>11. QED
    BY <1>1, <1>2, <1>3, <1>4, <1>5, <1>6, <1>7, <1>8, <1>9, <1>10
       DEF Next, Pipeline, Environment

\* As long as nothing fails nobody but the process that syncs touches Xray, so what
\* it listed is still there when it removes, and gone when it adds.
LEMMA QuietSyncStep ==
  ASSUME StoreInv, QuietSyncInv, [Next]_vars
  PROVE  QuietSyncInv'
  <1> SUFFICES ASSUME faults' = 0, NEW q \in Proc
               PROVE  /\ pc'[q] = "remove" => xr' = "up" /\ live'.users[tag'[q]] = cur'[q]
                      /\ pc'[q] = "add" =>
                           xr' = "up" /\ \A u \in Additions(q)' : live'.users[tag'[q]][u] = 0
    BY DEF QuietSyncInv
  <1> USE DEF StoreInv, TypeOK, Goto, Syncing
  <1>a. ASSUME NEW p \in Proc, pc[p] \in Locked, q # p PROVE pc[q] \notin Locked
    BY <1>a, ConstantsOK DEF OneApplyAtATime
  <1>b. ASSUME NEW kind, Fault(kind) PROVE FALSE
    BY <1>b, ConstantsOK DEF Fault
  <1>c. ASSUME faults = 0, UNCHANGED xray, UNCHANGED <<pc[q], cand[q], cur[q], tag[q]>>
        PROVE  /\ pc'[q] = "remove" => xr' = "up" /\ live'.users[tag'[q]] = cur'[q]
               /\ pc'[q] = "add" =>
                    xr' = "up" /\ \A u \in Additions(q)' : live'.users[tag'[q]][u] = 0
    BY <1>c DEF QuietSyncInv, xray, Additions
  <1>1. ASSUME NEW p \in Proc,
               \/ Operations(p) \/ Bootstrap(p) \/ Snapshot(p) \/ LockTimeout(p) \/ Acquire(p)
               \/ Render(p) \/ Write(p) \/ Rollback(p) \/ Validate(p) \/ Health(p) \/ Status(p)
        PROVE  /\ pc'[q] = "remove" => xr' = "up" /\ live'.users[tag'[q]] = cur'[q]
               /\ pc'[q] = "add" =>
                    xr' = "up" /\ \A u \in Additions(q)' : live'.users[tag'[q]][u] = 0
    <2>1. /\ UNCHANGED xray /\ faults = 0
          /\ pc'[p] \notin {"remove", "add"}
          /\ q # p => UNCHANGED <<pc[q], cand[q], cur[q], tag[q]>>
      BY <1>1, <1>b DEF Operations, SetActive, RegenerateUuid, Resync, BeginOperation,
         Bootstrap, Snapshot, LockTimeout, Acquire, Render, Write, Rollback, Validate,
         Accepted, Health, Status, RestartFailed, Finish, Forget, Operation, budget
    <2>2. QED
      BY <1>c, <2>1
  <1>2. ASSUME NEW p \in Proc, List(p)
        PROVE  /\ pc'[q] = "remove" => xr' = "up" /\ live'.users[tag'[q]] = cur'[q]
               /\ pc'[q] = "add" =>
                    xr' = "up" /\ \A u \in Additions(q)' : live'.users[tag'[q]][u] = 0
    BY <1>2, <1>b, <1>c DEF List, Listed, xray
  <1>3. ASSUME NEW p \in Proc, Remove(p)
        PROVE  /\ pc'[q] = "remove" => xr' = "up" /\ live'.users[tag'[q]] = cur'[q]
               /\ pc'[q] = "add" =>
                    xr' = "up" /\ \A u \in Additions(q)' : live'.users[tag'[q]][u] = 0
    <2>1. faults = 0 /\ pc[p] = "remove" /\ UNCHANGED <<xr, cand, cur, tag>>
      BY <1>3, <1>b DEF Remove
    <2>2. xr = "up" /\ live.users[tag[p]] = cur[p]
      BY <2>1 DEF QuietSyncInv
    <2>3. CASE q = p
      <3>1. pc'[p] = "add" => \A u \in User : live'.users[tag[p]][u] =
                                IF u \in Stale(p) THEN 0 ELSE live.users[tag[p]][u]
        BY <1>3, RemoveEffect
      <3>2. \A u \in Additions(p) : u \notin Stale(p) => cur[p][u] = 0
        BY DEF Additions, Stale
      <3>3. pc'[p] # "remove"
        BY <1>3, RemoveEffect
      <3>4. \A u \in Additions(p) : u \in User
        BY DEF Additions
      <3>5. Additions(p)' = Additions(p)
        BY <2>1 DEF Additions
      <3>6. QED
        BY <2>1, <2>2, <2>3, <3>1, <3>2, <3>3, <3>4, <3>5
    <2>4. CASE q # p
      <3>1. pc[q] \notin Locked
        BY <1>a, <2>1, <2>4 DEF Locked, Written
      <3>2. pc'[q] = pc[q]
        BY <1>3, <2>4, RemoveEffect
      <3>3. QED
        BY <3>1, <3>2 DEF Locked, Written
    <2>5. QED
      BY <2>3, <2>4
  <1>4. ASSUME NEW p \in Proc, Add(p)
        PROVE  /\ pc'[q] = "remove" => xr' = "up" /\ live'.users[tag'[q]] = cur'[q]
               /\ pc'[q] = "add" =>
                    xr' = "up" /\ \A u \in Additions(q)' : live'.users[tag'[q]][u] = 0
    <2>1. pc[p] = "add" /\ pc'[p] \notin {"remove", "add"} /\ (q # p => pc'[q] = pc[q])
      BY <1>4 DEF Add, NextTag, Finish, Forget
    <2>2. q # p => pc[q] \notin Locked
      BY <1>a, <2>1 DEF Locked, Written
    <2>3. QED
      BY <2>1, <2>2 DEF Locked, Written
  <1>5. ASSUME NEW p \in Proc, RestartXray(p)
        PROVE  /\ pc'[q] = "remove" => xr' = "up" /\ live'.users[tag'[q]] = cur'[q]
               /\ pc'[q] = "add" =>
                    xr' = "up" /\ \A u \in Additions(q)' : live'.users[tag'[q]][u] = 0
    <2>1. pc[p] = "restart" /\ pc'[p] \notin {"remove", "add"} /\ (q # p => pc'[q] = pc[q])
      BY <1>5 DEF RestartXray, RestartFailed, Finish, Forget
    <2>2. q # p => pc[q] \notin Locked
      BY <1>a, <2>1 DEF Locked, Written, Restarting
    <2>3. QED
      BY <2>1, <2>2 DEF Locked, Written
  <1>6. CASE RotateKeys \/ XrayLoad \/ XrayListen \/ SupervisorStart \/ UNCHANGED vars
    <2>1. faults = 0 /\ UNCHANGED job
      BY <1>6, <1>b DEF RotateKeys, XrayLoad, XrayListen, SupervisorStart, vars, budget, outer
    <2>2. CASE xr # "up"
      BY <2>1, <2>2 DEF QuietSyncInv, job
    <2>3. CASE UNCHANGED xray
      BY <1>c, <2>1, <2>3 DEF job
    <2>4. QED
      BY <1>6, <2>2, <2>3 DEF RotateKeys, XrayLoad, XrayListen, SupervisorStart, vars
  <1>7. CASE (\E p \in Proc : Abort(p)) \/ XrayCrash \/ ToolRestart \/ Redeploy
    BY <1>7, <1>b DEF Abort, XrayCrash, ToolRestart, Redeploy
  <1>8. QED
    BY <1>1, <1>2, <1>3, <1>4, <1>5, <1>6, <1>7 DEF Next, Pipeline, Environment

\* README: "Adding or removing an account uses Xray's runtime API, so existing tunnels
\* are not interrupted": whatever the accounts of an inbound that is up are, and
\* whatever they shall be, an undisturbed sync reaches them without a restart.
THEOREM SyncStaysOnline == Spec => SyncNeedsNoRestart
  <1>1. Init => StoreInv /\ QuietSyncInv
    BY StoreInit DEF Init, QuietSyncInv
  <1>2. StoreInv /\ QuietSyncInv /\ [Next]_vars => (StoreInv /\ QuietSyncInv)'
    BY StoreStep, QuietSyncStep
  <1>3. ASSUME StoreInv, QuietSyncInv, [Next]_vars
        PROVE  [\A p \in Proc :
                 (pc[p] \in Syncing /\ pc'[p] = "restart") => (xr # "up" \/ faults' > 0)]_vars
    <2> SUFFICES ASSUME NEW p \in Proc, pc[p] \in Syncing, pc'[p] = "restart", xr = "up",
                        Next, ~(faults' > 0)
                 PROVE  FALSE
      BY <1>3
    <2> USE DEF StoreInv, TypeOK, Goto
    <2>1. faults' \in 0..MaxFaults
      BY <1>3, TypeStep DEF StoreInv, TypeOK
    <2>2. faults' = 0
      BY <2>1, ConstantsOK
    <2>3. ASSUME NEW kind, Fault(kind) PROVE FALSE
      BY <1>3, <2>2, <2>3, ConstantsOK DEF Fault
    <2>4. ASSUME NEW q \in Proc, q # p,
                 Operations(q) \/ Bootstrap(q) \/ Pipeline(q) \/ Abort(q)
          PROVE  FALSE
      <3>1. pc'[p] = pc[p]
        BY <1>3, <2>4 DEF Operations, SetActive, RegenerateUuid, Resync, BeginOperation, Bootstrap,
           Pipeline, Snapshot, LockTimeout, Acquire, Render, Write, Rollback, Validate,
           Accepted, Health, Status, RestartFailed, RestartXray, List, Remove, Add, NextTag,
           Finish, Forget, Abort
      <3>2. QED
        BY <3>1 DEF Syncing
    <2>5. CASE List(p)
      BY <1>3, <2>3, <2>5 DEF List
    <2>6. CASE Remove(p)
      <3>1. faults = 0 /\ pc[p] = "remove"
        BY <2>2, <2>3, <2>6 DEF Remove
      <3>2. live.users[tag[p]] = cur[p]
        BY <3>1, <1>3 DEF QuietSyncInv
      <3>3. {u \in Stale(p) : live.users[tag[p]][u] # 0} = Stale(p)
        BY <3>2 DEF Stale
      <3>4. QED
        BY <1>3, <2>3, <2>6, <3>3 DEF Remove
    <2>7. CASE Add(p)
      <3>1. faults = 0 /\ pc[p] = "add"
        BY <2>2, <2>3, <2>7 DEF Add
      <3>2. \A u \in Additions(p) : live.users[tag[p]][u] = 0
        BY <3>1, <1>3 DEF QuietSyncInv
      <3>3. {u \in Additions(p) : live.users[tag[p]][u] = 0} = Additions(p)
        BY <3>2
      <3>4. ~NextTag(p)
        BY <1>3 DEF NextTag, Finish, Forget
      <3>5. QED
        BY <2>3, <2>7, <3>3, <3>4 DEF Add
    <2>8. CASE \/ Operations(p) \/ Bootstrap(p) \/ Snapshot(p) \/ Acquire(p) \/ LockTimeout(p)
               \/ Render(p) \/ Validate(p) \/ Write(p) \/ Status(p)
               \/ RestartXray(p) \/ Health(p) \/ Rollback(p) \/ Abort(p)
      BY <2>3, <2>8 DEF Operations, SetActive, RegenerateUuid, Resync, BeginOperation, Bootstrap,
         Snapshot, Acquire, LockTimeout, Render, Validate, Write, Status, RestartXray, Health,
         Rollback, Abort, Syncing
    <2>9. CASE RotateKeys \/ XrayLoad \/ XrayListen \/ SupervisorStart
      BY <2>9 DEF RotateKeys, XrayLoad, XrayListen, SupervisorStart, job, Syncing
    <2>10. CASE XrayCrash \/ ToolRestart \/ Redeploy
      BY <2>3, <2>10 DEF XrayCrash, ToolRestart, Redeploy
    <2>11. QED
      BY <1>3, <2>4, <2>5, <2>6, <2>7, <2>8, <2>9, <2>10 DEF Next, Pipeline, Environment
  <1>4. QED
    BY <1>1, <1>2, <1>3, PTL DEF Spec, SyncNeedsNoRestart

\* AccountsInv is inductive, whatever goes wrong.
LEMMA AccountsStep ==
  ASSUME AccountsInv, [Next]_vars
  PROVE  AccountsInv'
  <1> USE DEF AccountsInv
  <1>1. StoreInv' /\ SyncInv' /\ HealthInv' /\ QuietSyncInv'
    BY StoreStep, SyncStep, HealthStep, QuietSyncStep
  <1>2. OkMeansAccountsLive'
    <2> SUFFICES ASSUME lock' = NoProc, report' = "ok", xr' \in Serving
                 PROVE  LiveAccountsMatchFile'
      BY DEF OkMeansAccountsLive
    <2>1. CASE lock = NoProc /\ xr \in Serving /\ UNCHANGED <<live, file, report>>
      BY <2>1 DEF OkMeansAccountsLive, LiveAccountsMatchFile
    <2>2. CASE LiveMatchesFile'
      BY <2>2 DEF LiveMatchesFile
    <2>3. CASE \E p \in Proc : Add(p) /\ pc'[p] = "idle" /\ xr \in Serving
      BY <2>3, SyncEnds DEF LiveAccountsMatchFile
    <2>4. QED
      BY <2>1, <2>2, <2>3, OkStep DEF Success
  <1>3. QED
    BY <1>1, <1>2

\* The inductive invariant of the account sync.
LEMMA AccountsInvariant == Spec => []AccountsInv
  <1>1. Init => AccountsInv
    BY StoreInit DEF AccountsInv, Init, SyncInv, HealthInv, QuietSyncInv, OkMeansAccountsLive,
       Serving
  <1>2. AccountsInv /\ [Next]_vars => AccountsInv'
    BY AccountsStep
  <1>3. QED
    BY <1>1, <1>2, PTL DEF Spec

\* An apply that synchronised or restarted Xray leaves every account where
\* config.json has it: kills, crashes, restarts behind the pipeline's back, half-done
\* API calls and status requests without an answer included.
THEOREM OkAccounts == Spec => []OkMeansAccountsLive
  <1>1. AccountsInv => OkMeansAccountsLive
    BY DEF AccountsInv
  <1>2. QED
    BY <1>1, AccountsInvariant, PTL

------------------------------------------------------------------------------
(* LiveInv: the keys as well, as long as no process dies while it applies.  *)

\* A return from the pipeline needs the keys of the file to be no newer than
\* those Xray serves.
LEMMA FinishKeys ==
  ASSUME StoreInv, LiveKeysInv, xr \in Serving, NEW p \in Proc, NEW outcome,
         pc[p] \in Written, Finish(p, outcome), UNCHANGED <<keys, file>>,
         live'.keys = live.keys, file.keys <= live.keys
  PROVE  LiveKeysInv'
  BY ConstantsOK DEF StoreInv, TypeOK, OneApplyAtATime, LiveKeysInv, Finish, Forget, Goto,
     Locked, Unwritten, Written, Syncing, Restarting

\* The keys Xray serves stay between those of the file and those of the candidate,
\* as long as no process is killed between its write and its restart.
LEMMA LiveKeysStep ==
  ASSUME StoreInv, HealthInv, LiveKeysInv, [Next]_vars,
         "abort" \notin Faults, "silent" \notin Faults
  PROVE  LiveKeysInv'
  <1> SUFFICES ASSUME xr' \in Serving PROVE LiveKeysInv'
    BY DEF LiveKeysInv
  <1> USE ConstantsOK DEF StoreInv, TypeOK, Goto, Serving, Locked, Unwritten, Written, Syncing,
          Restarting, LiveKeysInv
  <1>1. ASSUME NEW p \in Proc, Operations(p) \/ Bootstrap(p) \/ Snapshot(p) \/ LockTimeout(p)
        PROVE  LiveKeysInv'
    BY <1>1 DEF Operations, SetActive, RegenerateUuid, Resync, BeginOperation, Bootstrap,
       Snapshot, LockTimeout, Forget, xray, data, BeforeLock
  <1>2. ASSUME NEW p \in Proc, Acquire(p) \/ List(p)
        PROVE  LiveKeysInv'
    BY <1>2 DEF Acquire, List, xray, data
  <1>3. ASSUME NEW p \in Proc, Render(p)
        PROVE  LiveKeysInv'
    BY <1>3 DEF Render, xray, data, CandidateInv, Config
  <1>4. ASSUME NEW p \in Proc, Validate(p)
        PROVE  LiveKeysInv'
    BY <1>4 DEF Validate, Accepted, Finish, Forget, xray, data, OneApplyAtATime
  <1>5. ASSUME NEW p \in Proc, Write(p)
        PROVE  LiveKeysInv'
    BY <1>5 DEF Write, xray, data, WriterInv, OneApplyAtATime
  <1>6. ASSUME NEW p \in Proc, Status(p)
        PROVE  LiveKeysInv'
    <2>1. CASE Finish(p, "written") /\ UNCHANGED xr
      <3>1. pc'[p] = "idle" /\ xr \in Running
        BY <2>1 DEF Finish, Forget, Running
      <3>2. QED
        BY <1>6, <3>1 DEF Status, Running, Fault
    <2>2. CASE /\ UNCHANGED <<data, file, xray, lock, cand, prev, cur, tag, mode, outer>>
               /\ pc[p] = "status" /\ \E label \in {"restart", "list"} : Goto(p, label)
      BY <2>2 DEF xray, data
    <2>3. QED
      BY <1>6, <2>1, <2>2 DEF Status, xray
  <1>7. ASSUME NEW p \in Proc, Remove(p)
        PROVE  LiveKeysInv'
    BY <1>7, RemoveEffect DEF data
  <1>8. ASSUME NEW p \in Proc, Add(p)
        PROVE  LiveKeysInv'
    <2>1. /\ pc[p] = "add" /\ UNCHANGED <<keys, file, xr>> /\ live'.keys = live.keys
      BY <1>8, AddEffect DEF data
    <2>2. CASE Finish(p, "ok")
      <3>1. file = cand[p] /\ prev[p].keys = cand[p].keys /\ prev[p] # NoConfig
        BY <2>1 DEF WriterInv, KeyOrderInv, BootInv
      <3>2. file.keys <= live.keys
        BY <2>1, <3>1
      <3>3. QED
        BY <2>1, <2>2, <3>2, FinishKeys
    <2>3. CASE \E label \in {"restart", "list"} : Goto(p, label) /\ UNCHANGED <<cand, prev, mode>>
      BY <2>1, <2>3
    <2>4. QED
      BY <1>8, <2>2, <2>3, AddEffect DEF NextTag
  <1>9. ASSUME NEW p \in Proc, RestartXray(p)
        PROVE  LiveKeysInv'
    <2>1. /\ pc[p] = "restart" /\ UNCHANGED <<keys, file, xray>> /\ RestartFailed(p)
      BY <1>9 DEF RestartXray, data
    <2>2. CASE mode[p] # "rollback" /\ prev[p] # NoConfig
      BY <2>1, <2>2 DEF RestartFailed, xray
    <2>3. CASE mode[p] = "rollback"
      <3>1. file = prev[p] /\ prev[p] # NoConfig
        BY <2>1, <2>3 DEF WriterInv
      <3>2. file.keys <= live.keys
        BY <2>1, <3>1 DEF xray
      <3>3. QED
        BY <2>1, <2>3, <3>2, FinishKeys DEF RestartFailed, xray
    <2>4. QED
      BY <2>1, <2>2, <2>3 DEF BootInv
  <1>10. ASSUME NEW p \in Proc, Health(p)
        PROVE  LiveKeysInv'
    <2>1. pc[p] = "health" /\ UNCHANGED <<keys, file, xray>> /\ prev[p] # NoConfig
      BY <1>10 DEF Health, data, BootInv
    <2>2. CASE Goto(p, "rollback") /\ UNCHANGED <<cand, prev, mode>>
      BY <2>1, <2>2 DEF xray
    <2>3. ASSUME NEW outcome, Finish(p, outcome) PROVE LiveKeysInv'
      <3>1. file.keys <= live.keys
        BY <2>1 DEF HealthInv, LiveMatchesFile, xray
      <3>2. QED
        BY <2>1, <2>3, <3>1, FinishKeys DEF xray
    <2>4. QED
      BY <1>10, <2>2, <2>3 DEF Health, RestartFailed
  <1>11. ASSUME NEW p \in Proc, Rollback(p)
        PROVE  LiveKeysInv'
    BY <1>11 DEF Rollback, xray, data, WriterInv, OneApplyAtATime
  <1>12. ASSUME NEW p \in Proc, Abort(p)
        PROVE  LiveKeysInv'
    BY <1>12 DEF Abort, Fault
  <1>13. CASE XrayLoad
    <2>1. live'.keys = file.keys /\ file # NoConfig /\ UNCHANGED <<keys, file, job>>
      BY <1>13, NoConfigIsNoConfig DEF XrayLoad, ValidConfig, data
    <2>2. QED
      <3>1. file.keys <= keys /\ live'.keys <= keys' /\ file.keys \in Nat
        BY <2>1, <1>13 DEF KeyOrderInv, XrayLoad, ValidConfig, Config
      <3>2. ASSUME NEW p \in Proc, pc[p] \in {"validate", "write"} \union Written,
                   mode[p] # "rollback"
            PROVE  file.keys <= cand[p].keys
        BY <2>1, <3>1, <3>2 DEF KeyOrderInv, WriterInv
      <3>3. ASSUME NEW p \in Proc, pc[p] \in Written, prev[p] # NoConfig
            PROVE  prev[p].keys <= file.keys
        BY <2>1, <3>1, <3>3 DEF KeyOrderInv, WriterInv
      <3>4. QED
        BY <2>1, <3>1, <3>2, <3>3 DEF job
  <1>14. CASE RotateKeys \/ XrayListen \/ UNCHANGED vars
    BY <1>14 DEF RotateKeys, XrayListen, vars, job, data, xray, outer
  <1>15. CASE XrayCrash \/ SupervisorStart \/ ToolRestart \/ Redeploy
    BY <1>15 DEF XrayCrash, SupervisorStart, ToolRestart, Redeploy
  <1>16. QED
    BY <1>1, <1>2, <1>3, <1>4, <1>5, <1>6, <1>7, <1>8, <1>9, <1>10, <1>11, <1>12, <1>13,
       <1>14, <1>15 DEF Next, Pipeline, Environment

\* The keys Xray serves at the end of an account sync: the candidate has those of
\* the configuration it replaced, and Xray's lie between the two.
LEMMA SyncKeys ==
  ASSUME StoreInv, LiveKeysInv, xr \in Serving, NEW p \in Proc, pc[p] \in Syncing
  PROVE  live.keys = cand[p].keys
  <1>1. /\ mode[p] # "rollback" /\ prev[p] # NoConfig
        /\ prev[p].keys = cand[p].keys
    BY DEF StoreInv, WriterInv, BootInv, KeyOrderInv, Syncing, Restarting, Written
  <1>2. live.keys <= cand[p].keys /\ prev[p].keys <= live.keys
    BY <1>1 DEF LiveKeysInv, Written
  <1>3. cand[p] \in Config /\ live.keys \in Nat
    BY <1>1, ConstantsOK DEF StoreInv, TypeOK, CandidateInv, Locked, Written
  <1>4. QED
    BY <1>1, <1>2, <1>3, ConstantsOK DEF Config

\* LiveInv is inductive under the two assumptions.
LEMMA LiveStep ==
  ASSUME LiveInv, [Next]_vars, "abort" \notin Faults, "silent" \notin Faults
  PROVE  LiveInv'
  <1> USE DEF LiveInv
  <1>1. AccountsInv' /\ LiveKeysInv'
    BY AccountsStep, LiveKeysStep DEF AccountsInv
  <1>2. OkMeansLive'
    <2> USE DEF AccountsInv
    <2> SUFFICES ASSUME lock' = NoProc, report' \in Success, xr' \in Serving
                 PROVE  LiveMatchesFile'
      BY DEF OkMeansLive
    <2>1. CASE lock = NoProc /\ xr \in Serving /\ UNCHANGED <<live, file, report>>
      BY <2>1 DEF OkMeansLive, LiveMatchesFile, LiveAccountsMatchFile
    <2>2. ASSUME NEW p \in Proc, Add(p), pc'[p] = "idle", xr \in Serving
          PROVE  LiveMatchesFile'
      <3>1. pc[p] \in Syncing
        BY <2>2 DEF Add, Syncing
      <3>2. QED
        BY <2>2, <3>1, SyncEnds, SyncKeys DEF LiveMatchesFile, LiveAccountsMatchFile
    <2>3. QED
      BY <2>1, <2>2, OkStep
  <1>3. QED
    BY <1>1, <1>2

\* The inductive invariant of the keys and accounts Xray serves: on top of the store,
\* where a sync stands, and between which key generations Xray is.
THEOREM LiveInvariant == {"abort", "silent"} \cap Faults = {} => (Spec => []LiveInv)
  <1> SUFFICES ASSUME "abort" \notin Faults, "silent" \notin Faults
               PROVE  Spec => []LiveInv
    OBVIOUS
  <1>1. Init => LiveInv
    BY StoreInit DEF LiveInv, AccountsInv, Init, SyncInv, HealthInv, QuietSyncInv,
       OkMeansAccountsLive, LiveKeysInv, OkMeansLive, Serving
  <1>2. LiveInv /\ [Next]_vars => LiveInv'
    BY LiveStep
  <1>3. QED
    BY <1>1, <1>2, PTL DEF Spec

\* Whatever else goes wrong, an apply that says ok leaves Xray serving exactly what
\* config.json says, provided status requests are answered and no process is
\* killed while it applies; ApplyAbortedChange shows that the last condition is
\* needed.
THEOREM OkLive == {"abort", "silent"} \cap Faults = {} => (Spec => []OkMeansLive)
  <1>1. LiveInv => OkMeansLive
    BY DEF LiveInv
  <1>2. QED
    BY <1>1, LiveInvariant, PTL

------------------------------------------------------------------------------
(* The pipeline implements ConfigStore.                                     *)

\* What the abstract store is told of the last apply.
Told == IF report = "written" THEN "ok" ELSE report

\* Steps that keep the writer, its candidate and what it replaces.
LEMMA SameProposal ==
  ASSUME UNCHANGED report, UNCHANGED lock, lock = NoProc \/ lock \in Proc,
         lock # NoProc => /\ pc[lock] \in Written <=> pc'[lock] \in Written
                          /\ pc[lock] \in Written => UNCHANGED <<cand[lock], prev[lock]>>,
         ~Writing => UNCHANGED file
  PROVE  UNCHANGED <<Committed, Pending, Told>>
  BY DEF Committed, Pending, Writing, Told

\* A process that has written its candidate is the one that holds the lock.
LEMMA WriterHoldsLock ==
  ASSUME StoreInv, NEW p \in Proc, pc[p] \in Written
  PROVE  /\ lock = p /\ Writing /\ Committed = prev[p] /\ Pending = cand[p]
         /\ cand[p] \in ValidConfig /\ cand[p] # NoConfig
         /\ file = IF mode[p] = "rollback" THEN prev[p] ELSE cand[p]
  BY ConstantsOK, NoConfigIsNoConfig DEF StoreInv, OneApplyAtATime, Writing, Committed, Pending,
     CandidateInv, WriterInv, Locked, ValidConfig

\* Returning from the pipeline accepts or rejects the proposal.
LEMMA FinishDecides ==
  ASSUME StoreInv, NEW p \in Proc, pc[p] \in Written, UNCHANGED file,
         \/ \E outcome \in Success : Finish(p, outcome) /\ mode[p] # "rollback"
         \/ Finish(p, "failed") /\ mode[p] = "rollback"
  PROVE  Store!StoreNext
  <1>1. Committed' = file /\ Pending' = NoConfig
    BY DEF Finish, Committed, Pending, Writing
  <1>2. Store!Accept \/ Store!Reject
    BY <1>1, WriterHoldsLock DEF Finish, Success, Store!Accept, Store!Reject
  <1>3. QED
    BY <1>2 DEF Store!StoreNext

\* The simulation: every step is a step of the abstract store or leaves it alone.
LEMMA StoreSimulation ==
  ASSUME StoreInv, [Next]_vars
  PROVE  [Store!StoreNext]_<<Committed, Pending, Told>>
  <1> DEFINE Goal == Store!StoreNext \/ UNCHANGED <<Committed, Pending, Told>>
  <1> SUFFICES Goal
    OBVIOUS
  <1> USE ConstantsOK DEF Goto
  <1> HIDE DEF Goal
  <1>0. /\ TypeOK /\ OneApplyAtATime /\ (lock = NoProc \/ lock \in Proc)
        /\ pc \in [Proc -> BeforeLock \union Locked]
    BY DEF StoreInv, TypeOK
  <1>1. ASSUME NEW p \in Proc, Operations(p) \/ Bootstrap(p) \/ Snapshot(p) \/ LockTimeout(p)
        PROVE  Goal
    <2>1. lock # p
      <3>1. pc[p] \in BeforeLock
        BY <1>1 DEF Operations, SetActive, RegenerateUuid, Resync, BeginOperation, Bootstrap,
           Snapshot, LockTimeout, BeforeLock
      <3>2. QED
        BY <1>0, <3>1 DEF OneApplyAtATime, BeforeLock, Locked, Unwritten, Written, Syncing,
           Restarting
    <2>2. UNCHANGED <<report, lock, file>>
      BY <1>1 DEF Operations, SetActive, RegenerateUuid, Resync, BeginOperation, Bootstrap,
         Snapshot, LockTimeout, outer
    <2>3. ASSUME NEW q \in Proc, q # p
          PROVE  UNCHANGED <<pc[q], cand[q], prev[q]>>
      BY <1>0, <1>1, <2>3 DEF TypeOK, Operations, SetActive, RegenerateUuid, Resync,
         BeginOperation, Bootstrap, Snapshot, LockTimeout, Forget
    <2>4. QED
      BY <1>0, <2>1, <2>2, <2>3, SameProposal DEF Goal
  <1>2. ASSUME NEW p \in Proc, Acquire(p)
        PROVE  Goal
    BY <1>0, <1>2 DEF Told, Acquire, Goal, Committed, Pending, Writing, outer, Written, Syncing,
       Restarting
  <1>3. ASSUME NEW p \in Proc, Render(p) \/ List(p) \/ Rollback(p)
        PROVE  Goal
    <2>1. /\ UNCHANGED <<report, lock>> /\ lock = p
          /\ pc[p] \in Written <=> pc'[p] \in Written
          /\ pc[p] \in Written => UNCHANGED <<cand[p], prev[p]>>
          /\ pc[p] \notin Written => UNCHANGED file
      BY <1>0, <1>3 DEF Render, List, Rollback, outer, OneApplyAtATime, Locked, Unwritten,
         Written, Syncing, Restarting
    <2>2. QED
      BY <1>0, <2>1, SameProposal DEF Goal, Writing
  <1>4. ASSUME NEW p \in Proc, Validate(p)
        PROVE  Goal
    <2>1. lock = p /\ lock # NoProc /\ pc[p] = "validate" /\ UNCHANGED file
      BY <1>0, <1>4 DEF Validate, Accepted, OneApplyAtATime, Locked, Unwritten
    <2>2. CASE Finish(p, "failed")
      <3>1. Store!Refuse
        BY <2>1, <2>2 DEF Finish, Store!Refuse, Committed, Pending, Writing, Written,
           Syncing, Restarting
      <3>2. QED
        BY <3>1 DEF Goal, Store!StoreNext
    <2>3. CASE Goto(p, "write") /\ UNCHANGED <<lock, outer>>
      BY <1>0, <2>1, <2>3, SameProposal DEF Goal, Writing, Written, Syncing, Restarting, outer
    <2>4. QED
      BY <1>4, <2>2, <2>3 DEF Validate, Accepted
  <1>5. ASSUME NEW p \in Proc, Write(p)
        PROVE  Goal
    <2>1. /\ lock = p /\ lock # NoProc /\ pc[p] = "write" /\ pc'[p] = "status"
          /\ UNCHANGED <<lock, cand, prev, report>>
          /\ file = prev[p] /\ cand[p] \in ValidConfig
      BY <1>0, <1>5 DEF Write, OneApplyAtATime, Locked, Unwritten, outer, StoreInv, WriterInv,
         CandidateInv
    <2>2. Store!Propose(cand[p])
      BY <2>1 DEF Store!Propose, Committed, Pending, Writing, Written, Syncing, Restarting
    <2>3. QED
      BY <2>1, <2>2 DEF Goal, Store!StoreNext
  <1>6. ASSUME NEW p \in Proc, Status(p)
        PROVE  Goal
    <2>1. pc[p] \in Written /\ UNCHANGED file /\ mode[p] # "rollback"
      BY <1>6 DEF Status, Written, StoreInv, WriterInv
    <2>2. CASE Finish(p, "written")
      BY <2>1, <2>2, FinishDecides DEF Goal, Success
    <2>3. CASE /\ UNCHANGED <<lock, cand, prev, outer>>
               /\ \E label \in {"restart", "list"} : Goto(p, label)
      <3>1. pc'[p] \in Written
        BY <1>0, <2>3 DEF Written, Syncing, Restarting
      <3>2. QED
        BY <1>0, <2>1, <2>3, <3>1, WriterHoldsLock, SameProposal DEF Goal, outer
    <2>4. QED
      BY <1>6, <2>2, <2>3 DEF Status
  <1>7. ASSUME NEW p \in Proc, Remove(p)
        PROVE  Goal
    <2>1. /\ pc[p] \in Written /\ pc'[p] \in Written
          /\ UNCHANGED <<lock, file, cand, prev, report>>
      BY <1>0, <1>7, RemoveEffect DEF Written, Syncing, Restarting, outer
    <2>2. QED
      BY <1>0, <2>1, WriterHoldsLock, SameProposal DEF Goal
  <1>8. ASSUME NEW p \in Proc, Add(p)
        PROVE  Goal
    <2>1. /\ pc[p] \in Written /\ UNCHANGED file /\ mode[p] # "rollback"
          /\ \/ Finish(p, "ok")
             \/ /\ UNCHANGED <<lock, cand, prev, outer>>
                /\ \E label \in {"restart", "list"} : Goto(p, label)
      BY <1>8, AddEffect DEF Written, Syncing, StoreInv, WriterInv, NextTag
    <2>2. CASE Finish(p, "ok")
      BY <2>1, <2>2, FinishDecides DEF Goal, Success
    <2>3. CASE /\ UNCHANGED <<lock, cand, prev, outer>>
               /\ \E label \in {"restart", "list"} : Goto(p, label)
      <3>1. pc'[p] \in Written
        BY <1>0, <2>3 DEF Written, Syncing, Restarting
      <3>2. QED
        BY <1>0, <2>1, <2>3, <3>1, WriterHoldsLock, SameProposal DEF Goal, outer
    <2>4. QED
      BY <2>1, <2>2, <2>3
  <1>9. ASSUME NEW p \in Proc, RestartXray(p) \/ Health(p)
        PROVE  Goal
    <2>1. /\ pc[p] \in Written /\ UNCHANGED file /\ prev[p] # NoConfig
      BY <1>9 DEF RestartXray, Health, Written, Restarting, StoreInv, BootInv
    <2>2. CASE \/ Finish(p, "ok") /\ mode[p] # "rollback"
               \/ Finish(p, "failed") /\ mode[p] = "rollback"
      BY <2>1, <2>2, FinishDecides DEF Goal, Success
    <2>3. CASE /\ UNCHANGED <<lock, cand, prev, outer>>
               /\ \E label \in {"health", "rollback"} : Goto(p, label)
      <3>1. pc'[p] \in Written
        BY <1>0, <2>3 DEF Written, Syncing, Restarting
      <3>2. QED
        BY <1>0, <2>1, <2>3, <3>1, WriterHoldsLock, SameProposal DEF Goal, outer
    <2>4. QED
      BY <1>9, <2>1, <2>2, <2>3 DEF RestartXray, Health, RestartFailed
  <1>10. ASSUME NEW p \in Proc, Abort(p)
        PROVE  Goal
    <2>1. CASE lock = p
      <3>1. Committed' = file /\ Pending' = NoConfig /\ report' = "interrupted"
        BY <1>10, <2>1 DEF Abort, Committed, Pending, Writing
      <3>2. file \in {Committed} \union ({Pending} \ {NoConfig})
        <4>1. CASE pc[p] \in Written
          BY <4>1, WriterHoldsLock
        <4>2. CASE pc[p] \notin Written
          BY <2>1, <4>2 DEF Committed, Writing
        <4>3. QED
          BY <4>1, <4>2
      <3>3. Store!Interrupt
        BY <3>1, <3>2 DEF Store!Interrupt
      <3>4. QED
        BY <3>3 DEF Goal, Store!StoreNext
    <2>2. CASE lock # p
      <3>1. /\ UNCHANGED <<report, lock, file>>
            /\ \A q \in Proc : q # p => UNCHANGED <<pc[q], cand[q], prev[q]>>
        BY <1>0, <1>10, <2>2 DEF Abort, Forget, TypeOK
      <3>2. QED
        BY <1>0, <2>2, <3>1, SameProposal DEF Goal
    <2>3. QED
      BY <2>1, <2>2
  <1>11. CASE RotateKeys \/ XrayLoad \/ XrayListen \/ XrayCrash \/ SupervisorStart
              \/ ToolRestart \/ UNCHANGED vars
    <2>1. UNCHANGED <<lock, file, pc, cand, prev, report>>
      BY <1>11 DEF RotateKeys, XrayLoad, XrayListen, XrayCrash, SupervisorStart, ToolRestart,
         vars, job, outer
    <2>2. QED
      BY <2>1 DEF Told, Goal, Committed, Pending, Writing
  <1>12. CASE Redeploy
    <2>1. Committed' = file /\ Pending' = NoConfig /\ report' = "none"
      BY <1>12 DEF Redeploy, Committed, Pending, Writing
    <2>2. file \in {Committed} \union ({Pending} \ {NoConfig})
      <3>1. CASE Writing
        BY <1>0, <3>1, WriterHoldsLock DEF Writing
      <3>2. CASE ~Writing
        BY <3>2 DEF Committed
      <3>3. QED
        BY <3>1, <3>2
    <2>3. QED
      BY <2>1, <2>2 DEF Goal, Store!StoreNext, Store!Interrupt
  <1>13. QED
    BY <1>1, <1>2, <1>3, <1>4, <1>5, <1>6, <1>7, <1>8, <1>9, <1>10, <1>11, <1>12
       DEF Next, Pipeline, Environment

\* Every behaviour of the pipeline is one of the configuration store: failed applies
\* leave the configuration in force, ok ones replace it, one at a time.
THEOREM Refinement == Spec => ImplementsStore
  <1>1. Init => Store!StoreInit
    BY DEF Init, Told, Store!StoreInit, Committed, Pending, Writing
  <1>2. StoreInv /\ [Next]_vars => [Store!StoreNext]_<<Committed, Pending, Told>>
    BY StoreSimulation
  <1>3. QED
    BY <1>1, <1>2, StoreInvariant, PTL
       DEF Spec, ImplementsStore, Store!StoreSpec, Store!storeVars, Told
------------------------------------------------------------------------------
(* FileMatchesDatabase, where it holds *)

\* Operations one at a time: each begins when all others have ended.
NoOverlap(p) == pc[p] = "idle" /\ pc'[p] # "idle" => \A q \in Proc \ {p} : pc[q] = "idle"
OneAtATime == [][\A p \in Proc : NoOverlap(p)]_vars

\* Who is under way is alone, and has what the database says since it looked.
SerialInv ==
  /\ \A p, q \in Proc : p # q => pc[p] = "idle" \/ pc[q] = "idle"
  /\ \A p \in Proc : pc[p] \in {"acquire"} \union Locked => cand[p].users = ActiveUsers
  /\ FileMatchesDatabase

\* An apply that ends says ok only if the file is its candidate.
LEMMA OkIsCandidate ==
  ASSUME StoreInv, "abort" \notin Faults, [Next]_vars, NEW p \in Proc, pc[p] # "idle", pc'[p] = "idle",
         report' \in Success, \A q \in Proc \ {p} : pc[q] = "idle"
  PROVE  file' = cand[p] /\ db' = db /\ pc[p] \in Locked
  <1> USE DEF Success, StoreInv, TypeOK, Goto, data
  <1>1. ASSUME NEW q \in Proc, Operations(q) \/ Bootstrap(q)
        PROVE  FALSE
    BY <1>1 DEF Operations, SetActive, RegenerateUuid, Resync, BeginOperation, Bootstrap
  <1>2. ASSUME NEW q \in Proc, Pipeline(q)
        PROVE  q = p
    BY <1>2 DEF Pipeline, Snapshot, LockTimeout, Acquire, Render, Validate, Write, Status, List,
       Remove, Add, RestartXray, Health, Rollback
  <1>3. CASE LockTimeout(p)
    <2>1. lock \in Proc /\ lock # p /\ pc[lock] \in Locked
      BY <1>3 DEF LockTimeout, OneApplyAtATime, Locked, Unwritten, Written, Syncing, Restarting
    <2> QED
      BY <2>1 DEF Locked, Unwritten, Written, Syncing, Restarting
  <1>4. CASE Snapshot(p) \/ Acquire(p) \/ Render(p) \/ Write(p) \/ List(p) \/ Rollback(p)
    BY <1>4 DEF Snapshot, Acquire, Render, Write, List, Rollback
  <1>5. CASE Validate(p) \/ RestartXray(p)
    BY <1>5 DEF Validate, RestartXray, RestartFailed, Finish
  <1>6. CASE Status(p)
    <2>1. pc[p] = "status" /\ mode[p] # "rollback" /\ UNCHANGED <<db, file>>
      BY <1>6 DEF Status, WriterInv
    <2> QED
      BY <2>1 DEF WriterInv, Written, Locked
  <1>7. CASE Remove(p)
    BY <1>7, RemoveEffect
  <1>8. CASE Add(p)
    <2>1. pc[p] = "add" /\ mode[p] # "rollback" /\ UNCHANGED <<db, file>>
      BY <1>8 DEF Add, WriterInv
    <2> QED
      BY <2>1 DEF WriterInv, Written, Syncing, Locked
  <1>9. CASE Health(p)
    <2>1. pc[p] = "health" /\ mode[p] # "rollback" /\ UNCHANGED <<db, file>>
      BY <1>9 DEF Health, RestartFailed, Finish
    <2> QED
      BY <2>1 DEF WriterInv, Written, Restarting, Locked
  <1>10. CASE (\E q \in Proc : Abort(q)) \/ Redeploy
    BY <1>10 DEF Abort, Fault, Redeploy
  <1>11. CASE RotateKeys \/ XrayLoad \/ XrayListen \/ SupervisorStart \/ XrayCrash \/ ToolRestart
              \/ UNCHANGED vars
    BY <1>11 DEF RotateKeys, XrayLoad, XrayListen, SupervisorStart, XrayCrash, ToolRestart, vars, job
  <1> QED
    BY <1>1, <1>2, <1>3, <1>4, <1>5, <1>6, <1>7, <1>8, <1>9, <1>10, <1>11
       DEF Next, Pipeline, Environment

\* What a step of the pipeline does to the process's place and candidate.
LEMMA PipelineFrame ==
  ASSUME StoreInv, NEW p \in Proc, Pipeline(p)
  PROVE  /\ db' = db
         /\ \A q \in Proc \ {p} : pc'[q] = pc[q] /\ cand'[q] = cand[q]
         /\ \/ pc'[p] = "idle"
            \/ pc[p] = "snapshot" /\ cand'[p].users = ActiveUsers
            \/ pc[p] \in {"acquire"} \union Locked /\ cand'[p].users = cand[p].users
  <1> USE DEF StoreInv, TypeOK, Goto, data
  <1>1. CASE Snapshot(p)
    BY <1>1 DEF Snapshot
  <1>2. CASE Acquire(p) \/ LockTimeout(p)
    BY <1>2 DEF Acquire, LockTimeout, Forget
  <1>3. CASE Render(p)
    <2>1. cand[p] \in Config
      BY <1>3 DEF Render, CandidateInv, Locked, Unwritten
    <2>2. cand' = [cand EXCEPT ![p].keys = keys] /\ pc[p] = "render"
      BY <1>3 DEF Render
    <2>3. cand'[p].users = cand[p].users
      BY <2>1, <2>2 DEF Config
    <2> QED
      BY <1>3, <2>2, <2>3 DEF Render, Locked, Unwritten
  <1>4. CASE Validate(p) \/ Write(p) \/ Status(p)
    BY <1>4 DEF Validate, Accepted, Write, Status, Finish, Forget, Locked, Unwritten, Written
  <1>5. CASE List(p)
    BY <1>5 DEF List, Locked, Written, Syncing
  <1>6. CASE Remove(p)
    BY <1>6, RemoveEffect DEF Locked, Written, Syncing
  <1>7. CASE Add(p)
    BY <1>7 DEF Add, NextTag, Finish, Forget, Locked, Written, Syncing
  <1>8. CASE RestartXray(p) \/ Health(p) \/ Rollback(p)
    BY <1>8 DEF RestartXray, Health, Rollback, RestartFailed, Finish, Forget, Locked, Written,
       Restarting
  <1> QED
    BY <1>1, <1>2, <1>3, <1>4, <1>5, <1>6, <1>7, <1>8 DEF Pipeline

LEMMA SerialStep ==
  ASSUME StoreInv, SerialInv, "abort" \notin Faults, [Next]_vars, [\A p \in Proc : NoOverlap(p)]_vars
  PROVE  SerialInv'
  <1> USE DEF SerialInv
  <1>1. ASSUME NEW p \in Proc, Operations(p) \/ Bootstrap(p)
        PROVE  SerialInv'
    <2>1. pc[p] = "idle" /\ pc' = [pc EXCEPT ![p] = "snapshot"]
      BY <1>1 DEF Operations, SetActive, RegenerateUuid, Resync, BeginOperation, Bootstrap, Goto
    <2>2. pc'[p] = "snapshot" /\ \A q \in Proc \ {p} : pc'[q] = pc[q]
      BY <2>1 DEF StoreInv, TypeOK
    <2>3. \A q \in Proc \ {p} : pc[q] = "idle"
      BY <2>1, <2>2 DEF NoOverlap, vars, job
    <2> QED
      BY <2>2, <2>3 DEF FileMatchesDatabase, Locked, Unwritten, Written, Syncing, Restarting
  <1>2. ASSUME NEW p \in Proc, Pipeline(p)
        PROVE  SerialInv'
    <2>1. pc[p] # "idle"
      BY <1>2 DEF Pipeline, Snapshot, LockTimeout, Acquire, Render, Validate, Write, Status, List,
         Remove, Add, RestartXray, Health, Rollback
    <2>2. \A q \in Proc \ {p} : pc[q] = "idle" /\ pc'[q] = "idle"
      BY <1>2, <2>1, PipelineFrame
    <2>3. ActiveUsers' = ActiveUsers
      BY <1>2, PipelineFrame DEF ActiveUsers
    <2>4. \A q \in Proc : pc'[q] \in {"acquire"} \union Locked => cand'[q].users = ActiveUsers'
      BY <1>2, <2>2, <2>3, PipelineFrame DEF Locked, Unwritten, Written, Syncing, Restarting
    <2>5. FileMatchesDatabase'
      <3> SUFFICES ASSUME report' \in Success, pc'[p] = "idle"
                   PROVE  file'.users = ActiveUsers'
        BY DEF Success, FileMatchesDatabase
      <3>1. file' = cand[p] /\ pc[p] \in Locked
        BY <2>1, <2>2, OkIsCandidate
      <3> QED
        BY <2>3, <3>1
    <2> QED
      BY <2>2, <2>4, <2>5
  <1>3. CASE RotateKeys \/ XrayLoad \/ XrayListen \/ SupervisorStart \/ XrayCrash \/ ToolRestart
             \/ UNCHANGED vars
    <2>1. UNCHANGED <<db, file, pc, cand, report>>
      BY <1>3 DEF RotateKeys, XrayLoad, XrayListen, SupervisorStart, XrayCrash, ToolRestart,
         vars, job, data, outer
    <2> QED
      BY <2>1 DEF FileMatchesDatabase, ActiveUsers
  <1>4. CASE \E p \in Proc : Abort(p)
    BY <1>4 DEF Abort, Fault
  <1>5. CASE Redeploy
    <2>1. report' = "none" /\ \A p \in Proc : pc'[p] = "idle"
      BY <1>5 DEF Redeploy
    <2> QED
      BY <2>1 DEF Success, FileMatchesDatabase, Locked, Unwritten, Written, Syncing, Restarting
  <1> QED
    BY <1>1, <1>2, <1>3, <1>4, <1>5 DEF Next, Environment

\* "the panel and the CLI can never disagree": as long as operations do not overlap and
\* none is killed, an apply that says ok leaves the file with the accounts the database
\* says are active, whatever else goes wrong. ApplyStaleSnapshot shows that it fails when
\* they overlap.
THEOREM SerialMatches ==
  "abort" \notin Faults => (Spec /\ OneAtATime => []FileMatchesDatabase)
  <1> SUFFICES ASSUME "abort" \notin Faults PROVE Spec /\ OneAtATime => []FileMatchesDatabase
    OBVIOUS
  <1>1. Init => SerialInv
    BY DEF Success, Init, SerialInv, FileMatchesDatabase, Locked, Unwritten, Written, Syncing, Restarting
  <1>2. StoreInv /\ SerialInv /\ [Next]_vars /\ [\A p \in Proc : NoOverlap(p)]_vars => SerialInv'
    BY SerialStep
  <1>3. SerialInv => FileMatchesDatabase
    BY DEF SerialInv
  <1> QED
    BY <1>1, <1>2, <1>3, StoreInvariant, PTL DEF Spec, OneAtATime
==============================================================================
