---------------------------- MODULE VolumeProofs ----------------------------
(***************************************************************************)
(* Proofs about /data, for any number of processes, changes, generations   *)
(* of keys and faults: the key files always belong together, nobody but    *)
(* the operator replaces issued keys, the last change can be restored, and *)
(* a redeploy keeps the volume unless it cuts a restore or rotation short. *)
(***************************************************************************)
EXTENDS Volume, TLAPS

------------------------------------------------------------------------------
(* Types *)

\* The types of what a process remembers.
LocalTypes ==
  /\ at \in [Proc -> KeyFile]
  /\ found \in [Proc -> BOOLEAN]
  /\ gen \in [Proc -> 0..MaxGen]
  /\ copy \in [Proc -> Archive]
  /\ from \in [Proc -> Archive \union {NoArchive}]

ControlTypes ==
  /\ pc \in [Proc -> Label]
  /\ cmd \in [Proc -> Command \union {"none"}]

LEMMA EmptyCopy == NoCopy \in Archive /\ NoKeys \in Keys
<1>1. 0 \in 0..MaxChange /\ 0 \in 0..MaxGen
  BY ConstantsOK
<1> QED
  BY <1>1 DEF NoCopy, NoKeys, Archive, Keys, NoFile

LEMMA ForgetTypes ==
  ASSUME LocalTypes, NEW p \in Proc, Forget(p)
  PROVE  LocalTypes'
<1>1. 1 \in KeyFile /\ 0 \in 0..MaxGen
  BY ConstantsOK DEF KeyFile
<1> QED
  BY <1>1, EmptyCopy DEF LocalTypes, Forget

LEMMA EndTypes ==
  ASSUME LocalTypes, ControlTypes, NEW p \in Proc, End(p)
  PROVE  LocalTypes' /\ ControlTypes'
<1>1. LocalTypes'
  BY ForgetTypes DEF End
<1>2. ControlTypes'
  BY DEF End, Goto, ControlTypes, Label
<1> QED
  BY <1>1, <1>2

LEMMA GotoTypes ==
  ASSUME ControlTypes, NEW p \in Proc, NEW l \in Label, Goto(p, l)
  PROVE  pc' \in [Proc -> Label]
BY DEF Goto, ControlTypes

LEMMA FirstStepLabel == \A c \in Command : FirstStep(c) \in Label
BY DEF FirstStep, Command, Label

\* Every step keeps the types of the two.
LEMMA ProcessTypes ==
  ASSUME TypeOK, Places, [Next]_vars
  PROVE  LocalTypes' /\ ControlTypes'
<1>1. LocalTypes /\ ControlTypes
  BY DEF TypeOK, LocalTypes, ControlTypes
<1>2. \A p \in Proc : at[p] \in KeyFile /\ at[p] \in 1..3
  BY <1>1 DEF LocalTypes, KeyFile
<1>3. \A p \in Proc : at[p] < 3 => at[p] + 1 \in KeyFile
  BY <1>2 DEF KeyFile
<1>4. ASSUME NEW p \in Proc, NEW c \in Command, Begin(p, c)
      PROVE  LocalTypes' /\ ControlTypes'
  <2>1. LocalTypes'
    <3>1. at' \in [Proc -> KeyFile] /\ found' \in [Proc -> BOOLEAN] /\ copy' \in [Proc -> Archive]
      BY <1>1, <1>4 DEF LocalTypes, Begin
    <3>2. from' \in [Proc -> Archive \union {NoArchive}]
      BY <1>1, <1>4 DEF LocalTypes, Begin, TypeOK
    <3>3. gen' \in [Proc -> 0..MaxGen]
      <4>1. nextGen <= MaxGen => nextGen \in 0..MaxGen
        BY ConstantsOK DEF TypeOK
      <4> QED
        BY <1>1, <1>4, <4>1 DEF LocalTypes, Begin
    <3> QED
      BY <3>1, <3>2, <3>3 DEF LocalTypes
  <2>2. cmd' \in [Proc -> Command \union {"none"}]
    BY <1>1, <1>4 DEF ControlTypes, Begin
  <2>3. pc' \in [Proc -> Label]
    <3>1. "schema" \in Label /\ FirstStep(c) \in Label
      BY FirstStepLabel DEF Label
    <3> QED
      BY <1>1, <1>4, <3>1 DEF ControlTypes, Begin, Goto
  <2> QED
    BY <2>1, <2>2, <2>3 DEF ControlTypes
<1>5. ASSUME NEW p \in Proc, Schema(p) \/ Migrate(p) \/ Change(p) \/ ReadUsers(p) \/ Lock(p)
      PROVE  LocalTypes' /\ ControlTypes'
  <2>1. CASE End(p)
    BY <1>1, <2>1, EndTypes
  <2>2. CASE ~End(p)
    <3>1. UNCHANGED <<cmd, local>>
      BY <1>5, <2>2 DEF Schema, Migrate, Change, ReadUsers, Lock
    <3>2. pc[p] \in {"schema", "migrate"} => cmd[p] \in Command
      BY <1>1 DEF Places, Fits, ControlTypes
    <3>3. pc' \in [Proc -> Label]
      <4>1. pc[p] \in {"schema", "migrate"} => FirstStep(cmd[p]) \in Label
        BY <3>2, FirstStepLabel
      <4> QED
        BY <1>1, <1>5, <2>2, <4>1 DEF Schema, Migrate, Change, ReadUsers, Lock, Goto, ControlTypes, Label
    <3> QED
      BY <1>1, <3>1, <3>3 DEF LocalTypes, ControlTypes, local
  <2> QED
    BY <2>1, <2>2
<1>6. ASSUME NEW p \in Proc, Ensured(p)
      PROVE  LocalTypes' /\ ControlTypes'
  <2>1. CASE cmd[p] = "boot"
    BY <1>1, <1>6, <2>1, ForgetTypes DEF Ensured, Goto, ControlTypes, Label, Command
  <2>2. CASE cmd[p] # "boot"
    BY <1>1, <1>6, <2>2, EndTypes DEF Ensured
  <2> QED
    BY <2>1, <2>2
<1>7. ASSUME NEW p \in Proc, Look(p)
      PROVE  LocalTypes' /\ ControlTypes'
  <2>1. CASE at[p] < 3
    <3>1. AllFound(p) \in BOOLEAN
      BY <1>1 DEF AllFound, LocalTypes
    <3>2. found' \in [Proc -> BOOLEAN]
      BY <1>1, <1>7, <2>1, <3>1 DEF Look, LocalTypes
    <3> QED
      BY <1>1, <1>3, <1>7, <2>1, <3>2 DEF Look, LocalTypes, ControlTypes
  <2>2. CASE at[p] = 3 /\ AllFound(p)
    BY <1>6, <1>7, <2>2 DEF Look
  <2>3. CASE at[p] = 3 /\ ~AllFound(p)
    <3>1. nextGen \in 0..MaxGen /\ 1 \in KeyFile
      BY <1>7, <2>3, ConstantsOK DEF Look, TypeOK, KeyFile
    <3> QED
      BY <1>1, <1>7, <2>3, <3>1 DEF Look, Goto, LocalTypes, ControlTypes, Label
  <2> QED
    BY <1>2, <2>1, <2>2, <2>3
<1>8. ASSUME NEW p \in Proc, Write(p)
      PROVE  LocalTypes' /\ ControlTypes'
  <2>1. CASE at[p] < 3
    BY <1>1, <1>3, <1>8, <2>1 DEF Write, LocalTypes, ControlTypes
  <2>2. CASE ~(at[p] < 3)
    BY <1>6, <1>8, <2>2 DEF Write
  <2> QED
    BY <2>1, <2>2
<1>9. ASSUME NEW p \in Proc, AfterCopy(p) \/ NoBackup(p)
      PROVE  LocalTypes' /\ ControlTypes'
  <2>1. AfterCopy(p)
    BY <1>9 DEF NoBackup
  <2>2. CASE cmd[p] = "restore"
    BY <1>1, <2>1, <2>2 DEF AfterCopy, Goto, LocalTypes, ControlTypes, local, Label
  <2>3. CASE cmd[p] # "restore"
    BY <1>1, <2>1, <2>3, EndTypes DEF AfterCopy
  <2> QED
    BY <2>2, <2>3
<1>10. ASSUME NEW p \in Proc, SnapshotDatabase(p)
       PROVE  LocalTypes' /\ ControlTypes'
  <2>1. CASE db.state = "ready"
    <3>1. 1 \in KeyFile /\ [NoCopy EXCEPT !.data = db.data] \in Archive
      BY EmptyCopy DEF KeyFile, Archive, TypeOK
    <3> QED
      BY <1>1, <1>10, <2>1, <3>1 DEF SnapshotDatabase, Goto, LocalTypes, ControlTypes, Label
  <2>2. CASE db.state # "ready"
    BY <1>9, <1>10, <2>2 DEF SnapshotDatabase
  <2> QED
    BY <2>1, <2>2
<1>11. ASSUME NEW p \in Proc, CopyKey(p)
       PROVE  LocalTypes' /\ ControlTypes'
  <2>1. copy' \in [Proc -> Archive]
    <3>1. file[at[p]] \in 0..MaxGen /\ copy[p] \in Archive
      BY <1>1, <1>2 DEF TypeOK, Keys, LocalTypes
    <3>2. [copy[p] EXCEPT !.file[at[p]] = file[at[p]]] \in Archive
      BY <1>2, <3>1 DEF Archive, Keys
    <3> QED
      BY <1>1, <1>11, <3>2 DEF CopyKey, Copied, LocalTypes
  <2>2. at' \in [Proc -> KeyFile]
    <3>1. 1 \in KeyFile
      BY DEF KeyFile
    <3> QED
      BY <1>1, <1>3, <1>11, <3>1 DEF CopyKey, LocalTypes
  <2> QED
    BY <1>1, <1>11, <2>1, <2>2 DEF CopyKey, Goto, LocalTypes, ControlTypes, Label
<1>12. ASSUME NEW p \in Proc, WriteArchive(p)
       PROVE  LocalTypes' /\ ControlTypes'
  BY <1>9, <1>12 DEF WriteArchive
<1>13. ASSUME NEW p \in Proc, TruncateDatabase(p) \/ FillDatabase(p)
       PROVE  LocalTypes' /\ ControlTypes'
  <2>1. 1 \in KeyFile
    BY DEF KeyFile
  <2> QED
    BY <1>1, <1>13, <2>1 DEF TruncateDatabase, FillDatabase, Goto, LocalTypes, ControlTypes, local, Label
<1>14. ASSUME NEW p \in Proc, NextKey(p)
       PROVE  LocalTypes' /\ ControlTypes'
  <2>1. CASE at[p] < 3
    BY <1>1, <1>3, <1>14, <2>1 DEF NextKey, Goto, LocalTypes, ControlTypes, Label
  <2>2. CASE at[p] = 3 /\ cmd[p] = "rotate"
    BY <1>1, <1>14, <2>2, EndTypes DEF NextKey
  <2>3. CASE at[p] = 3 /\ cmd[p] # "rotate"
    BY <1>1, <1>14, <2>3, ForgetTypes DEF NextKey, Goto, ControlTypes, Label, Command
  <2> QED
    BY <1>2, <2>1, <2>2, <2>3
<1>15. ASSUME NEW p \in Proc, TruncateKey(p) \/ FillKey(p)
       PROVE  LocalTypes' /\ ControlTypes'
  <2>1. CASE NextKey(p)
    BY <1>14, <2>1
  <2>2. CASE ~NextKey(p)
    BY <1>1, <1>15, <2>2 DEF TruncateKey, FillKey, Goto, LocalTypes, ControlTypes, local, Label
  <2> QED
    BY <2>1, <2>2
<1>16. ASSUME NEW p \in Proc, Kill(p)
       PROVE  LocalTypes' /\ ControlTypes'
  BY <1>1, <1>16, EndTypes DEF Kill
<1>17. ASSUME NEW p \in Proc, NoSpace(p)
       PROVE  LocalTypes' /\ ControlTypes'
  BY <1>9, <1>17 DEF NoSpace
<1>18. ASSUME Redeploy
       PROVE  LocalTypes' /\ ControlTypes'
  <2>1. 1 \in KeyFile /\ 0 \in 0..MaxGen
    BY ConstantsOK DEF KeyFile
  <2> QED
    BY <1>18, <2>1, EmptyCopy DEF Redeploy, LocalTypes, ControlTypes, Label, Command
<1>19. ASSUME UNCHANGED vars
       PROVE  LocalTypes' /\ ControlTypes'
  BY <1>1, <1>19 DEF vars, local, LocalTypes, ControlTypes
<1> QED
  BY <1>4, <1>5, <1>7, <1>8, <1>10, <1>11, <1>12, <1>13, <1>15, <1>16, <1>17, <1>18, <1>19
  DEF Next, Step

\* The last key file is the third.
LEMMA ThreeFiles == KeyFile = {1, 2, 3}
BY DEF KeyFile

\* The disk and the counters keep their types.
LEMMA DiskTypes ==
  ASSUME TypeOK, Places, \A p \in Proc : DataOf(p), [Next]_vars
  PROVE  /\ file' \in Keys
         /\ db' \in [state : {"absent", "empty", "ready", "torn"}, data : 0..MaxChange]
         /\ archives' \subseteq Archive
         /\ up' \in BOOLEAN
<1>1. file' \in Keys
  <2>1. \A p \in Proc : at[p] \in KeyFile /\ gen[p] \in 0..MaxGen /\ EmptyFile \in 0..MaxGen
    BY ConstantsOK DEF TypeOK, EmptyFile
  <2>2. \A p \in Proc : pc[p] \in {"truncateKey", "fillKey"} => Source(p, at[p]) \in 0..MaxGen
    <3> SUFFICES ASSUME NEW p \in Proc, pc[p] \in {"truncateKey", "fillKey"}
                 PROVE  Source(p, at[p]) \in 0..MaxGen
      OBVIOUS
    <3>1. CASE cmd[p] = "rotate"
      BY <2>1, <3>1 DEF Source
    <3>2. CASE cmd[p] # "rotate"
      <4>1. from[p] \in archives
        BY <3>2 DEF DataOf, Places, Fits, Alone
      <4>2. from[p].file \in [KeyFile -> 0..MaxGen]
        BY <4>1 DEF TypeOK, Archive, Keys
      <4> QED
        BY <2>1, <3>2, <4>2 DEF Source
    <3> QED
      BY <3>1, <3>2
  <2>3. ASSUME NEW p \in Proc, Write(p) \/ TruncateKey(p) \/ FillKey(p)
        PROVE  file' \in Keys
    BY <2>1, <2>2, <2>3 DEF Write, TruncateKey, FillKey, NewContent, TypeOK, Keys
  <2>4. CASE UNCHANGED file
    BY <2>4 DEF TypeOK
  <2>5. ASSUME [Next]_vars, ~UNCHANGED file
        PROVE  \E p \in Proc : Write(p) \/ TruncateKey(p) \/ FillKey(p)
    BY <2>5 DEF Next, Step, Begin, Schema, Migrate, Change, ReadUsers, Lock, Look, SnapshotDatabase,
         CopyKey, WriteArchive, TruncateDatabase, FillDatabase, Kill, Redeploy, NoSpace, disk, vars
  <2> QED
    BY <2>3, <2>4, <2>5
<1>2. db' \in [state : {"absent", "empty", "ready", "torn"}, data : 0..MaxChange]
  <2>1. ASSUME NEW p \in Proc, Change(p)
        PROVE  db' \in [state : {"absent", "empty", "ready", "torn"}, data : 0..MaxChange]
    <3>1. nextChange <= MaxChange => nextChange \in 0..MaxChange
      BY ConstantsOK DEF TypeOK
    <3> QED
      BY <2>1, <3>1 DEF Change, TypeOK
  <2>2. ASSUME NEW p \in Proc, Schema(p) \/ Migrate(p)
        PROVE  db' \in [state : {"absent", "empty", "ready", "torn"}, data : 0..MaxChange]
    BY <2>2 DEF Schema, Migrate, TypeOK
  <2>3. ASSUME NEW p \in Proc, TruncateDatabase(p) \/ FillDatabase(p)
        PROVE  db' \in [state : {"absent", "empty", "ready", "torn"}, data : 0..MaxChange]
    <3>1. 0 \in 0..MaxChange
      BY ConstantsOK
    <3>2. pc[p] = "fill" => from[p].data \in 0..MaxChange
      BY DEF DataOf, Places, Fits, TypeOK, Archive
    <3> QED
      BY <2>3, <3>1, <3>2 DEF TruncateDatabase, FillDatabase
  <2>4. ASSUME NEW P \in SUBSET Proc, LeaveBehind(P)
        PROVE  db' \in [state : {"absent", "empty", "ready", "torn"}, data : 0..MaxChange]
    BY <2>4 DEF LeaveBehind, TypeOK
  <2>5. CASE UNCHANGED db
    BY <2>5 DEF TypeOK
  <2>6. ASSUME [Next]_vars, ~UNCHANGED db
        PROVE  \/ \E p \in Proc : \/ Change(p) \/ Schema(p) \/ Migrate(p)
                                  \/ TruncateDatabase(p) \/ FillDatabase(p)
                                  \/ LeaveBehind({p})
               \/ LeaveBehind(Proc)
    BY <2>6, ZenonT(40) DEF Next, Step, Begin, ReadUsers, Lock, Look, Write, SnapshotDatabase,
         CopyKey, WriteArchive, TruncateKey, FillKey, Kill, Redeploy, NoSpace, disk, vars
  <2>7. \A p \in Proc : {p} \in SUBSET Proc
    OBVIOUS
  <2> QED
    BY <2>1, <2>2, <2>3, <2>4, <2>5, <2>6, <2>7
<1>3. archives' \subseteq Archive
  <2>1. ASSUME NEW p \in Proc, WriteArchive(p)
        PROVE  archives' \subseteq Archive
    BY <2>1 DEF WriteArchive, Archived, TypeOK
  <2>2. ASSUME ~UNCHANGED archives, [Next]_vars
        PROVE  \E p \in Proc : WriteArchive(p)
    BY <2>2, ZenonT(40) DEF Next, Step, Begin, Schema, Migrate, Change, ReadUsers, Lock, Look, Write, SnapshotDatabase,
         CopyKey, TruncateDatabase, FillDatabase, TruncateKey, FillKey, Kill, Redeploy, NoSpace, disk, vars
  <2> QED
    BY <2>1, <2>2 DEF TypeOK
<1>4. up' \in BOOLEAN
  <2>1. ASSUME ~UNCHANGED up, [Next]_vars
        PROVE  (\E p \in Proc : Look(p) \/ Write(p)) \/ Redeploy
    BY <2>1 DEF Next, Step, Begin, Schema, Migrate, Change, ReadUsers, Lock, SnapshotDatabase,
       CopyKey, WriteArchive, TruncateDatabase, FillDatabase, TruncateKey, FillKey, Kill, NoSpace, vars
  <2>2. ASSUME NEW p \in Proc, Look(p) \/ Write(p)
        PROVE  UNCHANGED up \/ up' = TRUE
    BY <2>2 DEF Look, Write, Ensured
  <2> QED
    BY <2>1, <2>2 DEF Redeploy, TypeOK
<1> QED
  BY <1>1, <1>2, <1>3, <1>4

\* The counters and the history keep theirs.
LEMMA HistoryTypes ==
  ASSUME TypeOK, [Next]_vars
  PROVE  /\ nextGen' \in 2..(MaxGen + 2) /\ nextChange' \in 1..(MaxChange + 1)
         /\ issued' \in BOOLEAN
         /\ mishaps' \subseteq {"cut", "unsaved"}
         /\ ops' \in 0..MaxOps /\ faults' \in 0..MaxFaults
         /\ mishaps \subseteq mishaps' /\ (issued => issued')
<1>1. nextGen' \in 2..(MaxGen + 2) /\ nextChange' \in 1..(MaxChange + 1)
  <2>1. nextGen' # nextGen => nextGen <= MaxGen /\ nextGen' = nextGen + 1
    <3>1. nextGen' # nextGen => \E p \in Proc : (\E c \in Command : Begin(p, c)) \/ Look(p)
      BY DEF Next, Step, Schema, Migrate, Change, ReadUsers, Lock, Write, SnapshotDatabase,
         CopyKey, WriteArchive, TruncateDatabase, FillDatabase, TruncateKey, FillKey, Kill, Redeploy, NoSpace,
         history, vars
    <3>2. ASSUME NEW p \in Proc, NEW c \in Command, Begin(p, c), nextGen' # nextGen
          PROVE  nextGen <= MaxGen /\ nextGen' = nextGen + 1
      BY <3>2 DEF Begin
    <3>3. ASSUME NEW p \in Proc, Look(p), nextGen' # nextGen
          PROVE  nextGen <= MaxGen /\ nextGen' = nextGen + 1
      <4>1. ~(at[p] < 3) /\ ~(at[p] = 3 /\ AllFound(p))
        BY <3>3 DEF Look
      <4> QED
        BY <3>3, <4>1 DEF Look
    <3> QED
      BY <3>1, <3>2, <3>3
  <2>2. nextChange' # nextChange => nextChange <= MaxChange /\ nextChange' = nextChange + 1
    BY ZenonT(40) DEF Next, Step, Begin, Schema, Migrate, Change, ReadUsers, Lock, Look, Write, SnapshotDatabase,
       CopyKey, WriteArchive, TruncateDatabase, FillDatabase, TruncateKey, FillKey, Kill, Redeploy, NoSpace,
       history, vars
  <2> QED
    BY <2>1, <2>2, ConstantsOK DEF TypeOK
<1>2. issued' \in BOOLEAN /\ (issued => issued')
  <2>1. ASSUME ~UNCHANGED issued
        PROVE  \E p \in Proc : Look(p) \/ Write(p)
    BY <2>1 DEF Next, Step, Begin, Schema, Migrate, Change, ReadUsers, Lock, SnapshotDatabase,
       CopyKey, WriteArchive, TruncateDatabase, FillDatabase, TruncateKey, FillKey, Kill, Redeploy, NoSpace,
       history, vars
  <2>2. ASSUME NEW p \in Proc, Look(p) \/ Write(p)
        PROVE  UNCHANGED issued \/ issued' = TRUE
    BY <2>2 DEF Look, Write, Ensured
  <2> QED
    BY <2>1, <2>2 DEF TypeOK
<1>3. mishaps' \subseteq {"cut", "unsaved"} /\ mishaps \subseteq mishaps'
  BY DEF Next, Step, Begin, Schema, Migrate, Change, ReadUsers, Lock, Look, Write, SnapshotDatabase,
     CopyKey, WriteArchive, TruncateDatabase, FillDatabase, TruncateKey, FillKey, Kill, Redeploy, NoSpace,
     NoBackup, LeaveBehind, history, vars, TypeOK
<1>4. ops' \in 0..MaxOps /\ faults' \in 0..MaxFaults
  <2>1. ops' # ops => ops < MaxOps /\ ops' = ops + 1
    <3>1. ASSUME NEW p \in Proc, NEW c \in Command, Begin(p, c)
          PROVE  ops < MaxOps /\ ops' = ops + 1
      BY <3>1 DEF Begin
    <3>2. ASSUME NEW p \in Proc, Step(p) \/ Kill(p) \/ NoSpace(p)
          PROVE  ops' = ops
      BY <3>2 DEF Step, Schema, Migrate, Change, ReadUsers, Lock, Look, Write, SnapshotDatabase,
         CopyKey, WriteArchive, TruncateDatabase, FillDatabase, TruncateKey, FillKey, Kill, NoSpace,
         bounds
    <3> QED
      BY <3>1, <3>2 DEF Next, Redeploy, bounds, vars
  <2>2. faults' # faults => faults < MaxFaults /\ faults' = faults + 1
    BY ZenonT(40) DEF Next, Step, Begin, Schema, Migrate, Change, ReadUsers, Lock, Look, Write, SnapshotDatabase,
       CopyKey, WriteArchive, TruncateDatabase, FillDatabase, TruncateKey, FillKey, Kill, Redeploy, NoSpace,
       FaultsLeft, bounds, vars
  <2> QED
    BY <2>1, <2>2, ConstantsOK DEF TypeOK
<1> QED
  BY <1>1, <1>2, <1>3, <1>4

LEMMA TypesKept ==
  ASSUME TypeOK, Places, \A p \in Proc : DataOf(p), [Next]_vars
  PROVE  TypeOK'
<1>1. LocalTypes' /\ ControlTypes'
  BY ProcessTypes
<1> QED
  BY <1>1, DiskTypes, HistoryTypes DEF TypeOK, LocalTypes, ControlTypes

------------------------------------------------------------------------------
(* Who is where *)

\* A step of one process leaves the others alone.
Stays(q) ==
  /\ pc'[q] = pc[q] /\ cmd'[q] = cmd[q]
  /\ at'[q] = at[q] /\ found'[q] = found[q] /\ gen'[q] = gen[q]
  /\ copy'[q] = copy[q] /\ from'[q] = from[q]

Act(p) == (\E c \in Command : Begin(p, c)) \/ Step(p) \/ Kill(p) \/ NoSpace(p)

LEMMA OthersStay ==
  ASSUME TypeOK, NEW p \in Proc, Act(p)
  PROVE  \A q \in Proc : q # p => Stays(q)
<1> SUFFICES ASSUME NEW q \in Proc, q # p
             PROVE  Stays(q)
  OBVIOUS
<1>1. LocalTypes /\ ControlTypes
  BY DEF TypeOK, LocalTypes, ControlTypes
<1>2. End(p) => Stays(q)
  BY <1>1 DEF End, Goto, Forget, Stays, LocalTypes, ControlTypes
<1>3. Ensured(p) => Stays(q)
  BY <1>1, <1>2 DEF Ensured, Goto, Forget, Stays, LocalTypes, ControlTypes
<1>4. AfterCopy(p) => Stays(q)
  BY <1>1, <1>2 DEF AfterCopy, Goto, Stays, LocalTypes, ControlTypes, local
<1>5. ASSUME NextKey(p) PROVE Stays(q)
  <2>1. CASE at[p] < 3
    BY <1>1, <1>5, <2>1 DEF NextKey, Goto, Stays, LocalTypes, ControlTypes
  <2>2. CASE ~(at[p] < 3) /\ ~End(p)
    BY <1>1, <1>5, <2>2 DEF NextKey, Goto, Forget, Stays, LocalTypes, ControlTypes
  <2> QED
    BY <1>2, <2>1, <2>2
<1>6. ASSUME NEW c \in Command, Begin(p, c) PROVE Stays(q)
  BY <1>1, <1>6 DEF Begin, Goto, Stays, LocalTypes, ControlTypes
<1>7. ASSUME Schema(p) \/ Migrate(p) \/ Change(p) \/ ReadUsers(p) \/ Lock(p) PROVE Stays(q)
  <2>1. CASE ~End(p)
    <3>1. UNCHANGED <<cmd, local>> /\ \E l : Goto(p, l)
      BY <1>7, <2>1 DEF Schema, Migrate, Change, ReadUsers, Lock
    <3> QED
      BY <1>1, <3>1 DEF Goto, Stays, LocalTypes, ControlTypes, local
  <2> QED
    BY <1>2, <2>1
<1>8. ASSUME Look(p) PROVE Stays(q)
  <2>1. CASE Ensured(p)
    BY <1>3, <2>1
  <2>2. CASE at[p] < 3
    BY <1>1, <1>8, <2>2 DEF Look, Stays, LocalTypes, ControlTypes
  <2>3. CASE ~(at[p] < 3) /\ ~Ensured(p)
    BY <1>1, <1>8, <2>3 DEF Look, Goto, Stays, LocalTypes, ControlTypes
  <2> QED
    BY <2>1, <2>2, <2>3
<1>9. ASSUME Write(p) PROVE Stays(q)
  BY <1>1, <1>3, <1>9 DEF Write, Stays, LocalTypes, ControlTypes
<1>10. ASSUME SnapshotDatabase(p) \/ WriteArchive(p) \/ NoSpace(p) PROVE Stays(q)
  <2>1. CASE ~AfterCopy(p)
    BY <1>1, <1>10, <2>1 DEF SnapshotDatabase, WriteArchive, NoSpace, NoBackup, Goto, Stays, LocalTypes, ControlTypes
  <2> QED
    BY <1>4, <2>1
<1>11. ASSUME CopyKey(p) PROVE Stays(q)
  BY <1>1, <1>11 DEF CopyKey, Goto, Stays, LocalTypes, ControlTypes
<1>12. ASSUME TruncateDatabase(p) \/ FillDatabase(p) PROVE Stays(q)
  BY <1>1, <1>12 DEF TruncateDatabase, FillDatabase, Goto, Stays, LocalTypes, ControlTypes, local
<1>13. ASSUME TruncateKey(p) \/ FillKey(p) PROVE Stays(q)
  <2>1. CASE ~NextKey(p)
    BY <1>1, <1>13, <2>1 DEF TruncateKey, FillKey, Goto, Stays, LocalTypes, ControlTypes, local
  <2> QED
    BY <1>5, <2>1
<1>14. Kill(p) => Stays(q)
  BY <1>2 DEF Kill
<1> QED
  BY <1>6, <1>7, <1>8, <1>9, <1>10, <1>11, <1>12, <1>13, <1>14 DEF Act, Step

\* A busy process may move on as the same command, end, or go on as an apply.
LEMMA MoveFits ==
  ASSUME TypeOK, Places, NEW p \in Proc, Busy(p), UNCHANGED up,
         \A q \in Proc : q # p => Stays(q),
         Fits(pc'[p], cmd'[p]),
         \/ cmd'[p] = cmd[p] \/ cmd'[p] = "none"
         \/ cmd'[p] = "apply" /\ cmd[p] # "boot"
  PROVE  Places'
<1>1. \A q \in Proc : Fits(pc'[q], cmd'[q])
  BY DEF Places, Stays
<1>2. ASSUME NEW q \in Proc, Busy(q)' PROVE (cmd[q] = "boot" <=> ~up)'
  <2>1. CASE q # p
    BY <1>2, <2>1 DEF Places, Stays, Busy
  <2>2. CASE q = p
    BY <1>2, <2>2 DEF Places, Busy, Fits
  <2> QED
    BY <2>1, <2>2
<1>3. ASSUME NEW q \in Proc, NEW r \in Proc, q # r, Busy(q)', Busy(r)'
      PROVE  cmd'[q] \notin Alone \union {"boot"}
  <2>1. CASE q # p /\ r # p
    BY <1>3, <2>1 DEF Places, Stays, Busy
  <2>2. CASE q = p
    BY <1>3, <2>2 DEF Places, Stays, Busy, Fits, Alone
  <2>3. CASE r = p
    BY <1>3, <2>3 DEF Places, Stays, Busy
  <2> QED
    BY <2>1, <2>2, <2>3
<1>4. \A q \in Proc : Fits(pc[q], cmd[q])'
  BY <1>1 DEF Fits
<1> QED
  BY <1>2, <1>3, <1>4 DEF Places

LEMMA FirstStepFits ==
  /\ \A c \in Command : Fits(FirstStep(c), c)
  /\ \A c \in Command \ {"rotate"} : Fits("schema", c)
BY DEF FirstStep, Fits, Command, Alone

\* The control of the process that ends.
LEMMA EndFits ==
  ASSUME TypeOK, NEW p \in Proc, End(p)
  PROVE  pc'[p] = "idle" /\ cmd'[p] = "none" /\ Fits(pc'[p], cmd'[p])
BY DEF End, Goto, TypeOK, Fits

LEMMA PlacesKept ==
  ASSUME TypeOK, Places, [Next]_vars
  PROVE  Places'
<1>1. ASSUME NEW p \in Proc, NEW c \in Command, Begin(p, c)
      PROVE  Places'
  <2>1. \A q \in Proc : q # p => Stays(q)
    BY <1>1, OthersStay DEF Act
  <2>2. cmd'[p] = c /\ UNCHANGED up
    BY <1>1 DEF Begin, TypeOK
  <2>3. Fits(pc'[p], c)
    BY <1>1, FirstStepFits DEF Begin, Goto, TypeOK
  <2>4. \A q \in Proc : Fits(pc[q], cmd[q])'
    BY <2>1, <2>2, <2>3 DEF Places, Stays, Fits
  <2>5. \A q \in Proc : Busy(q)' => (cmd[q] = "boot" <=> ~up)'
    <3> SUFFICES ASSUME NEW q \in Proc, Busy(q)' PROVE (cmd[q] = "boot" <=> ~up)'
      OBVIOUS
    <3>1. CASE q # p
      BY <2>1, <2>2, <3>1 DEF Places, Stays, Busy
    <3>2. CASE q = p
      BY <1>1, <2>2, <3>2 DEF Begin
    <3> QED
      BY <3>1, <3>2
  <2>6. ASSUME NEW q \in Proc, NEW r \in Proc, q # r, Busy(q)', Busy(r)'
        PROVE  cmd'[q] \notin Alone \union {"boot"}
    <3>1. CASE q # p /\ r # p
      BY <2>1, <2>6, <3>1 DEF Places, Stays, Busy
    <3>2. CASE q = p
      <4>1. Busy(r) /\ cmd[r] = cmd'[r]
        BY <2>1, <2>6, <3>2 DEF Stays, Busy
      <4>2. c \notin Alone
        BY <1>1, <4>1 DEF Begin
      <4>3. c # "boot"
        BY <1>1, <4>1 DEF Begin, Places
      <4> QED
        BY <2>2, <3>2, <4>2, <4>3
    <3>3. CASE r = p
      <4>1. Busy(q) /\ cmd[q] = cmd'[q]
        BY <2>1, <2>6, <3>3 DEF Stays, Busy
      <4>2. cmd[q] \notin Alone
        BY <1>1 DEF Begin
      <4>3. cmd[q] # "boot"
        BY <1>1, <4>1 DEF Begin, Places
      <4> QED
        BY <4>1, <4>2, <4>3
    <3> QED
      BY <3>1, <3>2, <3>3
  <2> QED
    BY <2>4, <2>5, <2>6 DEF Places
<1>2. ASSUME NEW p \in Proc, Ensured(p), pc[p] \in {"look", "write"},
             \A q \in Proc : q # p => Stays(q)
      PROVE  Places'
  <2>1. CASE cmd[p] # "boot"
    BY <1>2, <2>1, EndFits, MoveFits DEF Ensured, Busy
  <2>2. CASE cmd[p] = "boot"
    <3>1. \A q \in Proc : q # p => pc'[q] = "idle" /\ cmd'[q] = "none"
      BY <1>2, <2>2 DEF Places, Busy, Stays, Fits
    <3>2. pc'[p] = "users" /\ cmd'[p] = "apply" /\ up'
      BY <1>2, <2>2 DEF Ensured, Goto, TypeOK
    <3>3. \A q \in Proc : Fits(pc[q], cmd[q])'
      BY <3>1, <3>2 DEF Fits
    <3> QED
      BY <3>1, <3>2, <3>3 DEF Places, Busy
  <2> QED
    BY <2>1, <2>2
<1>3. ASSUME NEW p \in Proc, Step(p) \/ Kill(p) \/ NoSpace(p), ~Ensured(p) \/ ~(Look(p) \/ Write(p))
      PROVE  Places'
  <2>1. \A q \in Proc : q # p => Stays(q)
    BY <1>3, OthersStay DEF Act
  <2>2. Busy(p)
    BY <1>3 DEF Step, Kill, NoSpace, Schema, Migrate, Change, ReadUsers, Lock, Look, Write, SnapshotDatabase,
       CopyKey, WriteArchive, TruncateDatabase, FillDatabase, TruncateKey, FillKey, Busy
  <2>3. UNCHANGED up
    <3>1. Look(p) => UNCHANGED up
      BY <1>3 DEF Look
    <3>2. Write(p) => UNCHANGED up
      BY <1>3 DEF Write
    <3> QED
      BY <1>3, <3>1, <3>2 DEF Step, Kill, NoSpace, Schema, Migrate, Change, ReadUsers, Lock, SnapshotDatabase,
         CopyKey, WriteArchive, TruncateDatabase, FillDatabase, TruncateKey, FillKey
  <2>4. Fits(pc[p], cmd[p]) /\ pc[p] \in Label /\ cmd[p] \in Command \union {"none"}
    BY DEF Places, TypeOK
  <2>5. CASE End(p)
    BY <2>1, <2>2, <2>3, <2>5, EndFits, MoveFits
  <2>6. CASE ~End(p) /\ (Schema(p) \/ Migrate(p))
    <3>1. cmd'[p] = cmd[p] /\ pc'[p] \in {FirstStep(cmd[p]), "migrate"} /\ pc[p] \in {"schema", "migrate"}
      BY <2>6 DEF Schema, Migrate, Goto, TypeOK
    <3>2. cmd[p] \in Command \ {"rotate"}
      BY <2>4, <3>1 DEF Fits
    <3>3. Fits(pc'[p], cmd'[p])
      BY <3>1, <3>2, FirstStepFits DEF Fits
    <3> QED
      BY <2>1, <2>2, <2>3, <3>1, <3>3, MoveFits
  <2>7. CASE ~End(p) /\ (Change(p) \/ ReadUsers(p) \/ Lock(p))
    <3>1. cmd'[p] = cmd[p] /\ Fits(pc'[p], cmd'[p])
      BY <2>4, <2>7 DEF Change, ReadUsers, Lock, Goto, TypeOK, Fits
    <3> QED
      BY <2>1, <2>2, <2>3, <3>1, MoveFits
  <2>8. CASE Look(p) \/ Write(p)
    <3>1. cmd'[p] = cmd[p] /\ pc'[p] \in {"look", "write"} /\ pc[p] \in {"look", "write"}
      <4>1. CASE Look(p)
        BY <1>3, <4>1 DEF Look, Goto, TypeOK
      <4>2. CASE Write(p)
        BY <1>3, <4>2 DEF Write, Goto, TypeOK
      <4> QED
        BY <2>8, <4>1, <4>2
    <3>2. Fits(pc'[p], cmd'[p])
      BY <2>4, <3>1 DEF Fits
    <3> QED
      BY <2>1, <2>2, <2>3, <3>1, <3>2, MoveFits
  <2>9. CASE ~End(p) /\ (SnapshotDatabase(p) \/ CopyKey(p) \/ WriteArchive(p) \/ NoSpace(p))
    <3>1. cmd'[p] = cmd[p] /\ Fits(pc'[p], cmd'[p])
      <4>1. CASE AfterCopy(p)
        BY <2>4, <2>9, <4>1 DEF AfterCopy, Goto, TypeOK, Fits
      <4>2. CASE ~AfterCopy(p)
        BY <2>4, <2>9, <4>2 DEF SnapshotDatabase, CopyKey, WriteArchive, NoSpace, NoBackup, Goto, TypeOK, Fits
      <4> QED
        BY <4>1, <4>2
    <3> QED
      BY <2>1, <2>2, <2>3, <3>1, MoveFits
  <2>10. CASE TruncateDatabase(p) \/ FillDatabase(p)
    <3>1. cmd'[p] = cmd[p] /\ Fits(pc'[p], cmd'[p])
      BY <2>4, <2>10 DEF TruncateDatabase, FillDatabase, Goto, TypeOK, Fits, Alone
    <3> QED
      BY <2>1, <2>2, <2>3, <3>1, MoveFits
  <2>11. CASE ~End(p) /\ (TruncateKey(p) \/ FillKey(p))
    <3>1. cmd[p] \in Alone
      BY <2>4, <2>11 DEF TruncateKey, FillKey, Fits
    <3>2. /\ cmd'[p] = cmd[p] \/ (cmd'[p] = "apply" /\ cmd[p] # "boot")
          /\ Fits(pc'[p], cmd'[p])
      <4>1. CASE NextKey(p)
        <5>1. CASE at[p] < 3
          BY <2>11, <3>1, <4>1, <5>1 DEF NextKey, Goto, TypeOK, Fits, Alone
        <5>2. CASE ~(at[p] < 3)
          BY <2>11, <3>1, <4>1, <5>2 DEF NextKey, Goto, TypeOK, Fits, Alone
        <5> QED
          BY <5>1, <5>2
      <4>2. CASE ~NextKey(p)
        BY <2>11, <3>1, <4>2 DEF TruncateKey, FillKey, Goto, TypeOK, Fits, Alone
      <4> QED
        BY <4>1, <4>2
    <3> QED
      BY <2>1, <2>2, <2>3, <3>2, MoveFits
  <2> QED
    BY <1>3, <2>5, <2>6, <2>7, <2>8, <2>9, <2>10, <2>11 DEF Step, Kill
<1>4. CASE Redeploy
  BY <1>4 DEF Redeploy, Places, Busy, Fits
<1>5. CASE UNCHANGED vars
  BY <1>5 DEF vars, Places, Busy, Fits
<1>6. ASSUME NEW p \in Proc, Look(p) \/ Write(p), Ensured(p)
      PROVE  Places'
  <2>1. \A q \in Proc : q # p => Stays(q)
    BY <1>6, OthersStay DEF Act, Step
  <2>2. pc[p] \in {"look", "write"}
    BY <1>6 DEF Look, Write
  <2> QED
    BY <1>2, <1>6, <2>1, <2>2
<1> QED
  BY <1>1, <1>3, <1>4, <1>5, <1>6 DEF Next

\* Nobody restores or rotates while another process takes a step.
LEMMA NobodyElseOverwrites ==
  ASSUME TypeOK, Places, NEW p \in Proc, Act(p), NEW q \in Proc, q # p
  PROVE  /\ cmd[q] \notin Alone
         /\ pc[q] \notin {"truncate", "fill", "truncateKey", "fillKey"}
<1>1. cmd[q] \notin Alone
  <2>1. CASE \E c \in Command : Begin(p, c)
    BY <2>1 DEF Begin
  <2>2. CASE ~\E c \in Command : Begin(p, c)
    <3>1. Busy(p)
      BY <2>2 DEF Act, Step, Kill, NoSpace, Schema, Migrate, Change, ReadUsers, Lock, Look, Write,
         SnapshotDatabase, CopyKey, WriteArchive, TruncateDatabase, FillDatabase, TruncateKey, FillKey, Busy
    <3>2. CASE Busy(q)
      BY <3>1, <3>2 DEF Places
    <3>3. CASE ~Busy(q)
      BY <3>3 DEF Places, Fits, Busy, Alone
    <3> QED
      BY <3>2, <3>3
  <2> QED
    BY <2>1, <2>2
<1> QED
  BY <1>1 DEF Places, Fits, Alone

------------------------------------------------------------------------------
(* The data *)

\* What a step has to do to the data: the last change stays where it is found.
LEMMA DataKept ==
  ASSUME TypeOK, Places, Recoverable, \A p \in Proc : DataOf(p), [Next]_vars
  PROVE  Recoverable' /\ \A p \in Proc : DataOf(p)'
<1>1. mishaps \subseteq mishaps'
  BY HistoryTypes
<1>2. archives \subseteq archives'
  BY DEF Next, Step, Begin, Schema, Migrate, Change, ReadUsers, Lock, Look, Write, SnapshotDatabase,
     CopyKey, WriteArchive, Archived, TruncateDatabase, FillDatabase, TruncateKey, FillKey, Kill, Redeploy,
     NoSpace, disk, vars
<1>3. UNCHANGED <<db, nextChange>> => Recoverable'
  BY <1>1, <1>2 DEF Recoverable
<1>4. ASSUME NEW p \in Proc, Act(p), DataOf(p)'
      PROVE  \A q \in Proc : DataOf(q)'
  <2>1. ASSUME NEW q \in Proc, q # p PROVE DataOf(q)'
    <3>1. cmd'[q] # "restore" /\ pc'[q] \notin {"truncate", "fill"}
      BY <1>4, <2>1, OthersStay, NobodyElseOverwrites DEF Stays, Alone
    <3> QED
      BY <3>1 DEF DataOf
  <2> QED
    BY <1>4, <2>1
<1>5. ASSUME NEW p \in Proc, cmd'[p] # "restore", pc'[p] \notin {"truncate", "fill"}
      PROVE  DataOf(p)'
  BY <1>5 DEF DataOf
<1>6. ASSUME NEW p \in Proc, End(p)
      PROVE  DataOf(p)'
  BY <1>5, <1>6, EndFits
<1>7. ASSUME NEW p \in Proc, NEW c \in Command, Begin(p, c)
      PROVE  Recoverable' /\ DataOf(p)'
  <2>1. Recoverable'
    BY <1>3, <1>7 DEF Begin, disk
  <2>2. CASE c # "restore"
    <3>1. cmd'[p] = c /\ pc'[p] \in {"schema", FirstStep(c)}
      BY <1>7 DEF Begin, Goto, TypeOK
    <3>2. pc'[p] \notin {"truncate", "fill"}
      BY <3>1 DEF FirstStep, Command
    <3> QED
      BY <2>1, <1>5, <2>2, <3>1, <3>2
  <2>3. CASE c = "restore"
    <3>1. cmd'[p] = c /\ pc'[p] \in {"schema", "snapshot"}
      BY <1>7, <2>3 DEF Begin, Goto, TypeOK, FirstStep
    <3>2. from'[p] \in archives'
      BY <1>2, <1>7, <2>3 DEF Begin, TypeOK
    <3> QED
      BY <2>1, <3>1, <3>2 DEF DataOf
  <2> QED
    BY <2>1, <2>2, <2>3
<1>8. ASSUME NEW p \in Proc, Schema(p) \/ Migrate(p)
      PROVE  Recoverable' /\ DataOf(p)'
  <2>1. Recoverable'
    <3>1. CASE db'.state = db.state
      <4>1. db' = db /\ UNCHANGED nextChange
        BY <1>8, <3>1 DEF Schema, Migrate, TypeOK, history
      <4> QED
        BY <1>3, <4>1
    <3>2. CASE db'.state # db.state
      <4>1. db.state # "ready" /\ UNCHANGED <<archives, nextChange, mishaps>>
        BY <1>8, <3>2 DEF Schema, Migrate, history
      <4> QED
        BY <4>1 DEF Recoverable
    <3> QED
      BY <3>1, <3>2
  <2>2. CASE ~End(p)
    <3>1. cmd'[p] = cmd[p] /\ from'[p] = from[p] /\ pc'[p] \in {FirstStep(cmd[p]), "migrate"}
      BY <1>8, <2>2 DEF Schema, Migrate, Goto, TypeOK, local
    <3>2. cmd[p] \in Command
      BY <1>8 DEF Schema, Migrate, Places, Fits, TypeOK
    <3>3. pc'[p] \notin {"truncate", "fill", "copy", "archive"}
      BY <3>1, <3>2 DEF FirstStep, Command
    <3> QED
      BY <2>1, <1>2, <3>1, <3>3 DEF DataOf
  <2> QED
    BY <1>6, <2>1, <2>2
<1>9. ASSUME NEW p \in Proc, Change(p)
      PROVE  Recoverable' /\ DataOf(p)'
  <2>1. Recoverable'
    <3>1. CASE db.state = "ready"
      <4>1. db' = [state |-> "ready", data |-> nextChange] /\ nextChange' - 1 = nextChange
        BY <1>9, <3>1 DEF Change, TypeOK
      <4> QED
        BY <4>1 DEF Recoverable
    <3>2. CASE db.state # "ready"
      BY <1>3, <1>9, <3>2 DEF Change
    <3> QED
      BY <3>1, <3>2
  <2>2. CASE ~End(p)
    <3>1. cmd'[p] = "change" /\ pc'[p] = "users"
      BY <1>9, <2>2 DEF Change, Goto, TypeOK, Places, Fits
    <3> QED
      BY <2>1, <1>5, <3>1
  <2> QED
    BY <1>6, <2>1, <2>2
<1>10. ASSUME NEW p \in Proc, ReadUsers(p) \/ Lock(p)
       PROVE  Recoverable' /\ DataOf(p)'
  <2>1. Recoverable'
    BY <1>3, <1>10 DEF ReadUsers, Lock, disk, history
  <2>2. CASE ~End(p)
    <3>1. cmd'[p] # "restore" /\ pc'[p] \in {"lock", "look"}
      BY <1>10, <2>2 DEF ReadUsers, Lock, Goto, TypeOK, Places, Fits
    <3> QED
      BY <2>1, <1>5, <3>1
  <2> QED
    BY <1>6, <2>1, <2>2
<1>11. ASSUME NEW p \in Proc, Look(p) \/ Write(p)
       PROVE  Recoverable' /\ DataOf(p)'
  <2>1. Recoverable'
    BY <1>3, <1>11 DEF Look, Write, disk
  <2>2. cmd[p] # "restore"
    BY <1>11 DEF Look, Write, Places, Fits
  <2>3. CASE ~Ensured(p)
    <3>1. cmd'[p] = cmd[p] /\ pc'[p] \in {"look", "write"}
      <4>1. CASE Look(p)
        BY <2>3, <4>1 DEF Look, Goto, TypeOK
      <4>2. CASE Write(p)
        BY <2>3, <4>2 DEF Write, Goto, TypeOK
      <4> QED
        BY <1>11, <4>1, <4>2
    <3> QED
      BY <2>1, <1>5, <2>2, <3>1
  <2>4. CASE Ensured(p) /\ cmd[p] = "boot"
    <3>1. cmd'[p] = "apply" /\ pc'[p] = "users"
      BY <2>4 DEF Ensured, Goto, TypeOK
    <3> QED
      BY <1>5, <2>1, <3>1
  <2>5. CASE Ensured(p) /\ cmd[p] # "boot"
    BY <1>6, <2>1, <2>5 DEF Ensured
  <2> QED
    BY <2>1, <2>3, <2>4, <2>5
<1>12. ASSUME NEW p \in Proc, NoBackup(p), UNCHANGED <<db, archives, nextChange>>
       PROVE  Recoverable' /\ DataOf(p)'
  <2>1. CASE ~End(p)
    <3>1. cmd[p] = "restore" /\ cmd'[p] = "restore" /\ pc'[p] = "truncate" /\ from'[p] = from[p]
      BY <1>12, <2>1 DEF NoBackup, AfterCopy, Goto, TypeOK, local
    <3>2. db.state = "ready" => "unsaved" \in mishaps'
      BY <1>12, <3>1 DEF NoBackup
    <3> QED
      BY <1>3, <1>12, <3>1, <3>2 DEF DataOf
  <2> QED
    BY <1>3, <1>6, <1>12, <2>1
<1>13. ASSUME NEW p \in Proc, SnapshotDatabase(p)
       PROVE  Recoverable' /\ DataOf(p)'
  <2>1. CASE db.state = "ready"
    <3>1. Recoverable'
      BY <1>3, <1>13 DEF SnapshotDatabase, disk
    <3>2. cmd'[p] = cmd[p] /\ pc'[p] = "copy" /\ from'[p] = from[p]
      BY <1>13, <2>1 DEF SnapshotDatabase, Goto, TypeOK
    <3>3. copy'[p].data = db.data /\ db' = db
      BY <1>13, <2>1 DEF SnapshotDatabase, TypeOK, NoCopy, disk
    <3> QED
      BY <1>2, <2>1, <3>1, <3>2, <3>3 DEF DataOf
  <2>2. CASE db.state # "ready"
    BY <1>12, <1>13, <2>2 DEF SnapshotDatabase, disk
  <2> QED
    BY <2>1, <2>2
<1>14. ASSUME NEW p \in Proc, CopyKey(p)
       PROVE  Recoverable' /\ DataOf(p)'
  <2>1. cmd'[p] = cmd[p] /\ pc'[p] \in {"copy", "archive"} /\ from'[p] = from[p] /\ db' = db /\ pc[p] = "copy"
    BY <1>14 DEF CopyKey, Goto, TypeOK, disk
  <2>2. copy'[p].data = copy[p].data
    BY <1>14 DEF CopyKey, TypeOK, Archive
  <2> QED
    BY <1>2, <1>3, <1>14, <2>1, <2>2 DEF DataOf, CopyKey, history, disk
<1>15. ASSUME NEW p \in Proc, WriteArchive(p)
       PROVE  Recoverable' /\ DataOf(p)'
  <2>1. Recoverable'
    BY <1>3, <1>15 DEF WriteArchive, history
  <2>2. CASE ~End(p)
    <3>1. cmd[p] = "restore" /\ cmd'[p] = "restore" /\ pc'[p] = "truncate" /\ from'[p] = from[p]
      BY <1>15, <2>2 DEF WriteArchive, AfterCopy, Goto, TypeOK, local
    <3>2. copy[p] \in archives' /\ copy[p].data = db.data /\ db' = db
      BY <1>15, <3>1 DEF WriteArchive, Archived, DataOf
    <3> QED
      BY <1>2, <2>1, <3>1, <3>2 DEF DataOf
  <2> QED
    BY <1>6, <2>1, <2>2
<1>16. ASSUME NEW p \in Proc, TruncateDatabase(p)
       PROVE  Recoverable' /\ DataOf(p)'
  <2>1. Recoverable'
    <3>1. UNCHANGED <<archives, nextChange, mishaps>>
      BY <1>16 DEF TruncateDatabase, history
    <3>2. db = [state |-> "ready", data |-> nextChange - 1] =>
            "unsaved" \in mishaps \/ \E a \in archives : a.data = nextChange - 1
      <4>1. pc[p] = "truncate" /\ DataOf(p)
        BY <1>16 DEF TruncateDatabase
      <4> QED
        BY <4>1 DEF DataOf
    <3> QED
      BY <3>1, <3>2 DEF Recoverable
  <2>2. cmd'[p] = cmd[p] /\ pc'[p] = "fill" /\ from'[p] = from[p] /\ db'.state = "empty"
    BY <1>16 DEF TruncateDatabase, Goto, TypeOK, local
  <2> QED
    BY <1>2, <2>1, <2>2 DEF DataOf
<1>17. ASSUME NEW p \in Proc, FillDatabase(p)
       PROVE  Recoverable' /\ DataOf(p)'
  <2>1. db.state = "empty" /\ UNCHANGED <<archives, nextChange, mishaps>>
    BY <1>17 DEF FillDatabase, DataOf, history
  <2>2. Recoverable'
    BY <2>1 DEF Recoverable
  <2>3. cmd'[p] = cmd[p] /\ pc'[p] = "truncateKey" /\ from'[p] = from[p]
    BY <1>17 DEF FillDatabase, Goto, TypeOK
  <2> QED
    BY <1>2, <2>2, <2>3 DEF DataOf
<1>18. ASSUME NEW p \in Proc, TruncateKey(p) \/ FillKey(p)
       PROVE  Recoverable' /\ DataOf(p)'
  <2>1. Recoverable'
    BY <1>3, <1>18 DEF TruncateKey, FillKey, history
  <2>2. CASE ~End(p)
    <3>1. \/ cmd'[p] = "apply" /\ pc'[p] = "schema"
          \/ cmd'[p] = cmd[p] /\ from'[p] = from[p] /\ pc'[p] \in {"truncateKey", "fillKey"}
      <4>1. CASE NextKey(p)
        BY <2>2, <4>1 DEF NextKey, Goto, TypeOK
      <4>2. CASE ~NextKey(p)
        BY <1>18, <4>2 DEF TruncateKey, FillKey, Goto, TypeOK, local
      <4> QED
        BY <4>1, <4>2
    <3> QED
      BY <1>2, <2>1, <3>1 DEF DataOf
  <2> QED
    BY <1>6, <2>1, <2>2
<1>19. ASSUME NEW P \in SUBSET Proc, LeaveBehind(P), UNCHANGED nextChange
       PROVE  Recoverable'
  <2>1. CASE UNCHANGED db
    BY <1>3, <1>19, <2>1
  <2>2. CASE ~UNCHANGED db
    <3>1. PICK p \in P : pc[p] = "fill"
      BY <1>19, <2>2 DEF LeaveBehind
    <3>2. db.state = "empty"
      BY <3>1 DEF DataOf
    <3> QED
      BY <1>1, <1>2, <1>19, <3>2 DEF Recoverable
  <2> QED
    BY <2>1, <2>2
<1>20. ASSUME NEW p \in Proc, Kill(p)
       PROVE  Recoverable' /\ DataOf(p)'
  <2>1. {p} \in SUBSET Proc
    OBVIOUS
  <2> QED
    BY <1>6, <1>19, <1>20, <2>1 DEF Kill
<1>21. ASSUME NEW p \in Proc, NoSpace(p)
       PROVE  Recoverable' /\ DataOf(p)'
  BY <1>12, <1>21 DEF NoSpace, disk
<1>22. CASE Redeploy
  <2>1. Proc \in SUBSET Proc
    OBVIOUS
  <2>2. Recoverable'
    BY <1>19, <1>22, <2>1 DEF Redeploy
  <2> QED
    BY <1>5, <1>22, <2>2 DEF Redeploy
<1>23. CASE UNCHANGED vars
  <2>1. Recoverable'
    BY <1>3, <1>23 DEF vars, disk, history
  <2> QED
    BY <1>23, <2>1 DEF DataOf, vars, disk, local, history
<1>24. ASSUME NEW p \in Proc, Act(p)
       PROVE  Recoverable' /\ DataOf(p)'
  BY <1>7, <1>8, <1>9, <1>10, <1>11, <1>13, <1>14, <1>15, <1>16, <1>17, <1>18, <1>20, <1>21, <1>24
  DEF Act, Step
<1>25. CASE \E p \in Proc : Act(p)
  BY <1>4, <1>24, <1>25
<1> QED
  BY <1>22, <1>23, <1>25 DEF Next, Act

------------------------------------------------------------------------------
(* The keys *)

\* Only the bootstrap runs before keys are issued.
LEMMA OnlyBootBeforeKeys ==
  ASSUME Places, KeysInv, NEW p \in Proc, Busy(p), cmd[p] # "boot"
  PROVE  issued
BY DEF Places, KeysInv

\* Whoever overwrites the key files has one whole pair to put there.
LEMMA GoodSource ==
  ASSUME TypeOK, Places, KeysInv, NEW p \in Proc, DataOf(p), pc[p] \in {"truncateKey", "fillKey"}
  PROVE  /\ \A k \in KeyFile : Source(p, k) > EmptyFile
         /\ \A j, k \in KeyFile : Source(p, j) = Source(p, k)
<1>1. CASE cmd[p] = "rotate"
  <2>1. gen[p] > EmptyFile
    BY <1>1 DEF KeysInv, KeysOf
  <2> QED
    BY <1>1, <2>1 DEF Source
<1>2. CASE cmd[p] # "rotate"
  <2>1. from[p] \in archives
    BY <1>2 DEF Places, Fits, Alone, DataOf
  <2>2. Good(from[p].file)
    BY <2>1 DEF KeysInv
  <2> QED
    BY <1>2, <2>2 DEF Source, Good, Whole, Matched
<1> QED
  BY <1>1, <1>2

\* The keys of the others when p writes nothing that they look at.
LEMMA OthersKeys ==
  ASSUME TypeOK, Places, KeysInv, NEW p \in Proc, Act(p), NEW q \in Proc, q # p
  PROVE  KeysOf(q)'
<1>1. KeysOf(q) /\ Stays(q)
  BY OthersStay DEF KeysInv
<1>2. CASE UNCHANGED <<file, issued>>
  BY <1>1, <1>2 DEF KeysOf, Stays, Source
<1>3. CASE pc[q] = "idle"
  BY <1>1, <1>3 DEF KeysOf, Stays
<1>4. CASE Write(p)
  <2>1. ~issued /\ Busy(p)
    BY <1>4 DEF Write, KeysInv, KeysOf, Busy
  <2>2. cmd[p] = "boot"
    BY <2>1, OnlyBootBeforeKeys
  <2>3. pc[q] = "idle"
    BY <2>1, <2>2 DEF Places, Busy
  <2> QED
    BY <1>3, <2>3
<1>5. CASE TruncateKey(p) \/ FillKey(p)
  <2>1. cmd[p] \in Alone /\ Busy(p)
    BY <1>5 DEF TruncateKey, FillKey, Places, Fits, Busy
  <2>2. pc[q] = "idle"
    BY <2>1 DEF Places, Busy
  <2> QED
    BY <1>3, <2>2
<1>6. CASE Look(p)
  <2>1. UNCHANGED file
    BY <1>6 DEF Look, disk
  <2>2. CASE ~issued
    <3>1. file[3] = NoFile
      BY <2>2 DEF KeysInv
    <3>2. ~(at[p] = 3 /\ AllFound(p))
      BY <3>1 DEF AllFound, NoFile, EmptyFile
    <3>3. UNCHANGED issued
      BY <1>6, <3>2 DEF Look
    <3> QED
      BY <1>2, <2>1, <3>3
  <2>3. CASE issued
    <3>1. issued'
      BY <1>6, <2>3 DEF Look, Ensured
    <3> QED
      BY <1>1, <2>1, <2>3, <3>1 DEF KeysOf, Stays, Source
  <2> QED
    BY <2>2, <2>3
<1>7. CASE ~(Write(p) \/ TruncateKey(p) \/ FillKey(p) \/ Look(p))
  <2>1. UNCHANGED <<file, issued>>
    BY <1>7 DEF Act, Step, Begin, Schema, Migrate, Change, ReadUsers, Lock, SnapshotDatabase,
       CopyKey, WriteArchive, TruncateDatabase, FillDatabase, Kill, NoSpace, disk, history
  <2> QED
    BY <1>2, <2>1
<1> QED
  BY <1>4, <1>5, <1>6, <1>7

\* A step that changes neither the files nor what is known of them, and that
\* does not leave an overwriting half done.
LEMMA KeysFrame ==
  ASSUME TypeOK, Places, KeysInv, NEW p \in Proc, Act(p),
         UNCHANGED <<file, issued, archives, up>>,
         Overwriting(p) => Overwriting(p)',
         KeysOf(p)'
  PROVE  KeysInv'
<1>1. \A q \in Proc : KeysOf(q)'
  BY OthersKeys
<1>2. \A q \in Proc : q # p => (Overwriting(q) => Overwriting(q)')
  BY OthersStay DEF Overwriting, Stays
<1>3. issued' /\ (\A q \in Proc : ~Overwriting(q)') => Good(file)'
  BY <1>2 DEF KeysInv, Good, Whole, Matched
<1>4. \A a \in archives' : Good(a.file)'
  BY DEF KeysInv, Good, Whole, Matched
<1> QED
  BY <1>1, <1>3, <1>4 DEF KeysInv

\* The process that ends, or goes on to something else, has nothing in hand.
LEMMA ForgottenKeys ==
  ASSUME TypeOK, NEW p \in Proc, Forget(p),
         pc'[p] \in {"idle", "users", "schema"}
  PROVE  KeysOf(p)'
<1>1. at'[p] = 1
  BY DEF Forget, TypeOK
<1> QED
  BY <1>1 DEF KeysOf

LEMMA EndedKeys ==
  ASSUME TypeOK, NEW p \in Proc, End(p)
  PROVE  KeysOf(p)'
BY EndFits, ForgottenKeys DEF End

\* Keys that are issued stay good when the process that ended overwrote nothing.
LEMMA AllEndKeys ==
  ASSUME KeysInv, \A p \in Proc : ~Overwriting(p),
         \A p \in Proc : pc'[p] = "idle" /\ at'[p] = 1,
         UNCHANGED <<file, issued, archives>>, up' => up
  PROVE  KeysInv'
<1>1. \A q \in Proc : KeysOf(q)'
  BY DEF KeysOf
<1>2. issued' => Good(file)'
  BY DEF KeysInv, Good, Whole, Matched
<1>3. \A a \in archives' : Good(a.file)'
  BY DEF KeysInv, Good, Whole, Matched
<1> QED
  BY <1>1, <1>2, <1>3 DEF KeysInv

LEMMA KeysKeptByStep ==
  ASSUME TypeOK, Places, KeysInv, \A p \in Proc : DataOf(p), [Next]_vars, ~Cut'
  PROVE  KeysInv'
<1>1. ASSUME NEW p \in Proc, NEW c \in Command, Begin(p, c)
      PROVE  KeysInv'
  <2>1. Act(p) /\ UNCHANGED <<file, issued, archives, up>> /\ ~Overwriting(p)
    BY <1>1 DEF Act, Begin, disk, Overwriting, Busy
  <2>2. at[p] = 1 /\ at'[p] = 1
    BY <1>1 DEF Begin, Busy, KeysInv, KeysOf
  <2>3. pc'[p] \in {"schema", FirstStep(c)} /\ cmd'[p] = c
    BY <1>1 DEF Begin, Goto, TypeOK
  <2>4. c = "rotate" => gen'[p] > EmptyFile
    BY <1>1 DEF Begin, TypeOK, EmptyFile
  <2>5. pc'[p] \in {"schema", "look", "users", "change", "snapshot", "truncateKey"}
    BY <2>3 DEF FirstStep, Command
  <2>6. KeysOf(p)'
    BY <2>2, <2>3, <2>4, <2>5, ThreeFiles DEF KeysOf
  <2> QED
    BY <2>1, <2>6, KeysFrame
<1>2. ASSUME NEW p \in Proc,
             Schema(p) \/ Migrate(p) \/ Change(p) \/ ReadUsers(p) \/ Lock(p)
      PROVE  KeysInv'
  <2>1. Act(p) /\ UNCHANGED <<file, issued, archives, up>> /\ ~Overwriting(p)
    BY <1>2 DEF Act, Step, Schema, Migrate, Change, ReadUsers, Lock, disk, history, Overwriting
  <2>2. CASE ~End(p)
    <3>1. at[p] = 1 /\ at'[p] = 1
      BY <1>2, <2>2 DEF Schema, Migrate, Change, ReadUsers, Lock, local, KeysInv, KeysOf
    <3>2. pc[p] \in {"schema", "migrate"} => cmd[p] \in Command \ {"rotate"}
      BY DEF Places, Fits, TypeOK
    <3>3. pc'[p] \in {"migrate", "look", "users", "change", "snapshot", "lock"}
      <4>1. pc[p] \in {"schema", "migrate"} =>
              FirstStep(cmd[p]) \in {"look", "users", "change", "snapshot"}
        BY <3>2 DEF FirstStep, Command
      <4> QED
        BY <1>2, <2>2, <4>1 DEF Schema, Migrate, Change, ReadUsers, Lock, Goto, TypeOK
    <3>4. KeysOf(p)'
      BY <3>1, <3>3 DEF KeysOf
    <3> QED
      BY <2>1, <3>4, KeysFrame
  <2> QED
    BY <2>1, <2>2, EndedKeys, KeysFrame
<1>3. ASSUME NEW p \in Proc, Ensured(p)
      PROVE  KeysOf(p)'
  <2>1. CASE cmd[p] = "boot"
    BY <1>3, <2>1, ForgottenKeys DEF Ensured, Goto, TypeOK
  <2>2. CASE cmd[p] # "boot"
    BY <1>3, <2>2, EndedKeys DEF Ensured
  <2> QED
    BY <2>1, <2>2
<1>4. ASSUME NEW p \in Proc, Look(p)
      PROVE  KeysInv'
  <2>1. /\ pc[p] = "look" /\ Act(p) /\ UNCHANGED <<file, db, archives>> /\ ~Overwriting(p)
        /\ at[p] \in {1, 2, 3} /\ Busy(p)
    BY <1>4, ThreeFiles DEF Act, Step, Look, disk, Overwriting, TypeOK, Busy
  <2>2. \A q \in Proc : ~Overwriting(q)
    BY <2>1, NobodyElseOverwrites DEF Overwriting
  <2>3. issued => \A k \in KeyFile : file[k] > EmptyFile
    BY <2>2 DEF KeysInv, Good, Whole
  <2>4. issued => AllFound(p)
    BY <2>1, <2>3, ThreeFiles DEF AllFound, KeysInv, KeysOf
  <2>5. CASE at[p] < 3
    <3>1. UNCHANGED <<issued, up, pc>> /\ found'[p] = AllFound(p)
      BY <1>4, <2>5 DEF Look, TypeOK
    <3>2. KeysOf(p)'
      BY <2>1, <2>4, <3>1 DEF KeysOf
    <3> QED
      BY <2>1, <3>1, <3>2, KeysFrame
  <2>6. CASE at[p] = 3 /\ AllFound(p)
    <3>1. Ensured(p)
      BY <1>4, <2>6 DEF Look
    <3>2. issued
      BY <2>6 DEF AllFound, KeysInv, NoFile, EmptyFile
    <3>3. UNCHANGED issued
      BY <3>1, <3>2 DEF Ensured, TypeOK
    <3>4. \A q \in Proc : KeysOf(q)'
      BY <1>3, <2>1, <3>1, OthersKeys
    <3>5. Good(file)'
      BY <2>1, <2>2, <3>2 DEF KeysInv, Good, Whole, Matched
    <3>6. \A a \in archives' : Good(a.file)'
      BY <2>1 DEF KeysInv, Good, Whole, Matched
    <3> QED
      BY <3>2, <3>3, <3>4, <3>5, <3>6 DEF KeysInv
  <2>7. CASE at[p] = 3 /\ ~AllFound(p)
    <3>1. UNCHANGED <<issued, up>> /\ pc'[p] = "write" /\ at'[p] = 1 /\ gen'[p] = nextGen
      BY <1>4, <2>7 DEF Look, Goto, TypeOK
    <3>2. ~issued /\ nextGen > EmptyFile
      BY <2>4, <2>7 DEF TypeOK, EmptyFile
    <3>3. KeysOf(p)'
      BY <3>1, <3>2, ThreeFiles DEF KeysOf
    <3> QED
      BY <2>1, <3>1, <3>3, KeysFrame
  <2> QED
    BY <2>1, <2>5, <2>6, <2>7
<1>5. ASSUME NEW p \in Proc, Write(p)
      PROVE  KeysInv'
  <2>1. /\ pc[p] = "write" /\ Act(p) /\ UNCHANGED archives /\ at[p] \in {1, 2, 3} /\ Busy(p)
        /\ ~issued /\ gen[p] > EmptyFile
        /\ \A k \in KeyFile : k < at[p] => file[k] = gen[p]
    BY <1>5, ThreeFiles DEF Act, Step, Write, TypeOK, Busy, KeysInv, KeysOf
  <2>2. \A k \in KeyFile : file'[k] = IF k = at[p] THEN gen[p] ELSE file[k]
    BY <1>5 DEF Write, NewContent, TypeOK, Keys
  <2>3. archives' = {}
    BY <2>1 DEF KeysInv
  <2>4. CASE at[p] < 3
    <3>1. UNCHANGED <<issued, up, pc, gen>> /\ at'[p] = at[p] + 1
      BY <1>5, <2>4 DEF Write, TypeOK
    <3>2. KeysOf(p)'
      BY <2>1, <2>2, <3>1, ThreeFiles DEF KeysOf
    <3>3. file'[3] = NoFile /\ ~up
      BY <2>1, <2>2, <2>4, ThreeFiles DEF KeysInv
    <3>4. \A q \in Proc : KeysOf(q)'
      BY <2>1, <3>2, OthersKeys
    <3> QED
      BY <2>1, <2>3, <3>1, <3>3, <3>4 DEF KeysInv
  <2>5. CASE at[p] = 3
    <3>1. Ensured(p)
      BY <1>5, <2>5 DEF Write
    <3>2. issued'
      BY <3>1 DEF Ensured
    <3>3. \A q \in Proc : KeysOf(q)'
      BY <1>3, <2>1, <3>1, OthersKeys
    <3>4. \A k \in KeyFile : file'[k] = gen[p]
      BY <2>1, <2>2, <2>5, ThreeFiles
    <3>5. Good(file)'
      BY <2>1, <3>4 DEF Good, Whole, Matched
    <3> QED
      BY <2>3, <3>2, <3>3, <3>5 DEF KeysInv
  <2> QED
    BY <2>1, <2>4, <2>5
<1>6. ASSUME NEW p \in Proc, AfterCopy(p), at[p] = 1
      PROVE  KeysOf(p)'
  <2>1. CASE cmd[p] = "restore"
    <3>1. pc'[p] = "truncate" /\ at'[p] = 1
      BY <1>6, <2>1 DEF AfterCopy, Goto, TypeOK, local
    <3> QED
      BY <3>1 DEF KeysOf
  <2>2. CASE cmd[p] # "restore"
    BY <1>6, <2>2, EndedKeys DEF AfterCopy
  <2> QED
    BY <2>1, <2>2
<1>7. ASSUME NEW p \in Proc, SnapshotDatabase(p) \/ NoSpace(p)
      PROVE  KeysInv'
  <2>1. /\ Act(p) /\ UNCHANGED <<file, issued, archives, up>> /\ ~Overwriting(p) /\ at[p] = 1
    BY <1>7 DEF Act, Step, SnapshotDatabase, NoSpace, disk, Overwriting, KeysInv, KeysOf
  <2>2. CASE NoBackup(p)
    <3>1. KeysOf(p)'
      BY <1>6, <2>1, <2>2 DEF NoBackup
    <3> QED
      BY <2>1, <3>1, KeysFrame
  <2>3. CASE ~NoBackup(p)
    <3>1. pc'[p] = "copy" /\ at'[p] = 1
      BY <1>7, <2>3 DEF SnapshotDatabase, NoSpace, Goto, TypeOK
    <3>2. KeysOf(p)'
      BY <3>1, ThreeFiles DEF KeysOf
    <3> QED
      BY <2>1, <3>2, KeysFrame
  <2> QED
    BY <2>2, <2>3
<1>8. ASSUME NEW p \in Proc, CopyKey(p)
      PROVE  KeysInv'
  <2>1. /\ pc[p] = "copy" /\ Act(p) /\ UNCHANGED <<file, issued, archives, up>> /\ ~Overwriting(p)
        /\ at[p] \in {1, 2, 3}
        /\ \A k \in KeyFile : k < at[p] => copy[p].file[k] = file[k]
    BY <1>8, ThreeFiles DEF Act, Step, CopyKey, disk, history, Overwriting, TypeOK, KeysInv, KeysOf
  <2>2. \A k \in KeyFile : copy'[p].file[k] = IF k = at[p] THEN file[k] ELSE copy[p].file[k]
    <3>1. copy[p].file \in [KeyFile -> 0..MaxGen]
      BY DEF TypeOK, Archive, Keys
    <3>2. copy'[p].file = [copy[p].file EXCEPT ![at[p]] = file[at[p]]]
      BY <1>8 DEF CopyKey, Copied, TypeOK, Archive
    <3> QED
      BY <3>1, <3>2
  <2>3. KeysOf(p)'
    <3>1. CASE at[p] < 3
      <4>1. at'[p] = at[p] + 1 /\ pc'[p] = "copy"
        BY <1>8, <2>1, <3>1 DEF CopyKey, TypeOK
      <4> QED
        BY <2>1, <2>2, <4>1, ThreeFiles DEF KeysOf
    <3>2. CASE at[p] = 3
      <4>1. at'[p] = 1 /\ pc'[p] = "archive"
        BY <1>8, <3>2 DEF CopyKey, Goto, TypeOK
      <4> QED
        BY <2>1, <2>2, <3>2, <4>1, ThreeFiles DEF KeysOf
    <3> QED
      BY <2>1, <3>1, <3>2
  <2> QED
    BY <2>1, <2>3, KeysFrame
<1>9. ASSUME NEW p \in Proc, WriteArchive(p)
      PROVE  KeysInv'
  <2>1. /\ pc[p] = "archive" /\ Act(p) /\ UNCHANGED <<file, issued, up>> /\ at[p] = 1 /\ Busy(p)
        /\ archives' = archives \union {copy[p]}
    BY <1>9 DEF Act, Step, WriteArchive, Archived, history, KeysInv, KeysOf, Busy
  <2>2. issued
    BY <2>1, OnlyBootBeforeKeys DEF Places, Fits
  <2>3. \A q \in Proc : ~Overwriting(q)
    BY <2>1, NobodyElseOverwrites DEF Overwriting
  <2>4. Good(file)
    BY <2>2, <2>3 DEF KeysInv
  <2>5. Good(copy[p].file)
    BY <2>1, <2>4 DEF KeysInv, KeysOf, Good, Whole, Matched
  <2>6. \A a \in archives' : Good(a.file)'
    BY <2>1, <2>5 DEF KeysInv, Good, Whole, Matched
  <2>7. \A q \in Proc : KeysOf(q)'
    BY <1>6, <1>9, <2>1, OthersKeys DEF WriteArchive
  <2>8. Good(file)'
    BY <2>1, <2>4 DEF Good, Whole, Matched
  <2> QED
    BY <2>1, <2>2, <2>6, <2>7, <2>8 DEF KeysInv
<1>10. ASSUME NEW p \in Proc, TruncateDatabase(p) \/ FillDatabase(p)
       PROVE  KeysInv'
  <2>1. /\ Act(p) /\ UNCHANGED <<file, issued, archives, up>> /\ at[p] = 1
    BY <1>10 DEF Act, Step, TruncateDatabase, FillDatabase, disk, history, KeysInv, KeysOf
  <2>2. at'[p] = 1 /\ cmd'[p] = "restore" /\ pc'[p] \in {"fill", "truncateKey"}
    BY <1>10, <2>1 DEF TruncateDatabase, FillDatabase, Goto, TypeOK, local, Places, Fits
  <2>3. KeysOf(p)' /\ Overwriting(p)'
    BY <2>2, ThreeFiles DEF KeysOf, Overwriting
  <2> QED
    BY <2>1, <2>3, KeysFrame
<1>11. ASSUME NEW p \in Proc, TruncateKey(p) \/ FillKey(p)
       PROVE  KeysInv'
  <2>1. /\ pc[p] \in {"truncateKey", "fillKey"} /\ Act(p) /\ UNCHANGED <<issued, archives, up>>
        /\ at[p] \in {1, 2, 3} /\ Busy(p) /\ cmd[p] \in Alone
    BY <1>11, ThreeFiles DEF Act, Step, TruncateKey, FillKey, history, TypeOK, Busy, Places, Fits
  <2>2. issued
    BY <2>1, OnlyBootBeforeKeys DEF Alone
  <2>3. \A k \in KeyFile : Source(p, k) > EmptyFile
    BY <2>1, GoodSource
  <2>4. \A j, k \in KeyFile : Source(p, j) = Source(p, k)
    BY <2>1, GoodSource
  <2>5. /\ cmd[p] = "rotate" => gen[p] > EmptyFile
        /\ \A k \in KeyFile : k < at[p] => file[k] = Source(p, k)
    BY <2>1 DEF KeysInv, KeysOf
  <2>6. \A a \in archives' : Good(a.file)'
    BY <2>1 DEF KeysInv, Good, Whole, Matched
  <2>7. KeysOf(p)' /\ (Overwriting(p)' \/ Good(file)')
    <3>1. CASE TruncateKey(p)
      <4>1. Source(p, at[p]) # NoFile
        BY <2>1, <2>3, ThreeFiles DEF NoFile, EmptyFile
      <4>2. /\ pc'[p] = "fillKey" /\ UNCHANGED <<cmd, at, gen, from>>
            /\ \A k \in KeyFile : k # at[p] => file'[k] = file[k]
        BY <3>1, <4>1 DEF TruncateKey, Goto, TypeOK, Keys, local
      <4>3. KeysOf(p)'
        BY <2>1, <2>5, <4>2, ThreeFiles DEF KeysOf, Source
      <4> QED
        BY <4>2, <4>3 DEF Overwriting
    <3>2. CASE FillKey(p)
      <4>1. \A k \in KeyFile : file'[k] = IF k = at[p] THEN Source(p, k) ELSE file[k]
        BY <3>2 DEF FillKey, TypeOK, Keys
      <4>2. CASE at[p] < 3
        <5>1. pc'[p] = "truncateKey" /\ at'[p] = at[p] + 1 /\ UNCHANGED <<cmd, gen, from>>
          BY <3>2, <4>2 DEF FillKey, NextKey, Goto, TypeOK
        <5>2. \A k \in KeyFile : k < at'[p] => file'[k] = Source(p, k)
          BY <2>1, <2>5, <4>1, <5>1, ThreeFiles
        <5>3. KeysOf(p)'
          BY <2>5, <5>1, <5>2 DEF KeysOf, Source
        <5>4. Overwriting(p)'
          BY <2>1, <5>1 DEF Overwriting
        <5> QED
          BY <5>3, <5>4
      <4>3. CASE at[p] = 3
        <5>1. Forget(p) /\ pc'[p] \in {"idle", "schema"}
          BY <3>2, <4>3 DEF FillKey, NextKey, End, Goto, TypeOK
        <5>2. KeysOf(p)'
          BY <5>1, ForgottenKeys
        <5>3. \A k \in KeyFile : file'[k] = Source(p, k)
          BY <2>5, <4>1, <4>3, ThreeFiles
        <5>4. Good(file)'
          BY <2>3, <2>4, <5>3 DEF Good, Whole, Matched
        <5> QED
          BY <5>2, <5>4
      <4> QED
        BY <2>1, <4>2, <4>3
    <3> QED
      BY <1>11, <3>1, <3>2
  <2>8. \A q \in Proc : KeysOf(q)'
    BY <2>1, <2>7, OthersKeys
  <2> QED
    BY <2>1, <2>2, <2>6, <2>7, <2>8 DEF KeysInv
<1>12. ASSUME NEW p \in Proc, Kill(p)
       PROVE  KeysInv'
  <2>1. ~Overwriting(p)
    BY <1>12 DEF Kill, LeaveBehind, Cut
  <2>2. Act(p) /\ UNCHANGED <<file, issued, archives, up>> /\ KeysOf(p)'
    BY <1>12, EndedKeys DEF Act, Kill
  <2> QED
    BY <2>1, <2>2, KeysFrame
<1>13. CASE Redeploy
  <2>1. \A p \in Proc : ~Overwriting(p)
    BY <1>13 DEF Redeploy, LeaveBehind, Cut
  <2> QED
    BY <1>13, <2>1, AllEndKeys DEF Redeploy
<1>14. CASE UNCHANGED vars
  <2>1. UNCHANGED <<file, issued, archives, up, pc, cmd, at, found, gen, copy, from>>
    BY <1>14 DEF vars, disk, local, history
  <2>2. \A p \in Proc : KeysOf(p)' /\ (Overwriting(p)' <=> Overwriting(p))
    BY <2>1 DEF KeysInv, KeysOf, Source, Overwriting
  <2>3. issued /\ (\A p \in Proc : ~Overwriting(p)) => Good(file)'
    BY <2>1 DEF KeysInv, Good, Whole, Matched
  <2>4. \A a \in archives' : Good(a.file)'
    BY <2>1 DEF KeysInv, Good, Whole, Matched
  <2> QED
    BY <2>1, <2>2, <2>3, <2>4 DEF KeysInv
<1> QED
  BY <1>1, <1>2, <1>4, <1>5, <1>7, <1>8, <1>9, <1>10, <1>11, <1>12, <1>13, <1>14 DEF Next, Step

------------------------------------------------------------------------------
(* The theorems *)

LEMMA VolumeStart == Init => VolumeInv
<1> SUFFICES ASSUME Init PROVE VolumeInv
  OBVIOUS
<1>1. TypeOK
  <2>1. 0 \in 0..MaxGen /\ 0 \in 0..MaxChange /\ 0 \in 0..MaxOps /\ 0 \in 0..MaxFaults
        /\ 2 \in 2..(MaxGen + 2) /\ 1 \in 1..(MaxChange + 1) /\ 1 \in KeyFile
    BY ConstantsOK DEF KeyFile
  <2> QED
    BY <2>1, EmptyCopy DEF Init, TypeOK, Label
<1>2. Places
  BY DEF Init, Places, Fits, Busy
<1>3. KeysInv
  BY ThreeFiles DEF Init, KeysInv, KeysOf, NoKeys
<1>4. Recoverable /\ \A p \in Proc : DataOf(p)
  BY DEF Init, Recoverable, DataOf
<1> QED
  BY <1>1, <1>2, <1>3, <1>4 DEF VolumeInv

\* The inductive invariant of everything on the volume.
THEOREM VolumeSafe == Spec => []VolumeInv
<1>1. ASSUME VolumeInv, [Next]_vars PROVE VolumeInv'
  <2>1. TypeOK /\ Places /\ Recoverable /\ \A p \in Proc : DataOf(p)
    BY <1>1 DEF VolumeInv
  <2>2. TypeOK' /\ Places' /\ Recoverable' /\ \A p \in Proc : DataOf(p)'
    BY <1>1, <2>1, TypesKept, PlacesKept, DataKept
  <2>3. Cut' \/ KeysInv'
    <3>1. Cut => Cut'
      BY <1>1, <2>1, HistoryTypes DEF Cut
    <3> QED
      BY <1>1, <2>1, <3>1, KeysKeptByStep DEF VolumeInv
  <2> QED
    BY <2>2, <2>3 DEF VolumeInv
<1> QED
  BY <1>1, VolumeStart, PTL DEF Spec

\* However boots and applies are cut short: key files that are all there are of
\* one pair.
THEOREM KeysBelongTogether == Spec => []KeysMatch
<1>1. VolumeInv => KeysMatch
  <2> SUFFICES ASSUME VolumeInv, ~Cut, \A p \in Proc : ~Overwriting(p), Whole(file)
               PROVE  Matched(file)
    BY DEF KeysMatch
  <2>1. file[3] # NoFile
    BY ThreeFiles DEF Whole, NoFile, EmptyFile
  <2> QED
    BY <2>1 DEF VolumeInv, KeysInv, Good
<1> QED
  BY <1>1, VolumeSafe, PTL

\* The last committed change is in the database or in an archive.
THEOREM LastChangeRecoverable == Spec => []Recoverable
<1>1. VolumeInv => Recoverable
  BY DEF VolumeInv
<1> QED
  BY <1>1, VolumeSafe, PTL

\* Issued keys are replaced by the operator's rotation only.
THEOREM IssuedKeysStay == Spec => KeysKept
<1>1. ASSUME VolumeInv, [Next]_vars
      PROVE  [(issued /\ ~Cut /\ nextGen' # nextGen)
               => \E p \in Proc : ~Busy(p) /\ cmd'[p] = "rotate"]_vars
  <2> SUFFICES ASSUME Next, issued, ~Cut, nextGen' # nextGen
               PROVE  \E p \in Proc : ~Busy(p) /\ cmd'[p] = "rotate"
    BY <1>1
  <2>1. TypeOK /\ Places /\ KeysInv
    BY <1>1 DEF VolumeInv
  <2>2. \E p \in Proc : (\E c \in Command : Begin(p, c)) \/ Look(p)
    BY DEF Next, Step, Schema, Migrate, Change, ReadUsers, Lock, Write, SnapshotDatabase,
       CopyKey, WriteArchive, TruncateDatabase, FillDatabase, TruncateKey, FillKey, Kill, Redeploy, NoSpace,
       history
  <2>3. ASSUME NEW p \in Proc, NEW c \in Command, Begin(p, c)
        PROVE  ~Busy(p) /\ cmd'[p] = "rotate"
    BY <2>1, <2>3 DEF Begin, TypeOK
  <2>4. ASSUME NEW p \in Proc, Look(p)
        PROVE  FALSE
    <3>1. ~(at[p] < 3) /\ ~(at[p] = 3 /\ AllFound(p)) /\ pc[p] = "look" /\ Act(p)
      BY <2>4 DEF Look, Act, Step
    <3>2. at[p] = 3
      BY <2>1, <3>1, ThreeFiles DEF TypeOK
    <3>3. \A q \in Proc : ~Overwriting(q)
      BY <2>1, <3>1, NobodyElseOverwrites DEF Overwriting
    <3>4. file[3] > EmptyFile
      BY <2>1, <3>3, ThreeFiles DEF KeysInv, Good, Whole
    <3>5. found[p]
      BY <2>1, <3>1, <3>2 DEF KeysInv, KeysOf
    <3> QED
      BY <3>1, <3>2, <3>4, <3>5 DEF AllFound
  <2> QED
    BY <2>2, <2>3, <2>4
<1> QED
  BY <1>1, VolumeSafe, PTL DEF Spec, KeysKept

------------------------------------------------------------------------------
(* What a redeploy keeps *)

\* RedeployKeepsVolume for the steps before any restore or rotation was cut short, which
\* is all that the run VolumeRedeploy finds against it.
RedeployUncut ==
  [][~Cut => \A p \in Proc : cmd[p] = "boot" =>
       /\ issued => nextGen' = nextGen
       /\ (pc[p] = "migrate" /\ db.state = "empty" /\ db'.state = "ready") => nextChange = 1]_vars

\* A database without a schema has had no changes, or a restore is filling it.
UncutData ==
  \/ Cut
  \/ db.state \in {"absent", "empty"} => nextChange = 1 \/ \E p \in Proc : pc[p] = "fill"

\* Whoever fills the database is the only one that can step.
LEMMA FillsAlone ==
  ASSUME TypeOK, Places, NEW p \in Proc, pc[p] = "fill", NEW q \in Proc, Act(q)
  PROVE  q = p
<1>1. Busy(p) /\ cmd[p] \in Alone
  BY DEF Busy, Places, Fits, Alone
<1>2. q # p => ~Busy(q)
  BY <1>1 DEF Places
<1>3. ~Busy(q) => \E c \in Command : Begin(q, c)
  BY DEF Act, Step, Busy, Kill, NoSpace, Schema, Migrate, Change, ReadUsers, Lock, Look, Write,
     SnapshotDatabase, CopyKey, WriteArchive, TruncateDatabase, FillDatabase, TruncateKey, FillKey
<1>4. ~\E c \in Command : Begin(q, c)
  BY <1>1 DEF Begin
<1> QED
  BY <1>2, <1>3, <1>4

LEMMA UncutKept ==
  ASSUME VolumeInv, UncutData, [Next]_vars
  PROVE  UncutData'
<1>0. TypeOK /\ Places /\ mishaps \subseteq mishaps'
  BY HistoryTypes DEF VolumeInv
<1> SUFFICES ASSUME ~Cut, ~Cut', db'.state \in {"absent", "empty"}
             PROVE  nextChange' = 1 \/ \E p \in Proc : pc'[p] = "fill"
  BY <1>0 DEF UncutData, Cut
<1>1. CASE Redeploy
  <2>1. ~\E p \in Proc : pc[p] = "fill"
    BY <1>1 DEF Redeploy, LeaveBehind, Cut, Overwriting
  <2>2. db' = db /\ nextChange' = nextChange
    BY <1>1, <2>1 DEF Redeploy, LeaveBehind
  <2> QED
    BY <2>1, <2>2 DEF UncutData
<1>2. ASSUME NEW q \in Proc, Act(q)
      PROVE  nextChange' = 1 \/ \E p \in Proc : pc'[p] = "fill"
  <2>1. CASE pc[q] = "fill"
    <3>1. FillDatabase(q) \/ Kill(q)
      BY <1>2, <2>1 DEF Act, Step, Begin, Busy, NoSpace, Schema, Migrate, Change, ReadUsers,
         Lock, Look, Write, SnapshotDatabase, CopyKey, WriteArchive, TruncateDatabase,
         TruncateKey, FillKey
    <3>2. ~FillDatabase(q)
      BY DEF FillDatabase
    <3>3. ~Kill(q)
      BY <2>1 DEF Kill, LeaveBehind, Overwriting, Cut
    <3> QED
      BY <3>1, <3>2, <3>3
  <2>2. CASE pc[q] # "fill"
    <3>1. ~\E p \in Proc : pc[p] = "fill"
      BY <1>0, <1>2, <2>2, FillsAlone
    <3>2. CASE TruncateDatabase(q)
      BY <1>0, <3>2 DEF TruncateDatabase, Goto, TypeOK
    <3>3. CASE Change(q)
      <4>1. db.state # "ready" /\ db' = db /\ nextChange' = nextChange
        BY <1>0, <3>3 DEF Change, TypeOK
      <4> QED
        BY <3>1, <4>1 DEF UncutData
    <3>4. CASE Kill(q)
      <4>1. db' = db /\ nextChange' = nextChange
        BY <2>2, <3>4 DEF Kill, LeaveBehind
      <4> QED
        BY <3>1, <4>1 DEF UncutData
    <3>5. CASE ~TruncateDatabase(q) /\ ~Change(q) /\ ~Kill(q)
      <4>1. nextChange' = nextChange
        BY <1>2, <3>5 DEF Act, Step, Begin, NoSpace, NoBackup, Schema, Migrate, ReadUsers, Lock,
           Look, Write, SnapshotDatabase, CopyKey, WriteArchive, FillDatabase, TruncateKey,
           FillKey, history
      <4>2. db' = db \/ db.state \in {"absent", "empty"}
        BY <1>0, <1>2, <2>2, <3>5 DEF Act, Step, Begin, NoSpace, Schema, Migrate, ReadUsers,
           Lock, Look, Write, SnapshotDatabase, CopyKey, WriteArchive, FillDatabase,
           TruncateKey, FillKey, disk, TypeOK
      <4> QED
        BY <3>1, <4>1, <4>2 DEF UncutData
    <3> QED
      BY <3>2, <3>3, <3>4, <3>5
  <2> QED
    BY <2>1, <2>2
<1>3. CASE UNCHANGED vars
  BY <1>3 DEF UncutData, vars, disk, history
<1> QED
  BY <1>1, <1>2, <1>3 DEF Next, Act

\* However often the container is replaced, boots neither make new keys where links are
\* out nor create an empty schema where changes were made, before a restore or a rotation
\* is cut short.
THEOREM RedeployKeepsUncut == Spec => RedeployUncut
<1>1. Init => UncutData
  BY DEF Init, UncutData
<1>2. VolumeInv /\ UncutData /\ [Next]_vars => UncutData'
  BY UncutKept
<1>3. ASSUME VolumeInv, UncutData, [Next]_vars,
             [(issued /\ ~Cut /\ nextGen' # nextGen)
               => \E p \in Proc : ~Busy(p) /\ cmd'[p] = "rotate"]_vars
      PROVE  [~Cut => \A p \in Proc : cmd[p] = "boot" =>
               /\ issued => nextGen' = nextGen
               /\ (pc[p] = "migrate" /\ db.state = "empty" /\ db'.state = "ready")
                    => nextChange = 1]_vars
  <2> SUFFICES ASSUME vars' # vars, ~Cut, NEW p \in Proc, cmd[p] = "boot"
               PROVE  /\ issued => nextGen' = nextGen
                      /\ (pc[p] = "migrate" /\ db.state = "empty" /\ db'.state = "ready")
                           => nextChange = 1
    OBVIOUS
  <2>1. TypeOK /\ Places /\ Next
    BY <1>3 DEF VolumeInv
  <2>2. Busy(p)
    BY <2>1 DEF Places, Fits, Busy
  <2>3. ASSUME issued, nextGen' # nextGen
        PROVE  FALSE
    <3>1. PICK q \in Proc : ~Busy(q) /\ cmd'[q] = "rotate"
      BY <1>3, <2>3
    <3>2. \E o \in Proc : Begin(o, "rotate")
      <4>1. \E o \in Proc : (\E c \in Command : Begin(o, c)) \/ Look(o)
        BY <2>1, <2>3 DEF Next, Step, Schema, Migrate, Change, ReadUsers, Lock, Write,
           SnapshotDatabase, CopyKey, WriteArchive, TruncateDatabase, FillDatabase, TruncateKey,
           FillKey, Kill, Redeploy, NoSpace, history
      <4>2. ASSUME NEW o \in Proc, Look(o)
            PROVE  cmd'[q] = cmd[q]
        <5>1. Busy(o) /\ Act(o)
          BY <4>2 DEF Look, Busy, Act, Step
        <5> QED
          BY <2>1, <3>1, <5>1, OthersStay DEF Stays
      <4>3. cmd[q] = "none"
        BY <2>1, <3>1 DEF Places, Fits, Busy
      <4>4. ASSUME NEW o \in Proc, NEW c \in Command, Begin(o, c)
            PROVE  c = "rotate"
        BY <2>1, <3>1, <4>3, <4>4 DEF Begin, TypeOK
      <4> QED
        BY <3>1, <4>1, <4>2, <4>3, <4>4
    <3> QED
      BY <2>2, <3>2 DEF Begin, Alone
  <2>4. ASSUME pc[p] = "migrate", db.state = "empty"
        PROVE  nextChange = 1
    <3>1. \A q \in Proc : pc[q] # "fill"
      BY <2>1, <2>2, <2>4 DEF Places, Fits, Busy, Alone
    <3> QED
      BY <1>3, <2>4, <3>1 DEF UncutData
  <2> QED
    BY <2>3, <2>4
<1> QED
  BY <1>1, <1>2, <1>3, VolumeSafe, IssuedKeysStay, PTL DEF Spec, KeysKept, RedeployUncut
==============================================================================
