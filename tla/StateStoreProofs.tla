--------------------------- MODULE StateStoreProofs ---------------------------
(***************************************************************************)
(* Proofs about StateStore for any number of processes and tasks, any      *)
(* bounds: it is well typed, the flock excludes, what a reload installs    *)
(* matches its stamp, the install id is stable, and the store implements   *)
(* the atomic shared value of SharedState.                                 *)
(***************************************************************************)
EXTENDS StateStore, TLAPS

(* The shape of a call: which jobs its places go with.                     *)
CallShape(t) ==
  /\ call[t].pc = "idle" => call[t].job = None
  /\ call[t].pc = "compare" => call[t].job = Reload
  /\ call[t].pc \notin {"idle", "compare"} => call[t].job \in Job \cup {Reload}
  /\ call[t].job = Reload => call[t].pc \notin {"write", "rename", "loaded"}

(* The flock: who holds it is who stands in a locked place.                *)
LockShape ==
  /\ \A t \in Task : writer = t <=> /\ call[t].pc \in Locked
                                    /\ call[t].job # Reload
  /\ \A t \in Task : t \in readers <=> /\ call[t].pc \in Locked
                                       /\ call[t].job = Reload
  /\ writer # None => readers = {}

(* What the lock protects: until its rename the holder works on the file's *)
(* current content, from its unlock on a snapshot is that of its stamp.    *)
DataShape(t) ==
  /\ call[t].pc \in {"write", "rename"} => call[t].snap = Apply(disk, call[t].job)
  /\ call[t].pc = "rename" => tmp[Host[t]] = call[t].snap
  /\ call[t].pc = "loaded" => call[t].snap = disk
  /\ call[t].pc \in {"install", "stamp"} =>
       /\ call[t].stamp <= mtime
       /\ call[t].stamp = mtime => call[t].snap = disk

IInv == /\ TypeOK
        /\ LockShape
        /\ \A t \in Task : CallShape(t) /\ DataShape(t)

(* Storing a value in a field yields an application state.                 *)
LEMMA ApplyType == ASSUME NEW s \in AppState, NEW u \in Update
                   PROVE  Apply(s, u) \in AppState
  BY DEF Apply, AppState, Update

LEMMA NewStateType == NewState \in AppState
  BY DEF NewState, AppState

LEMMA ViewType == ASSUME NEW s \in AppState
                  PROVE  ClientVisible(s) \in [Field \ Hidden -> Value \cup {Unset}]
  BY DEF ClientVisible, AppState

LEMMA NoCallType == NoCall \in Call
  BY NewStateType DEF NoCall, Call, Place

(* Every edit an action makes to a call record yields a call record.       *)
LEMMA MoveType == ASSUME NEW c \in Call, NEW place \in Place
                  PROVE  LET d == [c EXCEPT !.pc = place]
                         IN  d \in Call /\ d.pc = place /\ d.job = c.job
  BY DEF Call

LEMMA BeginType ==
  ASSUME NEW c \in Call, NEW u \in Job, NEW m \in Nat
  PROVE  /\ [c EXCEPT !.pc = "lock", !.job = u] \in Call
         /\ [c EXCEPT !.pc = "compare", !.job = Reload, !.stamp = m] \in Call
  BY StoreAssumption DEF Call, Place, Blocking

LEMMA ApplyEditType ==
  ASSUME NEW c \in Call, NEW s \in AppState, NEW b \in BOOLEAN, NEW place \in Place
  PROVE  [c EXCEPT !.snap = s, !.news = b, !.pc = place] \in Call
  BY DEF Call

LEMMA LoadEditType ==
  ASSUME NEW c \in Call, NEW s \in AppState, NEW m \in Nat
  PROVE  /\ LET d == [c EXCEPT !.pc = "install", !.stamp = m]
            IN  d \in Call /\ d.pc = "install" /\ d.job = c.job
         /\ [c EXCEPT !.pc = "install", !.snap = s, !.stamp = m] \in Call
  BY DEF Call, Place

LEMMA InstallEditType ==
  ASSUME NEW c \in Call, NEW b \in BOOLEAN
  PROVE  [c EXCEPT !.pc = "stamp", !.news = c.news \/ b] \in Call
  BY DEF Call, Place

LEMMA DropEditType == ASSUME NEW c \in Call
                      PROVE  [c EXCEPT !.dropped = TRUE] \in Call
  BY DEF Call

LEMMA CallFields ==
  ASSUME TypeOK, NEW t \in Task
  PROVE  /\ call[t] \in Call /\ Host[t] \in Process
         /\ call[t].pc \in Place /\ call[t].snap \in AppState
         /\ call[t].stamp \in Nat /\ call[t].news \in BOOLEAN
         /\ call[t].job \in Update \cup {Reload, None}
  BY StoreAssumption DEF TypeOK, Call

LEMMA InitTypeOK == Init => TypeOK
  BY NewStateType, NoCallType, StoreAssumption DEF Init, TypeOK

(* IInv is assumed, not only TypeOK: that a rename finds a temporary file  *)
(* to rename is a consequence of the lock.                                 *)
LEMMA TypeStep == ASSUME IInv, [Next]_vars PROVE TypeOK'
<1> USE DEF fileVars, lockVars, procVars, feedVars, Place, Blocking
<1>0. TypeOK
  BY DEF IInv
<1>1. ASSUME NEW t \in Task, NEW u \in Job, Mutate(t, u) PROVE TypeOK'
  BY <1>0, <1>1, BeginType DEF Mutate, TypeOK
<1>2. ASSUME NEW t \in Task, StatFile(t) PROVE TypeOK'
  <2>1. call' \in [Task -> Call]
    <3>1. [call[t] EXCEPT !.pc = "compare", !.job = Reload, !.stamp = mtime] \in Call
      <4>1. call[t] \in Call /\ mtime \in Nat
        BY <1>0 DEF TypeOK
      <4> QED
        BY <4>1, StoreAssumption DEF Call
    <3> QED
      BY <1>0, <1>2, <3>1 DEF StatFile, TypeOK
  <2> QED
    BY <1>0, <1>2, <2>1 DEF StatFile, TypeOK
<1>3. ASSUME NEW t \in Task, LockExclusive(t) PROVE TypeOK'
  BY <1>0, <1>3, MoveType DEF LockExclusive, TypeOK
<1>4. ASSUME NEW t \in Task, LockShared(t) PROVE TypeOK'
  BY <1>0, <1>4, MoveType DEF LockShared, TypeOK
<1>5. ASSUME NEW t \in Task, CompareMtime(t) PROVE TypeOK'
  <2>1. call' \in [Task -> Call]
    <3>1. CASE call[t].stamp = lastMtime[Host[t]]
      BY <1>0, <1>5, <3>1, NoCallType DEF CompareMtime, TypeOK
    <3>2. CASE call[t].stamp # lastMtime[Host[t]]
      <4>1. call' = [call EXCEPT ![t] = [call[t] EXCEPT !.pc = "lock"]]
        BY <1>5, <3>2 DEF CompareMtime
      <4>2. [call[t] EXCEPT !.pc = "lock"] \in Call
        BY <1>0, CallFields, MoveType
      <4> QED
        BY <1>0, <4>1, <4>2 DEF TypeOK
    <3> QED
      BY <3>1, <3>2
  <2> QED
    BY <1>0, <1>5, <2>1 DEF CompareMtime, TypeOK
<1>6. ASSUME NEW t \in Task, ReadAndApply(t) PROVE TypeOK'
  <2>1. call[t].job \in Update
    BY <1>0, <1>6, CallFields, StoreAssumption DEF ReadAndApply, IInv, CallShape
  <2>2. Apply(disk, call[t].job) \in AppState
    BY <1>0, <2>1, ApplyType DEF TypeOK
  <2> QED
    BY <1>0, <1>6, <2>2, ApplyEditType DEF ReadAndApply, IsInstallId, TypeOK
<1>7. ASSUME NEW t \in Task, WriteTmp(t) PROVE TypeOK'
  BY <1>0, <1>7, CallFields, MoveType DEF WriteTmp, TypeOK
<1>8. ASSUME NEW t \in Task, Rename(t) PROVE TypeOK'
  <2>1. tmp[Host[t]] \in AppState
    BY <1>0, <1>8, CallFields DEF Rename, IInv, DataShape
  <2>2. call' \in [Task -> Call]
    BY <1>0, <1>8, MoveType DEF Rename, TypeOK
  <2>3. disk' \in AppState /\ mtime' \in Nat
    BY <1>0, <1>8, <2>1 DEF Rename, TypeOK
  <2>4. tmp' \in [Process -> AppState \cup {None}]
    BY <1>0, <1>8 DEF Rename, TypeOK
  <2> QED
    BY <1>0, <1>8, <2>2, <2>3, <2>4 DEF Rename, TypeOK
<1>9. ASSUME NEW t \in Task, Fail(t) PROVE TypeOK'
  BY <1>0, <1>9, CallFields, NoCallType DEF Fail, Unlock, TypeOK
<1>10. ASSUME NEW t \in Task, LoadWritten(t) PROVE TypeOK'
  BY <1>0, <1>10, LoadEditType, NoCallType DEF LoadWritten, Hand, Unlock, TypeOK
<1>11. ASSUME NEW t \in Task, LoadForReload(t) PROVE TypeOK'
  BY <1>0, <1>11, LoadEditType, NoCallType DEF LoadForReload, Hand, Unlock, TypeOK
<1>12. ASSUME NEW t \in Task, SyncInstallId(t) PROVE TypeOK'
  <2>1. ASSUME NEW s \in AppState
        PROVE  [s EXCEPT ![InstallId] = call[t].snap[InstallId]] \in AppState
    BY <1>0, CallFields, FieldAssumption DEF AppState
  <2>2. cache' \in [Process -> AppState]
    BY <1>0, <1>12, <2>1, CallFields DEF SyncInstallId, TypeOK
  <2>3. call' \in [Task -> Call]
    BY <1>0, <1>12, NoCallType DEF SyncInstallId, TypeOK
  <2>4. visible' \in [Process -> [Field \ Hidden -> Value \cup {Unset}] \cup {None}]
    BY <1>0, <1>12 DEF SyncInstallId, TypeOK
  <2> QED
    BY <1>0, <1>12, <2>2, <2>3, <2>4 DEF SyncInstallId, Unlock, TypeOK
<1>13. ASSUME NEW t \in Task, Install(t) PROVE TypeOK'
  <2>1. ClientVisible(call[t].snap) \in [Field \ Hidden -> Value \cup {Unset}]
    BY <1>0, CallFields, ViewType
  <2>2. call' \in [Task -> Call]
    <3> DEFINE current == IF visible[Host[t]] = None
                          THEN ClientVisible(cache[Host[t]]) ELSE visible[Host[t]]
               differs == current # ClientVisible(call[t].snap)
    <3>1. [call[t] EXCEPT !.pc = "stamp", !.news = call[t].news \/ differs] \in Call
      BY <1>0, CallFields, InstallEditType
    <3>2. call' = [call EXCEPT ![t] = [call[t] EXCEPT !.pc = "stamp", !.news = call[t].news \/ differs]]
      BY <1>13 DEF Install
    <3> HIDE DEF differs
    <3> QED
      BY <1>0, <3>1, <3>2 DEF TypeOK
  <2>3. visible' \in [Process -> [Field \ Hidden -> Value \cup {Unset}] \cup {None}]
    BY <1>0, <1>13, <2>1 DEF Install, TypeOK
  <2>4. cache' \in [Process -> AppState]
    BY <1>0, <1>13, CallFields DEF Install, TypeOK
  <2> QED
    BY <1>0, <1>13, <2>2, <2>3, <2>4 DEF Install, TypeOK
<1>14. ASSUME NEW t \in Task, RecordMtime(t) PROVE TypeOK'
  BY <1>0, <1>14, CallFields, MoveType, NoCallType DEF RecordMtime, TypeOK
<1>15. ASSUME NEW t \in Task, BumpGeneration(t) PROVE TypeOK'
  <2>1. call' \in [Task -> Call]
    BY <1>0, <1>15, NoCallType DEF BumpGeneration, TypeOK
  <2>2. woken' \in [Process -> BOOLEAN]
    <3>1. woken' = [woken EXCEPT ![Host[t]] = Host[t] \in Subscribed]
      BY <1>15 DEF BumpGeneration
    <3>2. (Host[t] \in Subscribed) \in BOOLEAN
      OBVIOUS
    <3> QED
      BY <1>0, <3>1, <3>2 DEF TypeOK
  <2> QED
    BY <1>0, <1>15, <2>1, <2>2 DEF BumpGeneration, TypeOK
<1>16. ASSUME NEW t \in Task, Cancel(t) PROVE TypeOK'
  <2>1. call' \in [Task -> Call]
    BY <1>0, <1>16, DropEditType, NoCallType DEF Cancel, TypeOK
  <2> QED
    BY <1>0, <1>16, <2>1 DEF Cancel, TypeOK
<1>17. ASSUME NEW p \in Process, LoadState(p) PROVE TypeOK'
  <2>1. /\ cache' \in [Process -> AppState]
        /\ up' \in [Process -> {"down", "loading", "up"}]
        /\ visible' \in [Process -> [Field \ Hidden -> Value \cup {Unset}] \cup {None}]
    BY <1>0, <1>17 DEF LoadState, TypeOK
  <2>2. starts' \in Nat
    BY <1>0, <1>17 DEF LoadState, TypeOK
  <2> QED
    BY <1>0, <1>17, <2>1, <2>2 DEF LoadState, TypeOK
<1>18. ASSUME NEW p \in Process, NewStore(p) PROVE TypeOK'
  BY <1>0, <1>18 DEF NewStore, TypeOK
<1>19. ASSUME NEW p \in Process, Crash(p) PROVE TypeOK'
  BY <1>0, <1>19, NoCallType DEF Crash, TypeOK
<1>20. ASSUME NEW p \in Process, Receive(p) \/ Reread(p) \/ NotifyChange(p) PROVE TypeOK'
  BY <1>0, <1>20 DEF Receive, Reread, NotifyChange, TypeOK
<1>21. CASE UNCHANGED vars
  BY <1>0, <1>21 DEF vars, TypeOK
<1> QED
  BY <1>1, <1>2, <1>3, <1>4, <1>5, <1>6, <1>7, <1>8, <1>9, <1>10, <1>11, <1>12,
     <1>13, <1>14, <1>15, <1>16, <1>17, <1>18, <1>19, <1>20, <1>21 DEF Next, Progress

-----------------------------------------------------------------------------
(* The two actions whose effect on the call has alternatives.              *)
LEMMA CompareEffect ==
  ASSUME TypeOK, NEW t \in Task, CompareMtime(t)
  PROVE  \E c \in Call : /\ call' = [call EXCEPT ![t] = c]
                         /\ \/ c = NoCall
                            \/ c = [call[t] EXCEPT !.pc = "lock"]
<1>1. CASE call[t].stamp = lastMtime[Host[t]]
  BY <1>1, NoCallType DEF CompareMtime
<1>2. CASE call[t].stamp # lastMtime[Host[t]]
  <2>1. [call[t] EXCEPT !.pc = "lock"] \in Call
    BY CallFields, MoveType DEF Place, Blocking
  <2> QED
    BY <1>2, <2>1 DEF CompareMtime
<1> QED
  BY <1>1, <1>2

LEMMA CancelEffect ==
  ASSUME TypeOK, NEW t \in Task, Cancel(t)
  PROVE  \E c \in Call : /\ call' = [call EXCEPT ![t] = c]
                         /\ \/ c = NoCall /\ call[t].pc \in {"install", "stamp"}
                            \/ c = [call[t] EXCEPT !.dropped = TRUE]
<1>1. CASE call' = [call EXCEPT ![t].dropped = TRUE]
  <2>1. [call[t] EXCEPT !.dropped = TRUE] \in Call
    BY CallFields, DropEditType
  <2> QED
    BY <1>1, <2>1
<1>2. CASE call[t].pc \in {"install", "stamp"} /\ call' = [call EXCEPT ![t] = NoCall]
  BY <1>2, NoCallType
<1> QED
  BY <1>1, <1>2 DEF Cancel

(* Acquiring needs the flock free of conflicting holders, every other step *)
(* stays inside or outside the locked section or releases on leaving it.   *)
LEMMA LockStep == ASSUME IInv, [Next]_vars PROVE LockShape'
<1> USE StoreAssumption DEF fileVars, lockVars, procVars, feedVars, Blocking, Locked
<1>0. TypeOK /\ LockShape /\ \A t \in Task : CallShape(t)
  BY DEF IInv
<1>a. /\ call \in [Task -> Call] /\ writer \in Task \cup {None} /\ readers \subseteq Task
  BY <1>0 DEF TypeOK
<1>b. \A t \in Task : call[t].job \in Job => call[t].job # Reload
  BY StoreAssumption
<1>1. ASSUME NEW t \in Task, NEW u \in Job, Mutate(t, u) PROVE LockShape'
  BY <1>0, <1>a, <1>1 DEF Mutate, LockShape
<1>2. ASSUME NEW t \in Task, StatFile(t) PROVE LockShape'
  BY <1>0, <1>a, <1>2 DEF StatFile, LockShape
<1>3. ASSUME NEW t \in Task, LockExclusive(t) PROVE LockShape'
  BY <1>0, <1>a, <1>3 DEF LockExclusive, LockShape
<1>4. ASSUME NEW t \in Task, LockShared(t) PROVE LockShape'
  BY <1>0, <1>a, <1>4 DEF LockShared, LockShape
<1>5. ASSUME NEW t \in Task, CompareMtime(t) PROVE LockShape'
  <2>1. PICK c \in Call : /\ call' = [call EXCEPT ![t] = c]
                          /\ c = NoCall \/ c = [call[t] EXCEPT !.pc = "lock"]
    BY <1>0, <1>5, CompareEffect
  <2>2. c.pc \notin Locked /\ call[t].pc \notin Locked
    BY <1>0, <1>5, <2>1, CallFields DEF CompareMtime, NoCall, Call
  <2> QED
    BY <1>0, <1>a, <1>5, <2>1, <2>2 DEF CompareMtime, LockShape
<1>6. ASSUME NEW t \in Task, ReadAndApply(t) PROVE LockShape'
  BY <1>0, <1>a, <1>6 DEF ReadAndApply, LockShape
<1>7. ASSUME NEW t \in Task, WriteTmp(t) PROVE LockShape'
  BY <1>0, <1>a, <1>7 DEF WriteTmp, LockShape
<1>8. ASSUME NEW t \in Task, Rename(t) PROVE LockShape'
  BY <1>0, <1>a, <1>8 DEF Rename, LockShape
<1>9. ASSUME NEW t \in Task, Fail(t) PROVE LockShape'
  BY <1>0, <1>a, <1>9 DEF Fail, Unlock, LockShape, NoCall
<1>10. ASSUME NEW t \in Task, LoadWritten(t) PROVE LockShape'
  BY <1>0, <1>a, <1>10 DEF LoadWritten, Hand, Unlock, LockShape, NoCall
<1>11. ASSUME NEW t \in Task, LoadForReload(t) PROVE LockShape'
  BY <1>0, <1>a, <1>11 DEF LoadForReload, Hand, Unlock, LockShape, NoCall
<1>12. ASSUME NEW t \in Task, SyncInstallId(t) PROVE LockShape'
  BY <1>0, <1>a, <1>12 DEF SyncInstallId, Unlock, LockShape, NoCall
<1>13. ASSUME NEW t \in Task, Install(t) PROVE LockShape'
  BY <1>0, <1>a, <1>13 DEF Install, LockShape
<1>14. ASSUME NEW t \in Task, RecordMtime(t) PROVE LockShape'
  BY <1>0, <1>a, <1>14 DEF RecordMtime, LockShape, NoCall
<1>15. ASSUME NEW t \in Task, BumpGeneration(t) PROVE LockShape'
  BY <1>0, <1>a, <1>15 DEF BumpGeneration, LockShape, NoCall
<1>16. ASSUME NEW t \in Task, Cancel(t) PROVE LockShape'
  <2>1. CASE call' = [call EXCEPT ![t].dropped = TRUE]
    BY <1>0, <1>a, <1>16, <2>1 DEF Cancel, LockShape, Call
  <2>2. CASE call[t].pc \in {"install", "stamp"} /\ call' = [call EXCEPT ![t] = NoCall]
    BY <1>0, <1>a, <1>16, <2>2 DEF Cancel, LockShape, NoCall
  <2> QED
    BY <1>16, <2>1, <2>2 DEF Cancel
<1>17. ASSUME NEW p \in Process, Crash(p) PROVE LockShape'
  BY <1>0, <1>a, <1>17 DEF Crash, LockShape, NoCall
<1>18. CASE UNCHANGED <<call, lockVars>>
  BY <1>0, <1>18 DEF LockShape
<1> QED
  BY <1>1, <1>2, <1>3, <1>4, <1>5, <1>6, <1>7, <1>8, <1>9, <1>10, <1>11, <1>12,
     <1>13, <1>14, <1>15, <1>16, <1>17, <1>18
  DEF Next, Progress, vars, LoadState, NewStore, Receive, Reread, NotifyChange

(* A call's job is set when it begins and cleared when it ends.            *)
LEMMA CallShapeStep == ASSUME IInv, [Next]_vars PROVE \A k \in Task : CallShape(k)'
<1> USE StoreAssumption DEF fileVars, lockVars, procVars, feedVars, Blocking
<1>0. \A k \in Task : CallShape(k)
  BY DEF IInv
<1>a. call \in [Task -> Call]
  BY DEF IInv, TypeOK
<1>1. ASSUME NEW t \in Task, NEW u \in Job, Mutate(t, u) PROVE \A k \in Task : CallShape(k)'
  BY <1>0, <1>a, <1>1 DEF Mutate, CallShape
<1>2. ASSUME NEW t \in Task, StatFile(t) PROVE \A k \in Task : CallShape(k)'
  BY <1>0, <1>a, <1>2 DEF StatFile, CallShape
<1>3. ASSUME NEW t \in Task, LockExclusive(t) PROVE \A k \in Task : CallShape(k)'
  BY <1>0, <1>a, <1>3 DEF LockExclusive, CallShape
<1>4. ASSUME NEW t \in Task, LockShared(t) PROVE \A k \in Task : CallShape(k)'
  BY <1>0, <1>a, <1>4 DEF LockShared, CallShape
<1>5. ASSUME NEW t \in Task, CompareMtime(t) PROVE \A k \in Task : CallShape(k)'
  <2>1. PICK c \in Call : /\ call' = [call EXCEPT ![t] = c]
                          /\ c = NoCall \/ c = [call[t] EXCEPT !.pc = "lock"]
    BY <1>5, CompareEffect DEF IInv
  <2>2. \/ c.pc = "idle" /\ c.job = None
        \/ c.pc = "lock" /\ c.job = Reload
    BY <1>0, <1>a, <1>5, <2>1 DEF CompareMtime, NoCall, Call, CallShape
  <2> QED
    BY <1>0, <1>a, <2>1, <2>2 DEF CallShape
<1>6. ASSUME NEW t \in Task, ReadAndApply(t) PROVE \A k \in Task : CallShape(k)'
  BY <1>0, <1>a, <1>6 DEF ReadAndApply, CallShape
<1>7. ASSUME NEW t \in Task, WriteTmp(t) PROVE \A k \in Task : CallShape(k)'
  BY <1>0, <1>a, <1>7 DEF WriteTmp, CallShape
<1>8. ASSUME NEW t \in Task, Rename(t) PROVE \A k \in Task : CallShape(k)'
  BY <1>0, <1>a, <1>8 DEF Rename, CallShape
<1>9. ASSUME NEW t \in Task, Fail(t) PROVE \A k \in Task : CallShape(k)'
  BY <1>0, <1>a, <1>9 DEF Fail, CallShape, NoCall
<1>10. ASSUME NEW t \in Task, LoadWritten(t) PROVE \A k \in Task : CallShape(k)'
  BY <1>0, <1>a, <1>10 DEF LoadWritten, CallShape, Hand, NoCall
<1>11. ASSUME NEW t \in Task, LoadForReload(t) PROVE \A k \in Task : CallShape(k)'
  BY <1>0, <1>a, <1>11 DEF LoadForReload, CallShape, Hand, NoCall
<1>12. ASSUME NEW t \in Task, SyncInstallId(t) PROVE \A k \in Task : CallShape(k)'
  BY <1>0, <1>a, <1>12 DEF SyncInstallId, CallShape, NoCall
<1>13. ASSUME NEW t \in Task, Install(t) PROVE \A k \in Task : CallShape(k)'
  BY <1>0, <1>a, <1>13 DEF Install, CallShape
<1>14. ASSUME NEW t \in Task, RecordMtime(t) PROVE \A k \in Task : CallShape(k)'
  BY <1>0, <1>a, <1>14 DEF RecordMtime, CallShape, NoCall
<1>15. ASSUME NEW t \in Task, BumpGeneration(t) PROVE \A k \in Task : CallShape(k)'
  BY <1>0, <1>a, <1>15 DEF BumpGeneration, CallShape, NoCall
<1>16. ASSUME NEW t \in Task, Cancel(t) PROVE \A k \in Task : CallShape(k)'
  <2>1. PICK c \in Call : /\ call' = [call EXCEPT ![t] = c]
                          /\ c = NoCall \/ c = [call[t] EXCEPT !.dropped = TRUE]
    BY <1>16, CancelEffect DEF IInv
  <2>2. \/ c.pc = "idle" /\ c.job = None
        \/ c.pc = call[t].pc /\ c.job = call[t].job
    BY <1>a, <2>1 DEF NoCall, Call
  <2> QED
    BY <1>0, <1>a, <2>1, <2>2 DEF CallShape
<1>17. ASSUME NEW p \in Process, Crash(p) PROVE \A k \in Task : CallShape(k)'
  BY <1>0, <1>a, <1>17 DEF Crash, CallShape, NoCall
<1>18. CASE UNCHANGED <<call, fileVars>>
  BY <1>0, <1>18 DEF CallShape
<1> QED
  BY <1>1, <1>2, <1>3, <1>4, <1>5, <1>6, <1>7, <1>8, <1>9, <1>10, <1>11, <1>12,
     <1>13, <1>14, <1>15, <1>16, <1>17, <1>18
  DEF Next, Progress, vars, LoadState, NewStore, Receive, Reread, NotifyChange

(* Only the holder of the exclusive lock renames, so a snapshot taken under*)
(* the lock stays current until unlock, and a rename makes every older     *)
(* stamp differ from the file's mtime.                                     *)
LEMMA DataShapeStep == ASSUME IInv, [Next]_vars PROVE \A k \in Task : DataShape(k)'
<1> USE StoreAssumption DEF fileVars, lockVars, procVars, feedVars, Blocking, Locked
<1>0. TypeOK /\ LockShape /\ \A k \in Task : CallShape(k) /\ DataShape(k)
  BY DEF IInv
<1>a. /\ call \in [Task -> Call] /\ mtime \in Nat
      /\ \A k \in Task : call[k].stamp \in Nat /\ Host[k] \in Process
  BY <1>0, CallFields DEF TypeOK
<1>1. ASSUME NEW t \in Task, NEW u \in Job, Mutate(t, u) PROVE \A k \in Task : DataShape(k)'
  BY <1>0, <1>a, <1>1 DEF Mutate, LockShape, CallShape, DataShape
<1>2. ASSUME NEW t \in Task, StatFile(t) PROVE \A k \in Task : DataShape(k)'
  BY <1>0, <1>a, <1>2 DEF StatFile, LockShape, CallShape, DataShape
<1>3. ASSUME NEW t \in Task, LockExclusive(t) PROVE \A k \in Task : DataShape(k)'
  BY <1>0, <1>a, <1>3 DEF LockExclusive, LockShape, CallShape, DataShape
<1>4. ASSUME NEW t \in Task, LockShared(t) PROVE \A k \in Task : DataShape(k)'
  BY <1>0, <1>a, <1>4 DEF LockShared, LockShape, CallShape, DataShape
<1>5. ASSUME NEW t \in Task, CompareMtime(t) PROVE \A k \in Task : DataShape(k)'
  <2>1. PICK c \in Call : /\ call' = [call EXCEPT ![t] = c]
                          /\ c = NoCall \/ c = [call[t] EXCEPT !.pc = "lock"]
    BY <1>0, <1>5, CompareEffect
  <2>2. c.pc \in {"idle", "lock"}
    BY <1>0, <2>1, CallFields DEF NoCall, Call
  <2> QED
    BY <1>0, <1>a, <1>5, <2>1, <2>2 DEF CompareMtime, DataShape
<1>6. ASSUME NEW t \in Task, ReadAndApply(t) PROVE \A k \in Task : DataShape(k)'
  BY <1>0, <1>a, <1>6 DEF ReadAndApply, LockShape, CallShape, DataShape
<1>7. ASSUME NEW t \in Task, WriteTmp(t) PROVE \A k \in Task : DataShape(k)'
  <2>1. tmp \in [Process -> AppState \cup {None}]
    BY <1>0 DEF TypeOK
  <2> QED
    BY <1>0, <1>a, <1>7, <2>1 DEF WriteTmp, LockShape, CallShape, DataShape
<1>8. ASSUME NEW t \in Task, Rename(t) PROVE \A k \in Task : DataShape(k)'
  BY <1>0, <1>a, <1>8 DEF Rename, LockShape, CallShape, DataShape
<1>9. ASSUME NEW t \in Task, Fail(t) PROVE \A k \in Task : DataShape(k)'
  BY <1>0, <1>a, <1>9 DEF Fail, LockShape, CallShape, DataShape, NoCall
<1>10. ASSUME NEW t \in Task, LoadWritten(t) PROVE \A k \in Task : DataShape(k)'
  BY <1>0, <1>a, <1>10 DEF LoadWritten, LockShape, CallShape, DataShape, Hand, NoCall
<1>11. ASSUME NEW t \in Task, LoadForReload(t) PROVE \A k \in Task : DataShape(k)'
  BY <1>0, <1>a, <1>11 DEF LoadForReload, LockShape, CallShape, DataShape, Hand, NoCall
<1>12. ASSUME NEW t \in Task, SyncInstallId(t) PROVE \A k \in Task : DataShape(k)'
  BY <1>0, <1>a, <1>12 DEF SyncInstallId, LockShape, CallShape, DataShape, NoCall
<1>13. ASSUME NEW t \in Task, Install(t) PROVE \A k \in Task : DataShape(k)'
  BY <1>0, <1>a, <1>13 DEF Install, LockShape, CallShape, DataShape
<1>14. ASSUME NEW t \in Task, RecordMtime(t) PROVE \A k \in Task : DataShape(k)'
  BY <1>0, <1>a, <1>14 DEF RecordMtime, LockShape, CallShape, DataShape, NoCall
<1>15. ASSUME NEW t \in Task, BumpGeneration(t) PROVE \A k \in Task : DataShape(k)'
  BY <1>0, <1>a, <1>15 DEF BumpGeneration, LockShape, CallShape, DataShape, NoCall
<1>16. ASSUME NEW t \in Task, Cancel(t) PROVE \A k \in Task : DataShape(k)'
  <2>1. PICK c \in Call : /\ call' = [call EXCEPT ![t] = c]
                          /\ c = NoCall \/ c = [call[t] EXCEPT !.dropped = TRUE]
    BY <1>16, CancelEffect DEF IInv
  <2>2. \/ c.pc = "idle"
        \/ /\ c.pc = call[t].pc /\ c.job = call[t].job
           /\ c.snap = call[t].snap /\ c.stamp = call[t].stamp
    BY <1>a, <2>1 DEF NoCall, Call
  <2> QED
    BY <1>0, <1>a, <1>16, <2>1, <2>2 DEF Cancel, DataShape
<1>17. ASSUME NEW p \in Process, Crash(p) PROVE \A k \in Task : DataShape(k)'
  BY <1>0, <1>a, <1>17 DEF Crash, LockShape, CallShape, DataShape, NoCall
<1>18. CASE UNCHANGED <<call, fileVars>>
  BY <1>0, <1>18 DEF LockShape, CallShape, DataShape
<1> QED
  BY <1>1, <1>2, <1>3, <1>4, <1>5, <1>6, <1>7, <1>8, <1>9, <1>10, <1>11, <1>12,
     <1>13, <1>14, <1>15, <1>16, <1>17, <1>18
  DEF Next, Progress, vars, LoadState, NewStore, Receive, Reread, NotifyChange

-----------------------------------------------------------------------------
LEMMA InitIInv == Init => IInv
<1> SUFFICES ASSUME Init PROVE IInv
  OBVIOUS
<1>1. LockShape
  BY StoreAssumption DEF Init, LockShape, NoCall, Locked, Blocking
<1>2. \A t \in Task : CallShape(t) /\ DataShape(t)
  BY DEF Init, CallShape, DataShape, NoCall
<1> QED
  BY <1>1, <1>2, InitTypeOK DEF IInv

LEMMA StepIInv == IInv /\ [Next]_vars => IInv'
  BY TypeStep, LockStep, CallShapeStep, DataShapeStep DEF IInv

(* The inductive invariant: typing, who holds the flock, and what the flock*)
(* protects, in every reachable state.                                     *)
THEOREM Invariance == Spec => []IInv
  BY InitIInv, StepIInv, PTL DEF Spec

(* Every reachable state is well typed; in particular the file is never    *)
(* replaced by a temporary file that was not written.                      *)
THEOREM TypeCorrect == Spec => []TypeOK
<1>1. IInv => TypeOK
  BY DEF IInv
<1> QED
  BY <1>1, Invariance, PTL

(* A snapshot that carries the file's current mtime is its current content.*)
THEOREM SnapshotsMatchStamps == Spec => []StampedSnapshot
<1>1. IInv => StampedSnapshot
  BY DEF IInv, DataShape, StampedSnapshot
<1> QED
  BY <1>1, Invariance, PTL

(* Only a rename changes the file, and it writes what the closure made of  *)
(* the file's content at that moment.                                      *)
LEMMA DiskChange ==
  ASSUME IInv, [Next]_vars
  PROVE  \/ disk' = disk
         \/ \E t \in Task : Rename(t) /\ disk' = Apply(disk, call[t].job)
<1> USE DEF fileVars, lockVars, procVars, feedVars
<1>1. ASSUME NEW t \in Task, Rename(t)
      PROVE  disk' = Apply(disk, call[t].job)
  BY <1>1 DEF Rename, IInv, DataShape
<1> QED
  BY <1>1 DEF Next, Progress, vars, Mutate, StatFile, LockExclusive, LockShared,
     CompareMtime, ReadAndApply, WriteTmp, Fail, LoadWritten, LoadForReload,
     SyncInstallId, Install, RecordMtime, BumpGeneration, Cancel, LoadState,
     NewStore, Crash, Receive, Reread, NotifyChange

(* A persisted install id is never replaced.                               *)
THEOREM InstallIdIsStable == Spec => InstallIdStable
<1>1. ASSUME IInv, [Next]_vars, disk[InstallId] # Unset
      PROVE  disk'[InstallId] = disk[InstallId]
  <2>1. CASE disk' = disk
    BY <2>1
  <2>2. ASSUME NEW t \in Task, Rename(t), disk' = Apply(disk, call[t].job)
        PROVE  disk'[InstallId] = disk[InstallId]
    BY <1>1, <2>2, FieldAssumption DEF Apply, IInv, TypeOK, AppState
  <2> QED
    BY <1>1, <2>1, <2>2, DiskChange
<1>2. IInv /\ [Next]_vars
      => [disk[InstallId] # Unset => disk'[InstallId] = disk[InstallId]]_vars
  BY <1>1
<1> QED
  BY <1>2, Invariance, PTL DEF Spec, InstallIdStable
-----------------------------------------------------------------------------
(* How a change of one call record looks to the atomic specification.      *)
AbstractPhase == [k \in Task |-> Phase(call[k])]
AbstractWant == [k \in Task |-> Wanted(call[k])]

LEMMA AbstractEdit ==
  ASSUME call \in [Task -> Call], NEW t \in Task, NEW c \in Call,
         call' = [call EXCEPT ![t] = c]
  PROVE  /\ AbstractPhase' = [AbstractPhase EXCEPT ![t] = Phase(c)]
         /\ AbstractWant' = [AbstractWant EXCEPT ![t] = Wanted(c)]
  BY DEF AbstractPhase, AbstractWant

(* A step that edits one call without changing its phase or its job, and   *)
(* leaves the file alone, is a stutter.                                    *)
LEMMA Stutter ==
  ASSUME call \in [Task -> Call], NEW t \in Task, NEW c \in Call,
         call' = [call EXCEPT ![t] = c], disk' = disk,
         Phase(c) = Phase(call[t]), Wanted(c) = Wanted(call[t])
  PROVE  UNCHANGED Shared!vars
<1>1. AbstractPhase' = AbstractPhase /\ AbstractWant' = AbstractWant
  BY AbstractEdit DEF AbstractPhase, AbstractWant
<1> QED
  BY <1>1 DEF Shared!vars, AbstractPhase, AbstractWant

(* Ending a call: a refusal while pending, an acknowledgement once         *)
(* committed, nothing for a reload.                                        *)
LEMMA EndsCall ==
  ASSUME call \in [Task -> Call], NEW t \in Task, disk' = disk,
         call' = [call EXCEPT ![t] = NoCall]
  PROVE  [Shared!Next]_(Shared!vars)
<1>1. /\ AbstractPhase' = [AbstractPhase EXCEPT ![t] = "idle"]
      /\ AbstractWant' = [AbstractWant EXCEPT ![t] = None]
  BY AbstractEdit, NoCallType, StoreAssumption DEF NoCall, Phase, Wanted
<1>2. CASE Phase(call[t]) = "idle"
  BY <1>2, Stutter, NoCallType, StoreAssumption DEF NoCall, Phase, Wanted
<1>3. CASE Phase(call[t]) = "pending"
  BY <1>1, <1>3 DEF Shared!Next, Shared!Refuse, AbstractPhase, AbstractWant
<1>4. CASE Phase(call[t]) = "committed"
  BY <1>1, <1>4 DEF Shared!Next, Shared!Acknowledge, AbstractPhase, AbstractWant
<1> QED
  BY <1>2, <1>3, <1>4 DEF Phase

(* The commit point: a pending call becomes committed as its update lands. *)
LEMMA Commits ==
  ASSUME call \in [Task -> Call], NEW t \in Task, NEW c \in Call,
         call' = [call EXCEPT ![t] = c], call[t].job \in Job,
         c.job = call[t].job, Phase(call[t]) = "pending", Phase(c) = "committed",
         disk' = Apply(disk, call[t].job)
  PROVE  Shared!Next
<1>1. /\ AbstractPhase' = [AbstractPhase EXCEPT ![t] = "committed"]
      /\ AbstractWant' = AbstractWant
  BY AbstractEdit DEF Wanted, AbstractWant
<1>2. Wanted(call[t]) = call[t].job
  BY DEF Wanted
<1>3. disk' = Shared!Apply(disk, AbstractWant[t])
  BY <1>2 DEF Apply, Shared!Apply, AbstractWant
<1>4. Shared!Commit(t)
  BY <1>1, <1>3 DEF Shared!Commit, AbstractPhase, AbstractWant
<1> QED
  BY <1>4 DEF Shared!Next

(* Every step of the store is a step of the atomic value or a stutter.     *)
LEMMA StepRefines == ASSUME IInv, [Next]_vars PROVE [Shared!Next]_(Shared!vars)
<1> USE StoreAssumption DEF fileVars, lockVars, procVars, feedVars
<1>0. TypeOK /\ \A k \in Task : CallShape(k) /\ DataShape(k)
  BY DEF IInv
<1>a. call \in [Task -> Call] /\ NoCall \in Call /\ mtime \in Nat
  BY <1>0, NoCallType DEF TypeOK
<1>b. NoCall.job = None /\ NoCall.pc = "idle"
  BY DEF NoCall
<1>1. ASSUME NEW t \in Task, NEW u \in Job, Mutate(t, u)
      PROVE  [Shared!Next]_(Shared!vars)
  <2> DEFINE c == [call[t] EXCEPT !.pc = "lock", !.job = u]
  <2>1. c \in Call /\ c.pc = "lock" /\ c.job = u /\ call[t].job = None
    BY <1>0, <1>1, <1>a, BeginType DEF Mutate, CallShape, Call
  <2>2. call' = [call EXCEPT ![t] = c] /\ disk' = disk
    BY <1>1 DEF Mutate
  <2>3. Phase(c) = "pending" /\ Wanted(c) = u /\ Phase(call[t]) = "idle"
    BY <2>1 DEF Phase, Wanted
  <2>4. /\ AbstractPhase' = [AbstractPhase EXCEPT ![t] = "pending"]
        /\ AbstractWant' = [AbstractWant EXCEPT ![t] = u]
    BY <1>a, <2>1, <2>2, <2>3, AbstractEdit, ZenonT(30)
  <2>5. Shared!Invoke(t)
    BY <2>2, <2>3, <2>4 DEF Shared!Invoke, AbstractPhase, AbstractWant, Update, Shared!Update
  <2> QED
    BY <2>5 DEF Shared!Next
<1>2. ASSUME NEW t \in Task, NEW c \in Call, call' = [call EXCEPT ![t] = c],
             c.job = call[t].job, disk' = disk, Phase(c) = Phase(call[t])
      PROVE  [Shared!Next]_(Shared!vars)
  BY <1>2, <1>a, Stutter DEF Wanted
<1>3. ASSUME NEW t \in Task, StatFile(t) PROVE [Shared!Next]_(Shared!vars)
  <2> DEFINE c == [call[t] EXCEPT !.pc = "compare", !.job = Reload, !.stamp = mtime]
  <2>1. c \in Call /\ c.job = Reload /\ call[t].job = None
    <3>1. call[t] \in Call
      BY <1>a
    <3> QED
      BY <1>0, <1>3, <1>a, <3>1, StoreAssumption DEF StatFile, CallShape, Call, Place
  <2>2. call' = [call EXCEPT ![t] = c] /\ disk' = disk
    BY <1>3 DEF StatFile
  <2>3. Phase(c) = Phase(call[t]) /\ Wanted(c) = Wanted(call[t])
    BY <2>1 DEF Phase, Wanted
  <2> QED
    BY <1>a, <2>1, <2>2, <2>3, Stutter
<1>4. ASSUME NEW t \in Task, CompareMtime(t) PROVE [Shared!Next]_(Shared!vars)
  <2>1. PICK c \in Call : /\ call' = [call EXCEPT ![t] = c]
                          /\ c = NoCall \/ c = [call[t] EXCEPT !.pc = "lock"]
    BY <1>0, <1>4, CompareEffect
  <2>2. disk' = disk /\ call[t].job = Reload
    BY <1>0, <1>4 DEF CompareMtime, CallShape
  <2>3. CASE c = [call[t] EXCEPT !.pc = "lock"]
    <3>1. c.job = Reload
      BY <1>a, <2>2, <2>3 DEF Call
    <3> QED
      BY <1>2, <2>1, <2>2, <3>1 DEF Phase
  <2> QED
    BY <1>a, <2>1, <2>2, <2>3, EndsCall
<1>5. ASSUME NEW t \in Task, LockExclusive(t) \/ LockShared(t)
      PROVE  [Shared!Next]_(Shared!vars)
  <2> DEFINE c == [call[t] EXCEPT !.pc = "read"]
  <2>1. c \in Call /\ c.pc = "read" /\ c.job = call[t].job
    BY <1>a, MoveType DEF Place, Blocking
  <2>2. call' = [call EXCEPT ![t] = c] /\ disk' = disk /\ call[t].pc = "lock"
    BY <1>5 DEF LockExclusive, LockShared
  <2>3. Phase(c) = Phase(call[t])
    BY <2>1, <2>2 DEF Phase
  <2> QED
    BY <1>2, <2>1, <2>2, <2>3
<1>6. ASSUME NEW t \in Task, ReadAndApply(t) PROVE [Shared!Next]_(Shared!vars)
  <2> DEFINE after == Apply(disk, call[t].job)
             created == mtime = 0 /\ ~IsInstallId(t)
             place == IF created \/ after # disk THEN "write" ELSE "loaded"
             c == [call[t] EXCEPT !.snap = after, !.news = created, !.pc = place]
  <2>1. call[t].job \in Job /\ call[t].pc = "read"
    BY <1>0, <1>6 DEF ReadAndApply, CallShape
  <2>2. after \in AppState
    BY <1>0, <2>1, ApplyType DEF TypeOK
  <2>3. c \in Call /\ c.pc = place /\ c.job = call[t].job
    <3>1. call[t] \in Call /\ created \in BOOLEAN /\ place \in Place
      BY <1>a DEF Place, Blocking, IsInstallId
    <3> HIDE DEF after, created, place
    <3> QED
      BY <2>2, <3>1 DEF Call
  <2>4. call' = [call EXCEPT ![t] = c] /\ disk' = disk
    BY <1>6 DEF ReadAndApply
  <2>5. CASE place = "write"
    <3>1. Phase(c) = Phase(call[t])
      BY <2>1, <2>3, <2>5 DEF Phase
    <3> QED
      BY <1>2, <2>3, <2>4, <3>1
  <2>6. CASE place = "loaded"
    <3>1. disk' = after
      BY <2>4, <2>6
    <3>2. Phase(call[t]) = "pending" /\ Phase(c) = "committed"
      BY <2>1, <2>3, <2>6 DEF Phase
    <3> HIDE DEF c
    <3> QED
      BY <1>a, <2>1, <2>3, <2>4, <3>1, <3>2, Commits
  <2> QED
    BY <2>5, <2>6
<1>7. ASSUME NEW t \in Task, WriteTmp(t) PROVE [Shared!Next]_(Shared!vars)
  <2> DEFINE c == [call[t] EXCEPT !.pc = "rename"]
  <2>1. c \in Call /\ c.pc = "rename" /\ c.job = call[t].job
    BY <1>a, MoveType DEF Place, Blocking
  <2>2. call' = [call EXCEPT ![t] = c] /\ disk' = disk /\ call[t].pc = "write"
    BY <1>7 DEF WriteTmp
  <2>3. Phase(c) = Phase(call[t])
    BY <2>1, <2>2 DEF Phase
  <2> QED
    BY <1>2, <2>1, <2>2, <2>3
<1>8. ASSUME NEW t \in Task, Rename(t) PROVE [Shared!Next]_(Shared!vars)
  <2> DEFINE c == [call[t] EXCEPT !.pc = "loaded"]
  <2>1. c \in Call /\ c.pc = "loaded" /\ c.job = call[t].job
    BY <1>a, MoveType DEF Place, Blocking
  <2>2. call' = [call EXCEPT ![t] = c] /\ call[t].pc = "rename"
    BY <1>8 DEF Rename
  <2>3. call[t].job \in Job /\ disk' = Apply(disk, call[t].job)
    BY <1>0, <1>8 DEF Rename, CallShape, DataShape
  <2>4. Phase(call[t]) = "pending" /\ Phase(c) = "committed"
    BY <2>1, <2>2, <2>3 DEF Phase
  <2> HIDE DEF c
  <2> QED
    BY <1>a, <2>1, <2>2, <2>3, <2>4, Commits
<1>9. ASSUME NEW t \in Task, Fail(t) \/ SyncInstallId(t) \/ BumpGeneration(t)
      PROVE  [Shared!Next]_(Shared!vars)
  BY <1>9, <1>a, EndsCall DEF Fail, SyncInstallId, BumpGeneration
<1>10. ASSUME NEW t \in Task, LoadWritten(t) PROVE [Shared!Next]_(Shared!vars)
  <2> DEFINE c == [call[t] EXCEPT !.pc = "install", !.stamp = mtime]
  <2>1. c \in Call /\ c.pc = "install" /\ c.job = call[t].job
    BY <1>a, LoadEditType, NewStateType
  <2>2. disk' = disk /\ call[t].pc = "loaded"
    BY <1>10 DEF LoadWritten
  <2>3. CASE call' = [call EXCEPT ![t] = c]
    <3>1. Phase(c) = Phase(call[t])
      BY <2>1, <2>2 DEF Phase
    <3> QED
      BY <1>2, <2>1, <2>2, <2>3, <3>1
  <2>4. CASE call' = [call EXCEPT ![t] = NoCall]
    BY <1>a, <2>2, <2>4, EndsCall
  <2> QED
    BY <1>10, <2>3, <2>4 DEF LoadWritten, Hand
<1>11. ASSUME NEW t \in Task, LoadForReload(t) PROVE [Shared!Next]_(Shared!vars)
  <2> DEFINE c == [call[t] EXCEPT !.pc = "install", !.snap = disk, !.stamp = mtime]
  <2>0. call[t] \in Call /\ disk \in AppState
    BY <1>0, <1>a DEF TypeOK
  <2>1. c \in Call /\ c.job = call[t].job
    BY <2>0, <1>a, LoadEditType DEF Call
  <2>2. disk' = disk /\ call[t].job = Reload
    BY <1>11 DEF LoadForReload
  <2>3. CASE call' = [call EXCEPT ![t] = c]
    <3>1. Phase(c) = Phase(call[t])
      BY <2>1, <2>2 DEF Phase
    <3> QED
      BY <1>2, <2>1, <2>2, <2>3, <3>1
  <2>4. CASE call' = [call EXCEPT ![t] = NoCall]
    BY <1>a, <2>2, <2>4, EndsCall
  <2> QED
    BY <1>11, <2>3, <2>4 DEF LoadForReload, Hand
<1>12. ASSUME NEW t \in Task, Install(t) PROVE [Shared!Next]_(Shared!vars)
  <2>1. PICK b \in BOOLEAN :
          call' = [call EXCEPT ![t] = [call[t] EXCEPT !.pc = "stamp", !.news = b]]
    BY <1>12 DEF Install
  <2> DEFINE c == [call[t] EXCEPT !.pc = "stamp", !.news = b]
  <2>2. c \in Call /\ c.pc = "stamp" /\ c.job = call[t].job
    BY <1>a DEF Call, Place
  <2>3. disk' = disk /\ call[t].pc = "install"
    BY <1>12 DEF Install
  <2>4. Phase(c) = Phase(call[t])
    BY <2>2, <2>3 DEF Phase
  <2> QED
    BY <1>2, <2>1, <2>2, <2>3, <2>4
<1>13. ASSUME NEW t \in Task, RecordMtime(t) PROVE [Shared!Next]_(Shared!vars)
  <2> DEFINE c == [call[t] EXCEPT !.pc = "bump"]
  <2>1. c \in Call /\ c.pc = "bump" /\ c.job = call[t].job
    BY <1>a, MoveType DEF Place
  <2>2. disk' = disk /\ call[t].pc = "stamp"
    BY <1>13 DEF RecordMtime
  <2>3. CASE call' = [call EXCEPT ![t] = c]
    <3>1. Phase(c) = Phase(call[t])
      BY <2>1, <2>2 DEF Phase
    <3> QED
      BY <1>2, <2>1, <2>2, <2>3, <3>1
  <2>4. CASE call' = [call EXCEPT ![t] = NoCall]
    BY <1>a, <2>2, <2>4, EndsCall
  <2> QED
    BY <1>13, <2>3, <2>4 DEF RecordMtime
<1>14. ASSUME NEW t \in Task, Cancel(t) PROVE [Shared!Next]_(Shared!vars)
  <2>1. PICK c \in Call : /\ call' = [call EXCEPT ![t] = c]
                          /\ c = NoCall \/ c = [call[t] EXCEPT !.dropped = TRUE]
    BY <1>0, <1>14, CancelEffect
  <2>2. disk' = disk
    BY <1>14 DEF Cancel
  <2>3. CASE c = [call[t] EXCEPT !.dropped = TRUE]
    <3>1. c.job = call[t].job /\ c.pc = call[t].pc
      BY <1>a, <2>3 DEF Call
    <3> QED
      BY <1>2, <2>1, <2>2, <3>1 DEF Phase
  <2> QED
    BY <1>a, <2>1, <2>2, <2>3, EndsCall
<1>15. ASSUME NEW p \in Process, Crash(p) PROVE [Shared!Next]_(Shared!vars)
  <2> DEFINE T == {t \in Task : Host[t] = p /\ Phase(call[t]) # "idle"}
  <2>1. /\ AbstractPhase' = [t \in Task |-> IF t \in T THEN "idle" ELSE AbstractPhase[t]]
        /\ AbstractWant' = [t \in Task |-> IF t \in T THEN None ELSE AbstractWant[t]]
    BY <1>15, <1>b DEF Crash, AbstractPhase, AbstractWant, Phase, Wanted
  <2>2. Shared!Crash(T)
    BY <1>15, <2>1 DEF Crash, Shared!Crash, AbstractPhase, AbstractWant
  <2>3. T \in SUBSET Shared!InFlight
    BY DEF Shared!InFlight
  <2> QED
    BY <2>2, <2>3 DEF Shared!Next
<1>16. CASE UNCHANGED <<call, disk>>
  BY <1>16 DEF Shared!vars
<1> QED
  BY <1>1, <1>3, <1>4, <1>5, <1>6, <1>7, <1>8, <1>9, <1>10, <1>11, <1>12, <1>13,
     <1>14, <1>15, <1>16
  DEF Next, Progress, vars, LoadState, NewStore, Receive, Reread, NotifyChange

(* The store implements the atomic shared value: for any number of         *)
(* processes and tasks, with crashes, failures and cancelled callers, no   *)
(* update is lost and no refused one is applied.                           *)
THEOREM StoreIsLinearizable == Spec => Linearizable
<1>1. Init => Shared!Init
  BY StoreAssumption DEF Init, Shared!Init, NoCall, Phase, Wanted, NewState, Shared!NewState
<1>2. IInv /\ [Next]_vars => [Shared!Next]_(Shared!vars)
  BY StepRefines
<1> QED
  BY <1>1, <1>2, Invariance, PTL DEF Spec, Linearizable, Shared!Spec
-----------------------------------------------------------------------------
(* The change feed, for any number of processes and tasks: a comparison    *)
(* under the cache's lock is enough not to lose a wakeup, as long as no    *)
(* caller that may go away writes where somebody listens.                  *)

(* The view that is kept beside the cache, to compare the next snapshot    *)
(* with, is the cache's.                                                   *)
ViewsKept == \A p \in Process : visible[p] # None => visible[p] = ClientVisible(cache[p])

WakeInv == ViewsKept /\ NoLostWakeup

(* A step that gives one call another record lets a wakeup it owes stay    *)
(* owed.                                                                   *)
Owes(c) == c.news /\ c.pc \in {"stamp", "bump"}

LEMMA StillOwed ==
  ASSUME TypeOK, NEW t \in Task, NEW c, call' = [call EXCEPT ![t] = c],
         Owes(call[t]) => Owes(c), NEW p \in Process, BumpDue(p)
  PROVE  BumpDue(p)'
<1>1. PICK k \in Task : Host[k] = p /\ Owes(call[k])
  BY DEF BumpDue, Owes
<1>2. Owes(call'[k])
  BY <1>1 DEF TypeOK
<1> QED  BY <1>1, <1>2 DEF BumpDue, Owes

(* A step that changes nothing of a process but may add to what is owed.   *)
LEMMA NothingSeen ==
  ASSUME WakeInv, UNCHANGED <<up, cache, visible, feedVars>>,
         \A p \in Process : BumpDue(p) => BumpDue(p)'
  PROVE  WakeInv'
  BY StoreAssumption DEF WakeInv, ViewsKept, NoLostWakeup, feedVars

LEMMA CallMoves ==
  ASSUME TypeOK, WakeInv, UNCHANGED <<up, cache, visible, feedVars>>,
         NEW t \in Task, NEW c, call' = [call EXCEPT ![t] = c], Owes(call[t]) => Owes(c)
  PROVE  WakeInv'
  BY StillOwed, NothingSeen

(* What a client can see is in the view the snapshots are compared by.     *)
LEMMA SameViewSameRendering ==
  ASSUME NEW s, NEW r, ClientVisible(s) = ClientVisible(r)
  PROVE  Rendered(s) = Rendered(r)
<1>1. \A f \in Field \ Hidden : s[f] = r[f]
  <2> SUFFICES ASSUME NEW f \in Field \ Hidden PROVE s[f] = r[f]
    OBVIOUS
  <2> QED  BY DEF ClientVisible
<1> QED  BY <1>1 DEF Rendered

LEMMA InstallWakes == ASSUME TypeOK, WakeInv, NEW t \in Task, Install(t) PROVE WakeInv'
<1> DEFINE p == Host[t]
           current == IF visible[p] = None THEN ClientVisible(cache[p]) ELSE visible[p]
           new == ClientVisible(call[t].snap)
           c == [call[t] EXCEPT !.pc = "stamp", !.news = call[t].news \/ current # new]
<1>1. /\ call[t].pc = "install" /\ p \in Process /\ call[t] \in Call
      /\ cache' = [cache EXCEPT ![p] = call[t].snap]
      /\ visible' = [visible EXCEPT ![p] = new]
      /\ call' = [call EXCEPT ![t] = c]
      /\ UNCHANGED <<up, feedVars>>
  BY CallFields DEF Install
<1>2. c.pc = "stamp" /\ (c.news <=> (call[t].news \/ current # new))
  BY <1>1 DEF Call
<1>3. current = ClientVisible(cache[p])
  BY <1>1 DEF WakeInv, ViewsKept
<1>4. \A q \in Process : /\ cache'[q] = IF q = p THEN call[t].snap ELSE cache[q]
                         /\ visible'[q] = IF q = p THEN new ELSE visible[q]
  BY <1>1 DEF TypeOK
<1>5. call'[t] = c
  BY <1>1 DEF TypeOK
<1>6. ~Owes(call[t])
  BY <1>1 DEF Owes
<1> HIDE DEF c, current
<1>7. \A q \in Process : BumpDue(q) => BumpDue(q)'
  BY <1>1, <1>6, StillOwed
<1>8. ViewsKept'
  BY <1>4 DEF WakeInv, ViewsKept
<1>9. ASSUME NEW q \in Process, q \in Subscribed, up[q] = "up"
      PROVE  \/ Rendered(seen[q]) = Rendered(cache'[q])
             \/ woken[q] \/ feed[q] = "reading" \/ BumpDue(q)'
  <2>1. \/ Rendered(seen[q]) = Rendered(cache[q])
        \/ woken[q] \/ feed[q] = "reading" \/ BumpDue(q)
    BY <1>9 DEF WakeInv, NoLostWakeup
  <2>2. CASE q # p
    BY <1>4, <1>7, <2>1, <2>2
  <2>3. CASE q = p /\ current = new
    <3>1. Rendered(cache[q]) = Rendered(cache'[q])
      BY <1>3, <1>4, <2>3, SameViewSameRendering
    <3> QED  BY <1>7, <2>1, <3>1
  <2>4. CASE q = p /\ current # new
    BY <1>2, <1>5, <2>4 DEF BumpDue
  <2> QED  BY <2>2, <2>3, <2>4
<1> QED  BY <1>1, <1>8, <1>9, StoreAssumption DEF WakeInv, NoLostWakeup, feedVars

(* The install id is not rendered, and the memoised view is forgotten.     *)
LEMMA SyncWakes == ASSUME TypeOK, WakeInv, NEW t \in Task, SyncInstallId(t) PROVE WakeInv'
<1> DEFINE p == Host[t]
<1>1. /\ call[t].pc = "loaded" /\ p \in Process /\ call' = [call EXCEPT ![t] = NoCall]
      /\ UNCHANGED <<up, feedVars>>
  BY CallFields DEF SyncInstallId
<1>2. ~Owes(call[t])
  BY <1>1 DEF Owes
<1>3. CASE UNCHANGED <<cache, visible>>
  BY <1>1, <1>2, <1>3, CallMoves
<1>4. CASE /\ cache' = [cache EXCEPT ![p][InstallId] = call[t].snap[InstallId]]
           /\ visible' = [visible EXCEPT ![p] = None]
  <2>1. \A q \in Process : BumpDue(q) => BumpDue(q)'
    BY <1>1, <1>2, StillOwed
  <2>2. ViewsKept'
    BY <1>1, <1>4 DEF WakeInv, ViewsKept, TypeOK
  <2>3. \A q \in Process : \A f \in Field \ (Hidden \cup {InstallId}) :
           cache'[q][f] = cache[q][f]
    BY <1>1, <1>4 DEF TypeOK, AppState
  <2>4. \A q \in Process : Rendered(cache'[q]) = Rendered(cache[q])
    BY <2>3 DEF Rendered
  <2> QED  BY <1>1, <2>1, <2>2, <2>4, StoreAssumption DEF WakeInv, NoLostWakeup, feedVars
<1> QED  BY <1>3, <1>4 DEF SyncInstallId

(* The bump is when the debt becomes a wakeup.                             *)
LEMMA BumpWakes == ASSUME TypeOK, WakeInv, NEW t \in Task, BumpGeneration(t) PROVE WakeInv'
<1>1. /\ call' = [call EXCEPT ![t] = NoCall] /\ Host[t] \in Process
      /\ woken' = [woken EXCEPT ![Host[t]] = Host[t] \in Subscribed]
      /\ UNCHANGED <<up, cache, visible, feed, seen>>
  BY CallFields DEF BumpGeneration, procVars
<1>2. ViewsKept'
  BY <1>1 DEF WakeInv, ViewsKept
<1>3. ASSUME NEW q \in Process, q \in Subscribed, up[q] = "up"
      PROVE  \/ Rendered(seen[q]) = Rendered(cache[q])
             \/ woken'[q] \/ feed[q] = "reading" \/ BumpDue(q)'
  <2>1. CASE q = Host[t]
    BY <1>1, <1>3, <2>1 DEF TypeOK
  <2>2. CASE q # Host[t]
    <3>1. woken'[q] = woken[q]
      BY <1>1, <2>2 DEF TypeOK
    <3>2. BumpDue(q) => BumpDue(q)'
      BY <1>1, <2>2 DEF BumpDue, TypeOK
    <3> QED  BY <1>3, <3>1, <3>2 DEF WakeInv, NoLostWakeup
  <2> QED  BY <2>1, <2>2
<1> QED  BY <1>1, <1>2, <1>3, StoreAssumption DEF WakeInv, NoLostWakeup

(* The subscriber's own steps.                                             *)
LEMMA SubscriberWakes ==
  ASSUME TypeOK, WakeInv, NEW p \in Process, Receive(p) \/ Reread(p) \/ NotifyChange(p)
  PROVE  WakeInv'
<1>1. UNCHANGED <<up, cache, visible, call>>
  BY DEF Receive, Reread, NotifyChange, procVars
<1>2. ViewsKept'
  BY <1>1 DEF WakeInv, ViewsKept
<1>3. \A q \in Process : BumpDue(q)' <=> BumpDue(q)
  BY <1>1 DEF BumpDue
<1>4. CASE Receive(p)
  BY <1>1, <1>2, <1>3, <1>4, StoreAssumption DEF Receive, WakeInv, NoLostWakeup, TypeOK
<1>5. CASE Reread(p)
  BY <1>1, <1>2, <1>3, <1>5, StoreAssumption DEF Reread, WakeInv, NoLostWakeup, TypeOK
<1>6. CASE NotifyChange(p)
  BY <1>1, <1>2, <1>3, <1>6, StoreAssumption DEF NotifyChange, WakeInv, NoLostWakeup, TypeOK
<1> QED  BY <1>4, <1>5, <1>6

(* A process starts with nothing unread, and dies with nobody listening.   *)
LEMMA ProcessWakes ==
  ASSUME TypeOK, WakeInv, NEW p \in Process, LoadState(p) \/ NewStore(p) \/ Crash(p)
  PROVE  WakeInv'
<1>1. CASE LoadState(p)
  <2>1. \A q \in Process : BumpDue(q)' <=> BumpDue(q)
    BY <1>1 DEF LoadState, BumpDue
  <2>2. ViewsKept'
    BY <1>1 DEF LoadState, WakeInv, ViewsKept, TypeOK
  <2> QED
    BY <1>1, <2>1, <2>2, StoreAssumption DEF LoadState, WakeInv, NoLostWakeup, TypeOK, feedVars
<1>2. CASE NewStore(p)
  <2>1. \A q \in Process : BumpDue(q)' <=> BumpDue(q)
    BY <1>2 DEF NewStore, BumpDue
  <2>2. ViewsKept'
    BY <1>2 DEF NewStore, WakeInv, ViewsKept
  <2> QED
    BY <1>2, <2>1, <2>2, StoreAssumption DEF NewStore, WakeInv, NoLostWakeup, TypeOK
<1>3. CASE Crash(p)
  <2>1. \A q \in Process \ {p} : BumpDue(q) => BumpDue(q)'
    BY <1>3 DEF Crash, BumpDue
  <2>2. ViewsKept'
    BY <1>3 DEF Crash, WakeInv, ViewsKept
  <2> QED
    BY <1>3, <2>1, <2>2, StoreAssumption DEF Crash, WakeInv, NoLostWakeup, TypeOK, feedVars
<1> QED  BY <1>1, <1>2, <1>3

(* A caller that goes away may owe a wakeup, but to nobody.                *)
NobodyListensToThem == \A t \in Cancellable : Host[t] \notin Subscribed

LEMMA CancelWakes ==
  ASSUME NobodyListensToThem, TypeOK, WakeInv, NEW t \in Task, Cancel(t)
  PROVE  WakeInv'
<1>1. /\ Host[t] \notin Subscribed /\ UNCHANGED <<up, cache, visible, feedVars>>
      /\ \A k \in Task \ {t} : call'[k] = call[k]
  BY DEF Cancel, NobodyListensToThem, procVars, TypeOK
<1>2. \A p \in Subscribed : BumpDue(p) => BumpDue(p)'
  BY <1>1 DEF BumpDue
<1> QED  BY <1>1, <1>2 DEF WakeInv, ViewsKept, NoLostWakeup, feedVars

LEMMA WakeStep == ASSUME NobodyListensToThem, IInv, WakeInv, [Next]_vars PROVE WakeInv'
<1> USE DEF procVars
<1>0. TypeOK
  BY DEF IInv
<1>1. ASSUME NEW t \in Task, NEW u \in Job, Mutate(t, u) PROVE WakeInv'
  BY <1>0, <1>1, CallMoves DEF Mutate, Owes
<1>2. ASSUME NEW t \in Task, StatFile(t) PROVE WakeInv'
  BY <1>0, <1>2, CallMoves DEF StatFile, Owes
<1>3. ASSUME NEW t \in Task, CompareMtime(t) PROVE WakeInv'
  <2>1. PICK c \in Call : call' = [call EXCEPT ![t] = c]
    BY <1>0, <1>3, CompareEffect
  <2> QED  BY <1>0, <1>3, <2>1, CallMoves DEF CompareMtime, Owes
<1>4. ASSUME NEW t \in Task, LockExclusive(t) \/ LockShared(t) PROVE WakeInv'
  BY <1>0, <1>4, CallMoves DEF LockExclusive, LockShared, Owes
<1>5. ASSUME NEW t \in Task, ReadAndApply(t) PROVE WakeInv'
  BY <1>0, <1>5, CallMoves DEF ReadAndApply, Owes
<1>6. ASSUME NEW t \in Task, WriteTmp(t) \/ Rename(t) PROVE WakeInv'
  BY <1>0, <1>6, CallMoves DEF WriteTmp, Rename, Owes
<1>7. ASSUME NEW t \in Task, LoadWritten(t) \/ LoadForReload(t) PROVE WakeInv'
  BY <1>0, <1>7, CallMoves DEF LoadWritten, LoadForReload, Owes
<1>8. ASSUME NEW t \in Task, Fail(t) PROVE WakeInv'
  BY <1>0, <1>8, CallMoves DEF Fail, Owes
<1>9. ASSUME NEW t \in Task, RecordMtime(t) PROVE WakeInv'
  <2>1. CASE call[t].news
    <3>1. Owes([call[t] EXCEPT !.pc = "bump"])
      BY <1>0, <2>1, CallFields DEF Owes, Call
    <3> QED  BY <1>0, <1>9, <2>1, <3>1, CallMoves DEF RecordMtime
  <2>2. CASE ~call[t].news
    BY <1>0, <1>9, <2>2, CallMoves DEF RecordMtime, Owes
  <2> QED  BY <2>1, <2>2
<1>10. CASE UNCHANGED vars
  BY <1>10 DEF vars, feedVars, WakeInv, ViewsKept, NoLostWakeup, BumpDue
<1> QED
  BY <1>0, <1>1, <1>2, <1>3, <1>4, <1>5, <1>6, <1>7, <1>8, <1>9, <1>10, InstallWakes, SyncWakes,
     BumpWakes, SubscriberWakes, ProcessWakes, CancelWakes DEF Next, Progress

(* However calls of any number of processes and tasks overtake each other, *)
(* fail or die with their process: what a subscriber has not read of its   *)
(* cache, it is told of (install compares and bump_generation wakes), if   *)
(* its process has no caller whose future can be dropped.                  *)
THEOREM WakeupsArrive == ASSUME NobodyListensToThem PROVE Spec => []NoLostWakeup
<1>1. Init => WakeInv
  BY StoreAssumption DEF Init, WakeInv, ViewsKept, NoLostWakeup
<1>2. IInv /\ WakeInv /\ [Next]_vars => WakeInv'
  BY WakeStep
<1>3. WakeInv => NoLostWakeup
  BY DEF WakeInv
<1> QED  BY <1>1, <1>2, <1>3, Invariance, PTL DEF Spec
-----------------------------------------------------------------------------
(* With one call at a time in each instance, the recorded mtime lags       *)
(* behind the stamp that will replace it, which lags behind the file's;    *)
(* the cache is that of the stamp before its mtime is recorded, and the    *)
(* file's whenever the recorded mtime is.                                  *)
OneAtATime == \A t, k \in Task : Host[t] = Host[k] => t = k

TruthOf(p) ==
  up[p] = "up" =>
    /\ lastMtime[p] <= mtime
    /\ \A t \in Task : Host[t] = p =>
         /\ call[t].pc \in {"install", "stamp"} => lastMtime[p] <= call[t].stamp
         /\ call[t].pc = "stamp" => cache[p] = call[t].snap
    /\ lastMtime[p] = mtime => cache[p] = disk

TruthInv == \A p \in Process : up[p] # "loading" /\ TruthOf(p)

(* A call that stays out of these two places disturbs nothing.             *)
LEMMA ElsewhereTruth ==
  ASSUME IInv, TruthInv, NEW t \in Task, NEW c \in Call,
         call' = [call EXCEPT ![t] = c], c.pc \notin {"install", "stamp"},
         UNCHANGED <<disk, mtime, up, cache, lastMtime>>
  PROVE  TruthInv'
<1>1. \A k \in Task \ {t} : call'[k] = call[k]
  BY DEF IInv, TypeOK
<1>2. call'[t] = c
  BY DEF IInv, TypeOK
<1> QED  BY <1>1, <1>2 DEF TruthInv, TruthOf

(* A rename makes every recorded mtime an old one.                         *)
LEMMA RenameTruth ==
  ASSUME IInv, TruthInv, NEW t \in Task, Rename(t)
  PROVE  TruthInv'
<1>1. /\ mtime \in Nat /\ mtime' = mtime + 1
      /\ lastMtime \in [Process -> Nat]
      /\ UNCHANGED <<up, cache, lastMtime>>
  BY DEF IInv, TypeOK, Rename, procVars
<1>2. /\ call'[t].pc = "loaded"
      /\ \A k \in Task \ {t} : call'[k] = call[k]
  BY CallFields, MoveType DEF IInv, TypeOK, Rename, Place, Blocking
<1>3. ASSUME NEW p \in Process PROVE TruthOf(p)'
  <2>1. SUFFICES ASSUME up[p] = "up"
                 PROVE  TruthOf(p)'
    BY <1>1 DEF TruthOf
  <2>2. lastMtime[p] <= mtime /\ lastMtime[p] \in Nat
    BY <1>1, <2>1 DEF TruthInv, TruthOf
  <2>3. lastMtime'[p] <= mtime' /\ lastMtime'[p] # mtime'
    BY <1>1, <2>2
  <2> QED  BY <1>1, <1>2, <2>1, <2>3 DEF TruthInv, TruthOf
<1> QED  BY <1>1, <1>3 DEF TruthInv

(* A snapshot is loaded with the file's mtime, which no recorded one       *)
(* exceeds.                                                                *)
LEMMA LoadTruth ==
  ASSUME IInv, TruthInv, NEW t \in Task, LoadWritten(t) \/ LoadForReload(t)
  PROVE  TruthInv'
<1>1. /\ UNCHANGED <<disk, mtime, up, cache, lastMtime>>
      /\ \A k \in Task \ {t} : call'[k] = call[k]
  BY DEF IInv, TypeOK, LoadWritten, LoadForReload, fileVars, procVars
<1>2. \/ call'[t].pc = "idle"
      \/ call'[t].pc = "install" /\ call'[t].stamp = mtime
  <2>1. call \in [Task -> Call] /\ mtime \in Nat /\ disk \in AppState
    BY DEF IInv, TypeOK
  <2>2. CASE LoadWritten(t)
    <3>1. LET d == [call[t] EXCEPT !.pc = "install", !.stamp = mtime]
          IN  call' = [call EXCEPT ![t] = IF call[t].dropped THEN NoCall ELSE d]
      BY <2>2 DEF LoadWritten, Hand
    <3> QED  BY <2>1, <3>1 DEF NoCall, Call
  <2>3. CASE LoadForReload(t)
    <3>1. LET d == [call[t] EXCEPT !.pc = "install", !.snap = disk, !.stamp = mtime]
          IN  call' = [call EXCEPT ![t] = IF call[t].dropped THEN NoCall ELSE d]
      BY <2>3 DEF LoadForReload, Hand
    <3> QED  BY <2>1, <3>1 DEF NoCall, Call
  <2> QED  BY <2>2, <2>3
<1> QED  BY <1>1, <1>2 DEF TruthInv, TruthOf

(* The install id is copied from a file that the cache agrees with, if the *)
(* recorded mtime is its mtime.                                            *)
LEMMA SyncTruth ==
  ASSUME IInv, TruthInv, OneAtATime, NEW t \in Task, SyncInstallId(t)
  PROVE  TruthInv'
<1>1. /\ UNCHANGED <<disk, mtime, up, lastMtime>>
      /\ \A k \in Task \ {t} : call'[k] = call[k]
      /\ call'[t].pc = "idle"
      /\ cache \in [Process -> AppState]
      /\ call[t].snap = disk
      /\ Host[t] \in Process
  BY CallFields DEF IInv, TypeOK, SyncInstallId, fileVars, NoCall, DataShape
<1>2. \A p \in Process \ {Host[t]} : cache'[p] = cache[p]
  BY <1>1 DEF SyncInstallId
<1>3. cache[Host[t]] = disk => cache'[Host[t]] = disk
  BY <1>1 DEF SyncInstallId, AppState
<1>4. \A k \in Task : Host[k] = Host[t] => k = t
  BY DEF OneAtATime
<1> QED  BY <1>1, <1>2, <1>3, <1>4 DEF TruthInv, TruthOf

LEMMA InstallTruth ==
  ASSUME IInv, TruthInv, OneAtATime, NEW t \in Task, Install(t)
  PROVE  TruthInv'
<1>1. /\ UNCHANGED <<disk, mtime, up, lastMtime>>
      /\ \A k \in Task \ {t} : call'[k] = call[k]
      /\ cache \in [Process -> AppState]
      /\ cache' = [cache EXCEPT ![Host[t]] = call[t].snap]
      /\ call[t].stamp \in Nat /\ call[t].stamp <= mtime
      /\ call[t].stamp = mtime => call[t].snap = disk
      /\ Host[t] \in Process /\ call[t].pc = "install"
      /\ mtime \in Nat /\ lastMtime \in [Process -> Nat]
  BY CallFields DEF IInv, TypeOK, Install, fileVars, DataShape
<1>2. /\ call'[t].pc = "stamp" /\ call'[t].snap = call[t].snap
      /\ call'[t].stamp = call[t].stamp
  <2>1. call \in [Task -> Call]
    BY DEF IInv, TypeOK
  <2> QED  BY <2>1 DEF Install, Call
<1>3. \A k \in Task : Host[k] = Host[t] => k = t
  BY DEF OneAtATime
<1>4. ASSUME NEW p \in Process, p # Host[t] PROVE TruthOf(p)'
  BY <1>1, <1>4 DEF TruthInv, TruthOf
<1>5. ASSUME up[Host[t]] = "up" PROVE TruthOf(Host[t])'
  <2>1. lastMtime[Host[t]] <= call[t].stamp /\ lastMtime[Host[t]] \in Nat
    BY <1>1, <1>5 DEF TruthInv, TruthOf
  <2>2. cache'[Host[t]] = call[t].snap
    BY <1>1
  <2>3. lastMtime[Host[t]] = mtime => call[t].snap = disk
    BY <1>1, <2>1
  <2>4. lastMtime[Host[t]] <= mtime
    BY <1>1, <2>1
  <2> QED  BY <1>1, <1>2, <1>3, <1>5, <2>1, <2>2, <2>3, <2>4 DEF TruthOf
<1>6. TruthOf(Host[t])'
  BY <1>1, <1>5 DEF TruthOf
<1> QED  BY <1>1, <1>4, <1>6 DEF TruthInv

LEMMA RecordTruth ==
  ASSUME IInv, TruthInv, OneAtATime, NEW t \in Task, RecordMtime(t)
  PROVE  TruthInv'
<1>1. /\ UNCHANGED <<disk, mtime, up, cache>>
      /\ \A k \in Task \ {t} : call'[k] = call[k]
      /\ lastMtime \in [Process -> Nat]
      /\ lastMtime' = [lastMtime EXCEPT ![Host[t]] = call[t].stamp]
      /\ call[t].stamp \in Nat /\ call[t].stamp <= mtime
      /\ call[t].stamp = mtime => call[t].snap = disk
      /\ Host[t] \in Process /\ call[t].pc = "stamp"
  BY CallFields DEF IInv, TypeOK, RecordMtime, fileVars, DataShape
<1>2. call'[t].pc \in {"bump", "idle"}
  <2>1. [call[t] EXCEPT !.pc = "bump"].pc = "bump" /\ call \in [Task -> Call]
    BY CallFields, MoveType DEF IInv, TypeOK, Place, Blocking
  <2> QED  BY <2>1 DEF RecordMtime, NoCall
<1>3. \A k \in Task : Host[k] = Host[t] => k = t
  BY DEF OneAtATime
<1>4. up[Host[t]] = "up" => cache[Host[t]] = call[t].snap
  BY <1>1 DEF TruthInv, TruthOf
<1> QED  BY <1>1, <1>2, <1>3, <1>4 DEF TruthInv, TruthOf

LEMMA CancelTruth ==
  ASSUME IInv, TruthInv, NEW t \in Task, Cancel(t)
  PROVE  TruthInv'
<1>1. PICK c \in Call : /\ call' = [call EXCEPT ![t] = c]
                        /\ c = NoCall \/ c = [call[t] EXCEPT !.dropped = TRUE]
  BY CancelEffect DEF IInv
<1>2. \/ c.pc = "idle"
      \/ c.pc = call[t].pc /\ c.snap = call[t].snap /\ c.stamp = call[t].stamp
  <2>1. call[t] \in Call
    BY CallFields DEF IInv
  <2> QED  BY <1>1, <2>1 DEF NoCall, Call
<1>3. call \in [Task -> Call] /\ UNCHANGED <<disk, mtime, up, cache, lastMtime>>
  BY DEF Cancel, IInv, TypeOK, fileVars, procVars
<1> QED  BY <1>1, <1>2, <1>3 DEF TruthInv, TruthOf

LEMMA CrashTruth ==
  ASSUME IInv, TruthInv, NEW q \in Process, Crash(q)
  PROVE  TruthInv'
<1>1. /\ UNCHANGED <<disk, mtime, cache, lastMtime>>
      /\ \A k \in Task : Host[k] # q => call'[k] = call[k]
      /\ up'[q] = "down" /\ \A p \in Process \ {q} : up'[p] = up[p]
  BY StoreAssumption DEF IInv, TypeOK, Crash, fileVars
<1> QED  BY <1>1 DEF TruthInv, TruthOf

LEMMA TruthStep ==
  ASSUME OneAtATime, MaxStarts = 0, IInv, TruthInv, [Next]_vars PROVE TruthInv'
<1> USE DEF fileVars, lockVars, procVars, feedVars
<1>0. TypeOK /\ call \in [Task -> Call] /\ mtime \in Nat
  BY DEF IInv, TypeOK
<1>1. ASSUME NEW t \in Task, NEW u \in Job, Mutate(t, u) PROVE TruthInv'
  BY <1>0, <1>1, CallFields, BeginType, ElsewhereTruth DEF Mutate, Call
<1>2. ASSUME NEW t \in Task, StatFile(t) PROVE TruthInv'
  BY <1>0, <1>2 DEF StatFile, TruthInv, TruthOf, Call
<1>3. ASSUME NEW t \in Task, CompareMtime(t) PROVE TruthInv'
  <2>1. PICK c \in Call : /\ call' = [call EXCEPT ![t] = c]
                          /\ c = NoCall \/ c = [call[t] EXCEPT !.pc = "lock"]
    BY <1>0, <1>3, CompareEffect
  <2>2. c.pc \in {"idle", "lock"}
    BY <1>0, <2>1, CallFields DEF NoCall, Call
  <2> QED  BY <1>3, <2>1, <2>2, ElsewhereTruth DEF CompareMtime
<1>4. ASSUME NEW t \in Task, LockExclusive(t) \/ LockShared(t) PROVE TruthInv'
  BY <1>0, <1>4 DEF LockExclusive, LockShared, TruthInv, TruthOf, Call
<1>5. ASSUME NEW t \in Task, ReadAndApply(t) PROVE TruthInv'
  BY <1>0, <1>5 DEF ReadAndApply, TruthInv, TruthOf, Call
<1>6. ASSUME NEW t \in Task, WriteTmp(t) PROVE TruthInv'
  BY <1>0, <1>6 DEF WriteTmp, TruthInv, TruthOf, Call
<1>7. ASSUME NEW t \in Task, Fail(t) \/ BumpGeneration(t) PROVE TruthInv'
  BY <1>0, <1>7, NoCallType, ElsewhereTruth DEF Fail, BumpGeneration, NoCall
<1>8. ASSUME NEW p \in Process, LoadState(p) \/ NewStore(p) PROVE TruthInv'
  BY <1>0, <1>8 DEF LoadState, NewStore, TypeOK, TruthInv
<1>9. ASSUME NEW p \in Process, Receive(p) \/ Reread(p) \/ NotifyChange(p) PROVE TruthInv'
  BY <1>9 DEF Receive, Reread, NotifyChange, TruthInv, TruthOf
<1>10. CASE UNCHANGED vars
  BY <1>10 DEF vars, TruthInv, TruthOf
<1> QED
  BY <1>1, <1>2, <1>3, <1>4, <1>5, <1>6, <1>7, <1>8, <1>9, <1>10, RenameTruth, LoadTruth, SyncTruth,
     InstallTruth, RecordTruth, CancelTruth, CrashTruth DEF Next, Progress

(* If each instance does one thing at a time and none starts late: with    *)
(* nothing in flight and the recorded mtime current, reload_if_changed is  *)
(* right to skip the file, the cache is its content. (With a mutator and a *)
(* reloader in one instance it is not; and startup reads before it stats.) *)
THEOREM PollIsTruthful ==
  ASSUME OneAtATime, MaxStarts = 0 PROVE Spec => []PollTellsTheTruth
<1>1. Init => TruthInv
  BY StoreAssumption DEF Init, TruthInv, TruthOf, NoCall
<1>2. IInv /\ TruthInv /\ [Next]_vars => TruthInv'
  BY TruthStep
<1>3. TruthInv => PollTellsTheTruth
  BY DEF TruthInv, TruthOf, PollTellsTheTruth
<1> QED  BY <1>1, <1>2, <1>3, Invariance, PTL DEF Spec
===============================================================================
