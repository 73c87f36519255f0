----------------------------- MODULE StateStore -----------------------------
(***************************************************************************)
(* config/store.rs: several processes share state.json.  A mutation takes  *)
(* the exclusive flock on state.json.lock, re-reads the file, applies its  *)
(* closure, replaces the file by rename and drops the lock; only then, and *)
(* in separate steps, does it install what it wrote in the process's cache,*)
(* record the file's mtime and wake the change-feed.  A state-sync loop    *)
(* reloads the file when its mtime is not the recorded one.                *)
(*                                                                         *)
(* mtime is the number of the rename that produced the file, 0 when there  *)
(* is no file: every rename gives the file a modification time of its own. *)
(***************************************************************************)
EXTENDS AppStateData, Naturals, Sequences, FiniteSets

CONSTANTS Process,      \* program instances sharing the data directory
          Task,         \* concurrent calls into the store
          Host,         \* the process each task runs in
          Mutator,      \* tasks that call mutate, try_mutate, persist_install_id
          Reloader,     \* tasks that call reload_if_changed
          Cancellable,  \* tasks whose future the caller may drop (a request handler)
          Job,          \* the updates mutators ask for
          Reload,       \* the job of a reloading task
          None,         \* no job, no lock owner, no temporary file, no known view
          Running,      \* processes already up in the initial state
          Subscribed,   \* processes whose frontend follows the change-feed
          MaxWrites,    \* bound on renames
          MaxStarts     \* bound on process starts

ASSUME StoreAssumption ==
  /\ Host \in [Task -> Process]
  /\ Mutator \subseteq Task /\ Reloader \subseteq Task /\ Cancellable \subseteq Task
  /\ Job \subseteq Update
  /\ Running \subseteq Process /\ Subscribed \subseteq Process
  /\ MaxWrites \in Nat /\ MaxStarts \in Nat
  /\ Reload \notin Update /\ None \notin Update /\ Reload # None
  /\ None \notin Task
  /\ None \notin AppState
  /\ None \notin [Field \ Hidden -> Value \cup {Unset}]

VARIABLES disk,       \* contents of state.json (NewState while it does not exist)
          mtime,      \* its modification time
          tmp,        \* per process: state.json.tmp.<pid>
          writer,     \* holder of the exclusive flock
          readers,    \* holders of the shared flock
          up,         \* per process: down, loading or up
          cache,      \* per process: the in-memory state
          visible,    \* per process: memoised client view of the cache
          lastMtime,  \* per process: mtime recorded at the last read or write
          woken,      \* per process: generation ahead of what the subscriber saw
          feed,       \* per process: the subscriber is waiting or re-reading
          seen,       \* per process: the state the subscriber last read
          call,       \* per task: the call in progress
          starts      \* process starts so far

fileVars == <<disk, mtime, tmp>>
lockVars == <<writer, readers>>
procVars == <<up, cache, visible, lastMtime, starts>>
feedVars == <<woken, feed, seen>>
vars == <<fileVars, lockVars, procVars, feedVars, call>>

(* Where a call stands.  The Blocking places run on a blocking thread that *)
(* outlives the future awaiting it; the Locked ones hold the flock.        *)
Blocking == {"lock", "read", "write", "rename", "loaded"}
Locked == Blocking \ {"lock"}
Place == {"idle", "compare", "install", "stamp", "bump"} \cup Blocking

Call == [pc : Place, job : Update \cup {Reload, None}, snap : AppState,
         stamp : Nat, news : BOOLEAN, dropped : BOOLEAN]

NoCall == [pc |-> "idle", job |-> None, snap |-> NewState,
           stamp |-> 0, news |-> FALSE, dropped |-> FALSE]

IsInstallId(t) == call[t].job \in Update /\ call[t].job.field = InstallId

Init == /\ disk = NewState /\ mtime = 0
        /\ tmp = [p \in Process |-> None]
        /\ writer = None /\ readers = {}
        /\ up = [p \in Process |-> IF p \in Running THEN "up" ELSE "down"]
        /\ cache = [p \in Process |-> NewState]
        /\ visible = [p \in Process |-> None]
        /\ lastMtime = [p \in Process |-> 0]
        /\ woken = [p \in Process |-> FALSE]
        /\ feed = [p \in Process |-> "waiting"]
        /\ seen = [p \in Process |-> NewState]
        /\ call = [t \in Task |-> NoCall]
        /\ starts = 0
-----------------------------------------------------------------------------
(* Startup: AppState::load reads the file without the lock, and only then  *)
(* does StateStore::new stat it.                                           *)
LoadState(p) == /\ up[p] = "down" /\ starts < MaxStarts
                /\ starts' = starts + 1
                /\ up' = [up EXCEPT ![p] = "loading"]
                /\ cache' = [cache EXCEPT ![p] = disk]
                /\ visible' = [visible EXCEPT ![p] = None]
                /\ UNCHANGED <<fileVars, lockVars, lastMtime, feedVars, call>>

NewStore(p) == /\ up[p] = "loading"
               /\ up' = [up EXCEPT ![p] = "up"]
               /\ lastMtime' = [lastMtime EXCEPT ![p] = mtime]
               /\ woken' = [woken EXCEPT ![p] = FALSE]
               /\ feed' = [feed EXCEPT ![p] = "waiting"]
               /\ seen' = [seen EXCEPT ![p] = cache[p]]
               /\ UNCHANGED <<fileVars, lockVars, cache, visible, call, starts>>

(* A process dies: its locks go, its temporary file stays.                 *)
Crash(p) == /\ up[p] # "down"
            /\ up' = [up EXCEPT ![p] = "down"]
            /\ call' = [t \in Task |-> IF Host[t] = p THEN NoCall ELSE call[t]]
            /\ writer' = IF writer # None /\ Host[writer] = p THEN None ELSE writer
            /\ readers' = {t \in readers : Host[t] # p}
            /\ UNCHANGED <<fileVars, cache, visible, lastMtime, starts, feedVars>>
-----------------------------------------------------------------------------
PendingWrites == {t \in Task : call[t].pc \in {"lock", "read", "write", "rename"}
                               /\ call[t].job # Reload}

(* try_mutate, mutate, persist_install_id_if_absent: hand the job over.    *)
Mutate(t, u) == /\ t \in Mutator /\ up[Host[t]] = "up"
                /\ call[t].pc = "idle"
                /\ mtime + Cardinality(PendingWrites) < MaxWrites
                /\ call' = [call EXCEPT ![t] = [@ EXCEPT !.pc = "lock", !.job = u]]
                /\ UNCHANGED <<fileVars, lockVars, procVars, feedVars>>

(* reload_if_changed: stat the file ..                                     *)
StatFile(t) == /\ t \in Reloader /\ up[Host[t]] = "up"
               /\ call[t].pc = "idle"
               /\ call' = [call EXCEPT ![t] = [@ EXCEPT !.pc = "compare", !.job = Reload,
                                                         !.stamp = mtime]]
               /\ UNCHANGED <<fileVars, lockVars, procVars, feedVars>>

(* .. and go on only if the mtime is not the recorded one.                 *)
CompareMtime(t) ==
  /\ call[t].pc = "compare"
  /\ IF call[t].stamp = lastMtime[Host[t]]
     THEN call' = [call EXCEPT ![t] = NoCall]
     ELSE call' = [call EXCEPT ![t].pc = "lock"]
  /\ UNCHANGED <<fileVars, lockVars, procVars, feedVars>>

LockExclusive(t) == /\ call[t].pc = "lock" /\ call[t].job # Reload
                    /\ writer = None /\ readers = {}
                    /\ writer' = t
                    /\ call' = [call EXCEPT ![t].pc = "read"]
                    /\ UNCHANGED <<fileVars, readers, procVars, feedVars>>

LockShared(t) == /\ call[t].pc = "lock" /\ call[t].job = Reload
                 /\ writer = None
                 /\ readers' = readers \cup {t}
                 /\ call' = [call EXCEPT ![t].pc = "read"]
                 /\ UNCHANGED <<fileVars, writer, procVars, feedVars>>

Unlock(t) == /\ writer' = IF writer = t THEN None ELSE writer
             /\ readers' = readers \ {t}

(* The outcome of a locked section, dropped when nobody awaits it.         *)
Hand(t, c) == IF call[t].dropped THEN NoCall ELSE c

(* Wrong on purpose: the closure runs on the cache, not on the file.       *)
ReadAndApplyOnCache(t) ==
  LET after == Apply(cache[Host[t]], call[t].job)
  IN /\ call[t].pc = "read" /\ call[t].job # Reload
     /\ call' = [call EXCEPT ![t] =
          [@ EXCEPT !.snap = after, !.news = mtime = 0,
             !.pc = IF mtime = 0 \/ after # disk THEN "write" ELSE "loaded"]]
     /\ UNCHANGED <<fileVars, lockVars, procVars, feedVars>>

(* Wrong on purpose: renames a temporary file nobody has written.          *)
ReadAndApplyNoTmp(t) ==
  /\ call[t].pc = "read" /\ call[t].job # Reload
  /\ call' = [call EXCEPT ![t] =
                [@ EXCEPT !.snap = Apply(disk, call[t].job), !.pc = "rename"]]
  /\ UNCHANGED <<fileVars, lockVars, procVars, feedVars>>

(* Re-read the file and run the closure; write if the file is missing or   *)
(* the closure changed something (the install id writes only a new id).    *)
ReadAndApply(t) ==
  LET after == Apply(disk, call[t].job)
      created == mtime = 0 /\ ~IsInstallId(t)
  IN /\ call[t].pc = "read" /\ call[t].job # Reload
     /\ call' = [call EXCEPT ![t] =
          [@ EXCEPT !.snap = after, !.news = created,
             !.pc = IF created \/ after # disk THEN "write" ELSE "loaded"]]
     /\ UNCHANGED <<fileVars, lockVars, procVars, feedVars>>

WriteTmp(t) == /\ call[t].pc = "write"
               /\ tmp' = [tmp EXCEPT ![Host[t]] = call[t].snap]
               /\ call' = [call EXCEPT ![t].pc = "rename"]
               /\ UNCHANGED <<disk, mtime, lockVars, procVars, feedVars>>

(* Wrong on purpose: the flock covers the write but not the stat after it. *)
RenameAndUnlock(t) == /\ call[t].pc = "rename"
                      /\ disk' = tmp[Host[t]]
                      /\ mtime' = mtime + 1
                      /\ tmp' = [tmp EXCEPT ![Host[t]] = None]
                      /\ Unlock(t)
                      /\ call' = [call EXCEPT ![t].pc = "loaded"]
                      /\ UNCHANGED <<procVars, feedVars>>

Rename(t) == /\ call[t].pc = "rename"
             /\ disk' = tmp[Host[t]]
             /\ mtime' = mtime + 1
             /\ tmp' = [tmp EXCEPT ![Host[t]] = None]
             /\ call' = [call EXCEPT ![t].pc = "loaded"]
             /\ UNCHANGED <<lockVars, procVars, feedVars>>

(* Wrong on purpose: an error path that leaves the flock taken.            *)
FailLocked(t) == /\ call[t].pc \in {"lock", "read", "write", "rename"}
                 /\ call' = [call EXCEPT ![t] = NoCall]
                 /\ UNCHANGED <<fileVars, lockVars, procVars, feedVars>>

(* Any step up to the rename can fail (the closure refuses, the disk is    *)
(* full): the call returns Err, unlocking as it unwinds.                   *)
Fail(t) == /\ call[t].pc \in {"lock", "read", "write", "rename"}
           /\ tmp' = IF call[t].pc = "rename"
                     THEN [tmp EXCEPT ![Host[t]] = None] ELSE tmp
           /\ Unlock(t)
           /\ call' = [call EXCEPT ![t] = NoCall]
           /\ UNCHANGED <<disk, mtime, procVars, feedVars>>

(* Loaded::new after a write: stat under the lock, then unlock.            *)
LoadWritten(t) ==
  /\ call[t].pc = "loaded" /\ ~IsInstallId(t)
  /\ Unlock(t)
  /\ call' = [call EXCEPT ![t] = Hand(t, [@ EXCEPT !.pc = "install", !.stamp = mtime])]
  /\ UNCHANGED <<fileVars, procVars, feedVars>>

(* Loaded::new of a reload: read and stat under the shared lock, unlock.   *)
LoadForReload(t) ==
  /\ call[t].pc = "read" /\ call[t].job = Reload
  /\ Unlock(t)
  /\ call' = [call EXCEPT ![t] =
                Hand(t, [@ EXCEPT !.pc = "install", !.snap = disk, !.stamp = mtime])]
  /\ UNCHANGED <<fileVars, procVars, feedVars>>

(* The end of persist_install_id_if_absent: the id, and nothing else, is   *)
(* copied into the cache if try_write gets the cache's lock.               *)
SyncInstallId(t) ==
  LET p == Host[t]
  IN /\ call[t].pc = "loaded" /\ IsInstallId(t)
     /\ Unlock(t)
     /\ call' = [call EXCEPT ![t] = NoCall]
     /\ \/ /\ cache' = [cache EXCEPT ![p][InstallId] = call[t].snap[InstallId]]
           /\ visible' = [visible EXCEPT ![p] = None]
        \/ UNCHANGED <<cache, visible>>
     /\ UNCHANGED <<fileVars, up, lastMtime, starts, feedVars>>

(* Wrong on purpose: installs without comparing the client views.          *)
InstallSilently(t) ==
  /\ call[t].pc = "install"
  /\ cache' = [cache EXCEPT ![Host[t]] = call[t].snap]
  /\ visible' = [visible EXCEPT ![Host[t]] = ClientVisible(call[t].snap)]
  /\ call' = [call EXCEPT ![t].pc = "stamp"]
  /\ UNCHANGED <<fileVars, lockVars, up, lastMtime, starts, feedVars>>

(* install, under the cache's write lock ..                                *)
Install(t) ==
  LET p == Host[t]
      current == IF visible[p] = None THEN ClientVisible(cache[p]) ELSE visible[p]
      new == ClientVisible(call[t].snap)
  IN /\ call[t].pc = "install"
     /\ cache' = [cache EXCEPT ![p] = call[t].snap]
     /\ visible' = [visible EXCEPT ![p] = new]
     /\ call' = [call EXCEPT ![t] =
          [@ EXCEPT !.pc = "stamp", !.news = call[t].news \/ current # new]]
     /\ UNCHANGED <<fileVars, lockVars, up, lastMtime, starts, feedVars>>

(* Wrong on purpose: stats the file again instead of using its own stamp.  *)
RecordCurrentMtime(t) ==
  /\ call[t].pc = "stamp"
  /\ lastMtime' = [lastMtime EXCEPT ![Host[t]] = mtime]
  /\ call' = [call EXCEPT ![t] = IF call[t].news THEN [@ EXCEPT !.pc = "bump"] ELSE NoCall]
  /\ UNCHANGED <<fileVars, lockVars, up, cache, visible, starts, feedVars>>

(* .. and, after releasing it, under the mtime's lock.                     *)
RecordMtime(t) ==
  /\ call[t].pc = "stamp"
  /\ lastMtime' = [lastMtime EXCEPT ![Host[t]] = call[t].stamp]
  /\ call' = [call EXCEPT ![t] = IF call[t].news THEN [@ EXCEPT !.pc = "bump"] ELSE NoCall]
  /\ UNCHANGED <<fileVars, lockVars, up, cache, visible, starts, feedVars>>

BumpGeneration(t) == /\ call[t].pc = "bump"
                     /\ woken' = [woken EXCEPT ![Host[t]] = Host[t] \in Subscribed]
                     /\ call' = [call EXCEPT ![t] = NoCall]
                     /\ UNCHANGED <<fileVars, lockVars, procVars, feed, seen>>

(* The caller drops the future: a blocking section runs on without it, an  *)
(* install that is waiting for a lock never resumes.                       *)
Cancel(t) ==
  /\ t \in Cancellable /\ call[t].job # Reload /\ ~IsInstallId(t)
  /\ \/ /\ call[t].pc \in Blocking /\ ~call[t].dropped
        /\ call' = [call EXCEPT ![t].dropped = TRUE]
     \/ /\ call[t].pc \in {"install", "stamp"}
        /\ call' = [call EXCEPT ![t] = NoCall]
  /\ UNCHANGED <<fileVars, lockVars, procVars, feedVars>>
-----------------------------------------------------------------------------
(* Wrong on purpose: marks the generation seen and waits for the next one. *)
ReceiveAndForget(p) == /\ up[p] = "up" /\ feed[p] = "waiting" /\ woken[p]
                       /\ woken' = [woken EXCEPT ![p] = FALSE]
                       /\ UNCHANGED <<fileVars, lockVars, procVars, feed, seen, call>>

(* The subscriber: changed().await marks the generation seen, then the     *)
(* consumer re-reads the cache.                                            *)
Receive(p) == /\ up[p] = "up" /\ feed[p] = "waiting" /\ woken[p]
              /\ woken' = [woken EXCEPT ![p] = FALSE]
              /\ feed' = [feed EXCEPT ![p] = "reading"]
              /\ UNCHANGED <<fileVars, lockVars, procVars, seen, call>>

Reread(p) == /\ up[p] = "up" /\ feed[p] = "reading"
             /\ seen' = [seen EXCEPT ![p] = cache[p]]
             /\ feed' = [feed EXCEPT ![p] = "waiting"]
             /\ UNCHANGED <<fileVars, lockVars, procVars, woken, call>>

(* notify_change: background loops wake the feed without a write.          *)
NotifyChange(p) == /\ up[p] = "up" /\ p \in Subscribed
                   /\ woken' = [woken EXCEPT ![p] = TRUE]
                   /\ UNCHANGED <<fileVars, lockVars, procVars, feed, seen, call>>

Progress(t) == \/ CompareMtime(t)  \/ ReadAndApply(t) \/ WriteTmp(t)
               \/ Rename(t)        \/ LoadWritten(t)  \/ LoadForReload(t)
               \/ SyncInstallId(t) \/ Install(t)      \/ RecordMtime(t)
               \/ BumpGeneration(t)

Next == \/ \E t \in Task : \/ \E u \in Job : Mutate(t, u)
                           \/ StatFile(t)
                           \/ LockExclusive(t)
                           \/ LockShared(t)
                           \/ Progress(t)
                           \/ Fail(t)
                           \/ Cancel(t)
        \/ \E p \in Process : \/ LoadState(p) \/ NewStore(p) \/ Crash(p)
                              \/ Receive(p) \/ Reread(p) \/ NotifyChange(p)

Spec == Init /\ [][Next]_vars

(* A call once begun keeps running, a waiter gets the flock if it keeps    *)
(* becoming free, the state-sync loop keeps ticking and the consumer keeps *)
(* consuming.  Nothing forces a caller to mutate or a process to start.    *)
Fairness == /\ \A t \in Task : /\ WF_vars(Progress(t))
                               /\ SF_vars(LockExclusive(t))
                               /\ SF_vars(LockShared(t))
                               /\ WF_vars(StatFile(t))
            /\ \A p \in Process : WF_vars(Receive(p)) /\ WF_vars(Reread(p))
                                  /\ WF_vars(NewStore(p))

FairSpec == Spec /\ Fairness
-----------------------------------------------------------------------------
TypeOK ==
  /\ disk \in AppState /\ mtime \in Nat
  /\ tmp \in [Process -> AppState \cup {None}]
  /\ writer \in Task \cup {None} /\ readers \subseteq Task
  /\ up \in [Process -> {"down", "loading", "up"}]
  /\ cache \in [Process -> AppState]
  /\ visible \in [Process -> [Field \ Hidden -> Value \cup {Unset}] \cup {None}]
  /\ lastMtime \in [Process -> Nat]
  /\ woken \in [Process -> BOOLEAN]
  /\ feed \in [Process -> {"waiting", "reading"}]
  /\ seen \in [Process -> AppState]
  /\ call \in [Task -> Call]
  /\ starts \in Nat

(* The refinement: a mutation is pending until its rename (or, when it     *)
(* changes nothing, until its closure has run), committed until it returns.*)
Phase(c) ==
  CASE c.job \notin Job -> "idle"
    [] c.job \in Job /\ c.pc \in {"lock", "read", "write", "rename"} -> "pending"
    [] OTHER -> "committed"

Wanted(c) == IF c.job \in Job THEN c.job ELSE None

Shared == INSTANCE SharedState WITH
            NoJob <- None, shared <- disk,
            phase <- [t \in Task |-> Phase(call[t])],
            want <- [t \in Task |-> Wanted(call[t])]

(* state.json behaves as one value updated atomically by each mutation: no *)
(* update is lost to a concurrent process or task, a failed closure or     *)
(* write leaves nothing behind, a crash never half-applies.                *)
Linearizable == Shared!Spec

(* A snapshot on its way into the cache that carries the file's current    *)
(* mtime is the file's current content: the mtime was read under the lock. *)
StampedSnapshot ==
  \A t \in Task : /\ call[t].pc \in {"install", "stamp"}
                  /\ call[t].stamp = mtime
                  => call[t].snap = disk

(* An install id, once persisted, is never replaced, although instances    *)
(* starting together all mint a candidate (telemetry counts installs by it)*)
InstallIdStable ==
  [][disk[InstallId] # Unset => disk'[InstallId] = disk[InstallId]]_vars

(* What a client can see differ: the install id is not rendered.           *)
Rendered(s) == [f \in Field \ (Hidden \cup {InstallId}) |-> s[f]]

BumpDue(p) == \E t \in Task : /\ Host[t] = p /\ call[t].news
                              /\ call[t].pc \in {"stamp", "bump"}

(* No wakeup is lost: whenever the cache shows something the subscriber    *)
(* has not read, a wakeup is pending or on its way.                        *)
NoLostWakeup ==
  \A p \in Subscribed : up[p] = "up" =>
    \/ Rendered(seen[p]) = Rendered(cache[p])
    \/ woken[p] \/ feed[p] = "reading" \/ BumpDue(p)

(* The cache is trustworthy when the poll says so: with no call in flight  *)
(* and the recorded mtime current, the cache is the file's content.        *)
PollTellsTheTruth ==
  \A p \in Process :
    /\ up[p] = "up" /\ lastMtime[p] = mtime
    /\ \A t \in Task : Host[t] = p => call[t].pc \in {"idle", "compare"}
    => cache[p] = disk

(* Every call returns: nobody waits on the flock for ever.                 *)
CallsReturn == \A t \in Task : call[t].pc = "lock" ~> call[t].pc = "idle"

(* Once the writing and the I/O errors stop, every running instance shows  *)
(* what is on disk, and its subscriber has read it: another instance's     *)
(* change is never missed.                                                 *)
ErrorsStop == <>[][\A t \in Task : ~Fail(t)]_vars

EventuallyShown ==
  ErrorsStop =>
    \A p \in Process :
      <>[](up[p] = "up" => /\ cache[p] = disk
                           /\ p \in Subscribed => Rendered(seen[p]) = Rendered(disk))

(* Both: no call hangs, and what the calls did is shown.                   *)
ReturnsAndShows == CallsReturn /\ EventuallyShown
=============================================================================
