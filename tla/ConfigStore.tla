---------------------------- MODULE ConfigStore ----------------------------
(***************************************************************************)
(* The configuration store of a process (config/config_store.rs): edits    *)
(* from any frontend, hot reload when the file's modification time moved,  *)
(* and the listeners that wake the change feed, with the hold that the     *)
(* edits of config and state put on them.  Everything runs on threads; the *)
(* config's RwLock is held by an edit from its copy to its commit, but not *)
(* by a reload while it reads the file.                                    *)
(*                                                                         *)
(* A configuration is the set of the edits it contains.                    *)
(***************************************************************************)
EXTENDS Naturals, FiniteSets

CONSTANTS Thread,
          Edit,       \* the edits threads make, each once
          HandEdit,   \* and those the user, or another process, saves
          Nobody,
          MaxWrites   \* writes of the file

ASSUME ConfigAssumption == /\ MaxWrites \in Nat
                           /\ Edit \cap HandEdit = {}
                           /\ Nobody \notin Thread \cup Edit

VARIABLES disk,       \* config.toml
          mtime,      \* its modification time
          config,     \* the config in memory
          lastMtime,  \* last_mtime
          rwlock,     \* the thread that holds the config's write lock
          reloader,   \* review_provider_lock: the thread that reloads
          deferral,   \* open holds, and a change that arrived meanwhile
          woken,      \* ghost: the config the listeners were last run for
          thread      \* per thread: where it stands and what it has read

configVars == <<disk, mtime, config, lastMtime, rwlock, reloader, deferral, woken, thread>>

NoOp == [pc |-> "idle", edit |-> Nobody, holds |-> FALSE, read |-> {}, seen |-> 0]

ConfigInit == /\ disk = {} /\ config = {} /\ woken = {}
              /\ mtime = 0 /\ lastMtime = 0
              /\ rwlock = Nobody /\ reloader = Nobody
              /\ deferral = [holds |-> 0, pending |-> FALSE]
              /\ thread = [t \in Thread |-> NoOp]

At(t, pc) == thread[t].pc = pc
ThreadIs(t, r) == thread' = [thread EXCEPT ![t] = r]
Goto(t, pc) == ThreadIs(t, [thread[t] EXCEPT !.pc = pc])

(* An edit that also writes state.json holds the listeners until that is   *)
(* done (defer_change_listeners); any other edit starts without.           *)
StartEdit(t, e, holds) ==
  /\ At(t, "idle")
  /\ \A u \in Thread : thread[u].edit # e
  /\ e \notin config
  /\ ThreadIs(t, [NoOp EXCEPT !.pc = "lock", !.edit = e, !.holds = holds])
  /\ deferral' = IF holds THEN [deferral EXCEPT !.holds = @ + 1] ELSE deferral
  /\ UNCHANGED <<disk, mtime, config, lastMtime, rwlock, reloader, woken>>

(* Where a thread goes on when its config edit is over.                    *)
After(t) == IF thread[t].holds THEN [thread[t] EXCEPT !.pc = "state", !.edit = Nobody] ELSE NoOp

(* commit_edit: a copy is edited under the write lock; a refused edit      *)
(* touches nothing.                                                        *)
CopyConfig(t) ==
  /\ At(t, "lock") /\ rwlock = Nobody
  /\ \/ rwlock' = t /\ ThreadIs(t, [thread[t] EXCEPT !.pc = "save",
                                     !.read = config \cup {thread[t].edit}])
     \/ UNCHANGED rwlock /\ ThreadIs(t, After(t))
  /\ UNCHANGED <<disk, mtime, config, lastMtime, reloader, deferral, woken>>

(* save_to_disk: the file is written, or the edit fails, and then stat'ed. *)
SaveToDisk(t) ==
  /\ At(t, "save") /\ mtime < MaxWrites
  /\ disk' = thread[t].read /\ mtime' = mtime + 1
  /\ Goto(t, "stat")
  /\ UNCHANGED <<config, lastMtime, rwlock, reloader, deferral, woken>>

SaveFails(t) ==
  /\ At(t, "save")
  /\ rwlock' = Nobody /\ ThreadIs(t, After(t))
  /\ UNCHANGED <<disk, mtime, config, lastMtime, reloader, deferral, woken>>

StatSaved(t) ==
  /\ At(t, "stat")
  /\ lastMtime' = mtime
  /\ Goto(t, "commit")
  /\ UNCHANGED <<disk, mtime, config, rwlock, reloader, deferral, woken>>

Commit(t) ==
  /\ At(t, "commit")
  /\ config' = thread[t].read /\ rwlock' = Nobody
  /\ Goto(t, "notify")
  /\ UNCHANGED <<disk, mtime, lastMtime, reloader, deferral, woken>>
-----------------------------------------------------------------------------
(* notify_listeners and run_listeners; the end of a hold.                  *)
Notify(t) ==
  /\ At(t, "notify")
  /\ IF deferral.holds > 0
     THEN /\ deferral' = [deferral EXCEPT !.pending = TRUE]
          /\ ThreadIs(t, After(t))
     ELSE UNCHANGED deferral /\ Goto(t, "run")
  /\ UNCHANGED <<disk, mtime, config, lastMtime, rwlock, reloader, woken>>

RunListeners(t) ==
  /\ At(t, "run")
  /\ woken' = config
  /\ ThreadIs(t, IF thread[t].holds THEN After(t) ELSE NoOp)
  /\ UNCHANGED <<disk, mtime, config, lastMtime, rwlock, reloader, deferral>>

(* Wrong on purpose: an inner hold forgets the change that is pending.     *)
ReleasedSilently == [holds |-> deferral.holds - 1, pending |-> FALSE]

(* The state write, successful or not, and then the guard's drop.          *)
Released == [holds |-> deferral.holds - 1,
             pending |-> deferral.pending /\ deferral.holds > 1]

DropHold(t) ==
  /\ At(t, "state")
  /\ deferral' = Released
  /\ ThreadIs(t, IF deferral.pending /\ deferral.holds = 1
                THEN [NoOp EXCEPT !.pc = "run"] ELSE NoOp)
  /\ UNCHANGED <<disk, mtime, config, lastMtime, rwlock, reloader, woken>>
-----------------------------------------------------------------------------
(* reload_if_changed: stat, load, stat again, and only then the write      *)
(* lock. One reload at a time.                                             *)
StatFile(t) ==
  /\ At(t, "idle") /\ reloader = Nobody /\ mtime # lastMtime
  /\ reloader' = t /\ Goto(t, "load")
  /\ UNCHANGED <<disk, mtime, config, lastMtime, rwlock, deferral, woken>>

LoadFromDisk(t) ==
  /\ At(t, "load")
  /\ \/ reloader' = reloader /\ ThreadIs(t, [thread[t] EXCEPT !.pc = "restat", !.read = disk])
     \/ reloader' = Nobody /\ ThreadIs(t, NoOp)      \* unreadable, or invalid
  /\ UNCHANGED <<disk, mtime, config, lastMtime, rwlock, deferral, woken>>

StatLoaded(t) ==
  /\ At(t, "restat")
  /\ ThreadIs(t, [thread[t] EXCEPT !.pc = "swap", !.seen = mtime])
  /\ UNCHANGED <<disk, mtime, config, lastMtime, rwlock, reloader, deferral, woken>>

Swap(t) ==
  /\ At(t, "swap") /\ rwlock = Nobody
  /\ config' = thread[t].read
  /\ Goto(t, IF config = thread[t].read THEN "same" ELSE "differs")
  /\ UNCHANGED <<disk, mtime, lastMtime, rwlock, reloader, deferral, woken>>

RecordReloaded(t) ==
  /\ thread[t].pc \in {"same", "differs"}
  /\ lastMtime' = thread[t].seen /\ reloader' = Nobody
  /\ ThreadIs(t, IF At(t, "differs") THEN [NoOp EXCEPT !.pc = "notify"] ELSE NoOp)
  /\ UNCHANGED <<disk, mtime, config, rwlock, deferral, woken>>

EditByHand(h) == /\ h \notin disk /\ mtime < MaxWrites
                 /\ disk' = disk \cup {h} /\ mtime' = mtime + 1
                 /\ UNCHANGED <<config, lastMtime, rwlock, reloader, deferral, woken, thread>>

ConfigNext == \/ \E t \in Thread :
                   \/ \E e \in Edit, holds \in BOOLEAN : StartEdit(t, e, holds)
                   \/ CopyConfig(t) \/ SaveToDisk(t) \/ SaveFails(t)
                   \/ StatSaved(t) \/ Commit(t)
                   \/ Notify(t) \/ RunListeners(t) \/ DropHold(t)
                   \/ StatFile(t) \/ LoadFromDisk(t) \/ StatLoaded(t)
                   \/ Swap(t) \/ RecordReloaded(t)
              \/ \E h \in HandEdit : EditByHand(h)

ConfigSpec == ConfigInit /\ [][ConfigNext]_configVars
-----------------------------------------------------------------------------
ConfigTypeOK ==
  /\ {disk, config, woken} \subseteq SUBSET (Edit \cup HandEdit)
  /\ mtime \in 0..MaxWrites /\ lastMtime \in 0..MaxWrites
  /\ rwlock \in Thread \cup {Nobody} /\ reloader \in Thread \cup {Nobody}
  /\ deferral \in [holds : Nat, pending : BOOLEAN]
  /\ thread \in [Thread -> [pc : {"idle", "lock", "save", "stat", "commit", "notify", "run",
                                  "state", "load", "restat", "swap", "same", "differs"},
                            edit : Edit \cup {Nobody}, holds : BOOLEAN,
                            read : SUBSET (Edit \cup HandEdit), seen : 0..MaxWrites]]

(* A change of the config in memory always reaches the change feed: the    *)
(* listeners have run since, or a thread is on its way to run them, or a   *)
(* hold is open that will when it drops, however holds and edits nest.     *)
NoConfigWakeLost ==
  woken # config =>
    \/ deferral.pending /\ \E t \in Thread : thread[t].holds
    \/ \E t \in Thread : thread[t].pc \in {"notify", "run", "differs"}
=============================================================================
