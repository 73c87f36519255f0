-------------------------- MODULE SessionLifecycle --------------------------
(***************************************************************************)
(* session/manager: what the operations on a session do to three things    *)
(* that must agree: its record in state.json, its tmux pane and its git    *)
(* worktree.  Each operation is a sequence of awaits (read the record, ask *)
(* tmux, run git, mutate the record) and any two may be in flight, in one  *)
(* process or in several.  A mutation of the record is one step: that is   *)
(* what StateStore provides (StateStoreProofs, StoreIsLinearizable).       *)
(*                                                                         *)
(* last_active_at is only ever compared with an earlier reading of itself, *)
(* so a call keeps whether it moved since, not its value; so it is with    *)
(* the pending program a fresh restart launched.                           *)
(*                                                                         *)
(* What callers ask for and what may go wrong is chosen in the initial     *)
(* state: some of the properties are about some workloads only.            *)
(***************************************************************************)
CONSTANTS Session,
          Op,             \* concurrent calls
          Workloads,      \* a subset of Workload
          ResumeSession,  \* config resume_session
          None            \* the session of no call

AllKinds == {"create", "attach", "restart", "fresh", "recover", "kill",
             "remove", "delete", "hibernate", "reconcile", "cascade"}

FaultKind == {"tmux",     \* a tmux command times out or fails
              "exit",     \* the agent exits, or the tmux server dies
              "store",    \* the write that ends a creation fails
              "abandon"}  \* a call is dropped, or its process dies, midway

(* The sessions there are to work on, those that exist at first, what      *)
(* callers ask for, what may go wrong, and whether calls come one at a     *)
(* time.                                                                   *)
Workload == [sessions : SUBSET Session, born : SUBSET Session, kinds : SUBSET AllKinds,
             faults : SUBSET FaultKind, alone : BOOLEAN]

ASSUME LifecycleAssumption == /\ None \notin Session /\ Workloads \subseteq Workload
                              /\ ResumeSession \in BOOLEAN

VARIABLES workload,    \* never changes
          status,      \* the record's status; unborn or gone without a record
          hibernated,  \* record: stopped without loss, resume on wake
          keepAlive,   \* record: opted out of hibernation
          pending,     \* record: a program change awaits an explicit restart
          pane,        \* tmux: none, dead, or live and how it was launched
          attached,    \* tmux: a client is attached
          worktree,    \* git: the worktree exists
          owed,        \* ghost: a stop promised that the next wake resumes
          op           \* per call: where it stands and what it has read

record == <<status, hibernated, keepAlive, pending>>
tmux == <<pane, attached>>
vars == <<workload, record, tmux, worktree, owed, op>>

Live == {"fresh", "resumed"}
Stored == {"Creating", "Running", "Stopped", "Merging"}
CanAttach == Stored \ {"Creating"}

Idle == [kind |-> "none", s |-> None, pc |-> "idle",
         hib |-> FALSE, saw |-> "unborn", moved |-> FALSE]

Init == /\ workload \in Workloads
        /\ status \in [Session -> {"unborn", "Running", "Stopped"}]
        /\ \A s \in Session : status[s] = "unborn" <=> s \notin workload.born
        /\ hibernated = [s \in Session |-> FALSE]
        /\ keepAlive = [s \in Session |-> FALSE]
        /\ pending = [s \in Session |-> FALSE]
        /\ pane = [s \in Session |-> IF status[s] = "Running" THEN "fresh" ELSE "none"]
        /\ attached = [s \in Session |-> FALSE]
        /\ worktree = [s \in Session |-> s \in workload.born]
        /\ owed = [s \in Session |-> FALSE]
        /\ op = [o \in Op |-> Idle]
-----------------------------------------------------------------------------
MayFail(fault) == fault \in workload.faults

Exists(s) == status[s] \in Stored

At(o, k, pc) == op[o].kind \in k /\ op[o].pc = pc

Goto(o, pc) == op' = [op EXCEPT ![o] = IF pc = "idle" THEN Idle ELSE [@ EXCEPT !.pc = pc]]

(* Goto, and last_active_at of s (or its pending program) has changed.     *)
GotoMoving(o, pc, s, k) ==
  op' = [p \in Op |->
           IF p = o THEN (IF pc = "idle" THEN Idle ELSE [op[o] EXCEPT !.pc = pc])
           ELSE IF op[p].s = s /\ op[p].kind \in k
                THEN [op[p] EXCEPT !.moved = TRUE] ELSE op[p]]

Begin(o, k, s, pc) ==
  /\ op[o].pc = "idle" /\ k \in workload.kinds
  /\ workload.alone => \A p \in Op : op[p].pc = "idle"
  /\ op' = [op EXCEPT ![o] = [kind |-> k, s |-> s, pc |-> pc, hib |-> hibernated[s],
                              saw |-> status[s], moved |-> FALSE]]

(* set_status(Running) with or without the marker: stamps last_active_at.  *)
MarkRunning(o, pc) ==
  LET s == op[o].s
  IN IF Exists(s)
     THEN /\ status' = [status EXCEPT ![s] = "Running"]
          /\ GotoMoving(o, pc, s, {"hibernate"})
     ELSE status' = status /\ Goto(o, pc)

MarkStopped(s) == status' = IF Exists(s) THEN [status EXCEPT ![s] = "Stopped"] ELSE status

SetHibernated(s, b) ==
  hibernated' = IF Exists(s) THEN [hibernated EXCEPT ![s] = b] ELSE hibernated

(* remove_session, remove_session_retargeting_children: drop the record.   *)
Forget(s) == /\ status' = IF Exists(s) THEN [status EXCEPT ![s] = "gone"] ELSE status
             /\ hibernated' = [hibernated EXCEPT ![s] = FALSE]
             /\ keepAlive' = [keepAlive EXCEPT ![s] = FALSE]
             /\ pending' = [pending EXCEPT ![s] = FALSE]
-----------------------------------------------------------------------------
(* tmux, as every operation uses it.  kill_tmux_sessions: the outcome is   *)
(* ignored, so a failed kill looks like a done one.                        *)
AfterKill(k) == CASE k \in {"attach", "restart", "fresh", "recover"} -> "launch"
                  [] k \in {"remove", "delete"} -> "rmtree"
                  [] k = "hibernate" -> "exists"
                  [] OTHER -> "commit"

KillTmux(o) ==
  LET s == op[o].s
  IN /\ op[o].pc = "kill"
     /\ \/ /\ pane' = [pane EXCEPT ![s] = "none"]
           /\ attached' = [attached EXCEPT ![s] = FALSE]
        \/ MayFail("tmux") /\ UNCHANGED tmux
     /\ Goto(o, AfterKill(op[o].kind))
     /\ UNCHANGED <<record, worktree, owed>>

(* create_session of tmux.  new-session refuses a name in use; the options *)
(* set after it can fail with the pane already live.                       *)
AfterFailedLaunch(k) == CASE k = "create" -> "undo"
                          [] k = "attach" -> "idle"
                          [] OTHER -> "stop"

(* Wrong on purpose: the wake forgets that the session was hibernated.     *)
ResumesByConfigOnly(o) == op[o].kind \in {"attach", "restart"} /\ ResumeSession

Resumes(o) == /\ op[o].kind \in {"attach", "restart"}
              /\ ResumeSession \/ op[o].hib

LaunchPane(o) ==
  LET s == op[o].s
  IN /\ op[o].pc = "launch" /\ pane[s] = "none"
     /\ pane' = [pane EXCEPT ![s] = IF Resumes(o) THEN "resumed" ELSE "fresh"]
     /\ owed' = [owed EXCEPT ![s] = FALSE]
     /\ \/ Goto(o, "commit")
        \/ MayFail("tmux") /\ Goto(o, AfterFailedLaunch(op[o].kind))
     /\ UNCHANGED <<record, attached, worktree>>

LaunchFails(o) ==
  /\ op[o].pc = "launch"
  /\ pane[op[o].s] # "none" \/ MayFail("tmux")
  /\ Goto(o, AfterFailedLaunch(op[o].kind))
  /\ UNCHANGED <<record, tmux, worktree, owed>>
-----------------------------------------------------------------------------
(* create_session: a Creating placeholder, a worktree, a pane, Running.    *)
Prepare(o, s) ==
  /\ status[s] = "unborn" /\ Begin(o, "create", s, "read")
  /\ status' = [status EXCEPT ![s] = "Creating"]
  /\ UNCHANGED <<hibernated, keepAlive, pending, tmux, worktree, owed>>

(* finalize reads the placeholder before it adds the worktree, again       *)
(* before it launches, and once more after it committed.                   *)
AfterRead(pc) == CASE pc = "read" -> "worktree" [] pc = "name" -> "launch"
                   [] OTHER -> "idle"

ReadPlaceholder(o) ==
  /\ op[o].kind = "create" /\ op[o].pc \in {"read", "name", "verify"}
  /\ Goto(o, IF Exists(op[o].s) THEN AfterRead(op[o].pc)
             ELSE IF op[o].pc = "read" THEN "drop" ELSE "undo")
  /\ UNCHANGED <<record, tmux, worktree, owed>>

AddWorktree(o) ==
  /\ At(o, {"create"}, "worktree")
  /\ \/ worktree' = [worktree EXCEPT ![op[o].s] = TRUE] /\ Goto(o, "name")
     \/ worktree' = worktree /\ Goto(o, "drop")
  /\ UNCHANGED <<record, tmux, owed>>

CommitCreated(o) ==
  /\ At(o, {"create"}, "commit")
  /\ \/ MarkRunning(o, "verify")
     \/ MayFail("store") /\ status' = status /\ Goto(o, "undo")
  /\ UNCHANGED <<hibernated, keepAlive, pending, tmux, worktree, owed>>

(* Wrong on purpose: the failure is returned and the worktree left.        *)
UndoNothing(o) == /\ At(o, {"create"}, "undo")
                  /\ Goto(o, "drop")
                  /\ UNCHANGED <<record, tmux, worktree, owed>>

(* A failed finalize unregisters the worktree; the pane stays ..           *)
UndoWorktree(o) == /\ At(o, {"create"}, "undo")
                   /\ worktree' = [worktree EXCEPT ![op[o].s] = FALSE]
                   /\ Goto(o, "drop")
                   /\ UNCHANGED <<record, tmux, owed>>

(* .. and create_session removes the record.                               *)
RemoveCreating(o) == /\ At(o, {"create"}, "drop")
                     /\ Forget(op[o].s) /\ Goto(o, "idle")
                     /\ UNCHANGED <<tmux, worktree, owed>>
-----------------------------------------------------------------------------
(* ensure_attachable: revive the pane if it is missing or dead, then mark  *)
(* the session attached and spawn the client.                              *)
EnsureAttachable(o, s) == /\ status[s] \in CanAttach /\ Begin(o, "attach", s, "exists")
                          /\ UNCHANGED <<record, tmux, worktree, owed>>

CheckPane(o) ==
  LET seen == pane[op[o].s]
  IN /\ At(o, {"attach"}, "exists")
     /\ \/ /\ seen = "none" /\ Goto(o, "launch")
        \/ /\ seen = "dead" /\ Goto(o, "kill")
        \/ /\ seen \in Live \/ (seen = "dead" /\ MayFail("tmux"))
           /\ Goto(o, IF op[o].saw = "Running" THEN "spawn" ELSE "commit")
        \/ MayFail("tmux") /\ Goto(o, "idle")
     /\ UNCHANGED <<record, tmux, worktree, owed>>

MarkAttachable(o) == /\ At(o, {"attach"}, "commit")
                     /\ MarkRunning(o, "spawn") /\ SetHibernated(op[o].s, FALSE)
                     /\ UNCHANGED <<keepAlive, pending, tmux, worktree, owed>>

SpawnClient(o) == /\ At(o, {"attach"}, "spawn")
                  /\ attached' = [attached EXCEPT ![op[o].s] = pane[op[o].s] # "none"]
                  /\ Goto(o, "idle")
                  /\ UNCHANGED <<record, pane, worktree, owed>>
-----------------------------------------------------------------------------
(* restart_session: fresh when a program change is pending, else resuming; *)
(* restart_session_fresh and recover_session_fresh never resume.           *)
Restarting == {"restart", "fresh", "recover"}

Restart(o, s) ==
  /\ Exists(s)
  /\ \E k \in Restarting :
       Begin(o, k, s, "touch") /\ (k = "restart" => ~pending[s])
  /\ UNCHANGED <<record, tmux, worktree, owed>>

(* change_program: store the new program, then restart fresh.              *)
ChangeProgram(o, s) ==
  /\ Exists(s) /\ Begin(o, "fresh", s, "touch")
  /\ pending' = [pending EXCEPT ![s] = FALSE]
  /\ UNCHANGED <<status, hibernated, keepAlive, tmux, worktree, owed>>

(* touch(), before the kill: a hibernation that read the stamp bails out.  *)
Touch(o) == /\ At(o, Restarting, "touch")
            /\ IF Exists(op[o].s) THEN GotoMoving(o, "kill", op[o].s, {"hibernate"})
               ELSE Goto(o, "kill")
            /\ UNCHANGED <<record, tmux, worktree, owed>>

(* Wrong on purpose: Running again, but still marked hibernated.           *)
MarkRestartedOnly(o) ==
  /\ At(o, Restarting, "commit")
  /\ MarkRunning(o, "idle")
  /\ UNCHANGED <<hibernated, pending, keepAlive, tmux, worktree, owed>>

MarkRestarted(o) ==
  LET s == op[o].s
  IN /\ At(o, Restarting, "commit")
     /\ MarkRunning(o, "idle") /\ SetHibernated(s, FALSE)
     /\ pending' = IF op[o].kind = "fresh" /\ ~op[o].moved
                   THEN [pending EXCEPT ![s] = FALSE] ELSE pending
     /\ UNCHANGED <<keepAlive, tmux, worktree, owed>>

MarkRestartFailed(o) == /\ At(o, Restarting, "stop")
                        /\ MarkStopped(op[o].s) /\ Goto(o, "idle")
                        /\ UNCHANGED <<hibernated, keepAlive, pending, tmux, worktree, owed>>
-----------------------------------------------------------------------------
(* kill_session: keeping the worktree, or (remove_project) with it.        *)
Kill(o, s) == /\ Exists(s)
              /\ \E k \in {"kill", "remove"} : Begin(o, k, s, "kill")
              /\ UNCHANGED <<record, tmux, worktree, owed>>

(* delete_session drops the record first and then tears down.              *)
Delete(o, s) == /\ Exists(s) /\ Begin(o, "delete", s, "kill")
                /\ Forget(s)
                /\ UNCHANGED <<tmux, worktree, owed>>

(* remove_session_worktree at the path the record held: a placeholder's is *)
(* empty.                                                                  *)
RemoveWorktree(o) ==
  /\ At(o, {"remove", "delete"}, "rmtree")
  /\ worktree' = IF op[o].saw = "Creating" THEN worktree
                 ELSE [worktree EXCEPT ![op[o].s] = FALSE]
  /\ Goto(o, IF op[o].kind = "delete" THEN "idle" ELSE "commit")
  /\ UNCHANGED <<record, tmux, owed>>

MarkKilled(o) ==
  LET s == op[o].s
      kept == op[o].kind = "kill"
  IN /\ At(o, {"kill", "remove"}, "commit")
     /\ MarkStopped(s) /\ SetHibernated(s, kept)
     /\ owed' = IF Exists(s) THEN [owed EXCEPT ![s] = kept] ELSE owed
     /\ Goto(o, IF kept THEN "idle" ELSE "forget")
     /\ UNCHANGED <<keepAlive, pending, tmux, worktree>>

RemoveProject(o) == /\ At(o, {"remove"}, "forget")
                    /\ Forget(op[o].s) /\ Goto(o, "idle")
                    /\ UNCHANGED <<tmux, worktree, owed>>
-----------------------------------------------------------------------------
(* The idle loop picks a Running session that did not opt out and that     *)
(* nobody is attached to; hibernate_session then looks again.              *)
PickIdle(o, s) == /\ status[s] = "Running" /\ ~keepAlive[s]
                  /\ ~attached[s] /\ pane[s] # "none"
                  /\ Begin(o, "hibernate", s, "snapshot")
                  /\ UNCHANGED <<record, tmux, worktree, owed>>

SnapshotStamp(o) ==
  /\ At(o, {"hibernate"}, "snapshot")
  /\ op' = [op EXCEPT ![o] = IF Exists(op[o].s)
                             THEN [@ EXCEPT !.pc = "attached", !.moved = FALSE] ELSE Idle]
  /\ UNCHANGED <<record, tmux, worktree, owed>>

(* A probe that fails (there is no such session) counts as attached.       *)
CheckAttached(o) ==
  LET s == op[o].s
  IN /\ At(o, {"hibernate"}, "attached")
     /\ \/ ~attached[s] /\ pane[s] # "none" /\ Goto(o, "recheck")
        \/ (attached[s] \/ pane[s] = "none" \/ MayFail("tmux")) /\ Goto(o, "idle")
     /\ UNCHANGED <<record, tmux, worktree, owed>>

(* still_hibernatable.                                                     *)
Recheck(o) ==
  LET s == op[o].s
  IN /\ At(o, {"hibernate"}, "recheck")
     /\ Goto(o, IF status[s] = "Running" /\ ~keepAlive[s] /\ ~op[o].moved
                THEN "kill" ELSE "idle")
     /\ UNCHANGED <<record, tmux, worktree, owed>>

(* Did the tmux session reappear?  An error reads as no.                   *)
CheckReappeared(o) ==
  /\ At(o, {"hibernate"}, "exists")
  /\ \/ pane[op[o].s] # "none" /\ Goto(o, "idle")
     \/ (pane[op[o].s] = "none" \/ MayFail("tmux")) /\ Goto(o, "commit")
  /\ UNCHANGED <<record, tmux, worktree, owed>>

(* Wrong on purpose: marks whatever it finds, Running or not.              *)
MarkHibernatedAnyway(o) ==
  LET s == op[o].s
  IN /\ At(o, {"hibernate"}, "commit")
     /\ hibernated' = [hibernated EXCEPT ![s] = TRUE]
     /\ Goto(o, "idle")
     /\ UNCHANGED <<status, keepAlive, pending, tmux, worktree, owed>>

MarkHibernated(o) ==
  LET s == op[o].s
  IN /\ At(o, {"hibernate"}, "commit")
     /\ IF status[s] = "Running"
        THEN /\ MarkStopped(s) /\ SetHibernated(s, TRUE)
             /\ owed' = [owed EXCEPT ![s] = TRUE]
        ELSE UNCHANGED <<status, hibernated, owed>>
     /\ Goto(o, "idle")
     /\ UNCHANGED <<keepAlive, pending, tmux, worktree>>
-----------------------------------------------------------------------------
(* startup_reconcile of another instance: list and drop Creating records,  *)
(* list and reset Merging ones, then probe each pane and correct.          *)
Reconcile(o, s) == /\ Exists(s) /\ Begin(o, "reconcile", s, "list")
                   /\ UNCHANGED <<record, tmux, worktree, owed>>

(* Wrong on purpose: looks for interrupted creations only.                 *)
ListCreating(o) ==
  /\ \/ /\ At(o, {"reconcile"}, "list")
        /\ Goto(o, IF status[op[o].s] = "Creating" THEN "drop" ELSE "busy")
     \/ At(o, {"reconcile"}, "busy") /\ Goto(o, "survey")
  /\ UNCHANGED <<record, tmux, worktree, owed>>

ListStale(o) ==
  LET st == status[op[o].s]
  IN /\ \/ /\ At(o, {"reconcile"}, "list")
           /\ Goto(o, IF st = "Creating" THEN "drop" ELSE "busy")
        \/ /\ At(o, {"reconcile"}, "busy")
           /\ Goto(o, IF st = "Merging" THEN "reset" ELSE "survey")
     /\ UNCHANGED <<record, tmux, worktree, owed>>

DropCreating(o) == /\ At(o, {"reconcile"}, "drop")
                   /\ Forget(op[o].s) /\ Goto(o, "idle")
                   /\ UNCHANGED <<tmux, worktree, owed>>

ResetBusy(o) == /\ At(o, {"reconcile"}, "reset")
                /\ MarkRunning(o, "survey")
                /\ UNCHANGED <<hibernated, keepAlive, pending, tmux, worktree, owed>>

(* Wrong on purpose: keeps the pane's state where the record's belongs.    *)
SurveyPane(o) == /\ At(o, {"reconcile"}, "survey")
                 /\ op' = [op EXCEPT ![o] =
                      IF status[op[o].s] \in CanAttach
                      THEN [@ EXCEPT !.pc = "probe", !.saw = pane[op[o].s]] ELSE Idle]
                 /\ UNCHANGED <<record, tmux, worktree, owed>>

Survey(o) == /\ At(o, {"reconcile"}, "survey")
             /\ op' = [op EXCEPT ![o] =
                  IF status[op[o].s] \in CanAttach
                  THEN [@ EXCEPT !.pc = "probe", !.saw = status[op[o].s]] ELSE Idle]
             /\ UNCHANGED <<record, tmux, worktree, owed>>

(* reconciled_status: live and Stopped becomes Running; not live and not   *)
(* Stopped becomes Stopped, after dropping what is left of the session.    *)
ProbePane(o) ==
  LET s == op[o].s
  IN /\ At(o, {"reconcile"}, "probe")
     /\ \/ MayFail("tmux") /\ Goto(o, "idle")
        \/ op' = [op EXCEPT ![o] =
             IF pane[s] \in Live /\ op[o].saw = "Stopped"
             THEN [@ EXCEPT !.pc = "commit", !.saw = "Running"]
             ELSE IF pane[s] \notin Live /\ op[o].saw # "Stopped"
                  THEN [@ EXCEPT !.pc = "kill", !.saw = "Stopped"] ELSE Idle]
     /\ UNCHANGED <<record, tmux, worktree, owed>>

MarkReconciled(o) ==
  /\ At(o, {"reconcile"}, "commit")
  /\ \/ /\ op[o].saw = "Running"
        /\ MarkRunning(o, "idle") /\ SetHibernated(op[o].s, FALSE)
     \/ /\ op[o].saw = "Stopped"
        /\ MarkStopped(op[o].s) /\ Goto(o, "idle") /\ UNCHANGED hibernated
  /\ UNCHANGED <<keepAlive, pending, tmux, worktree, owed>>
-----------------------------------------------------------------------------
(* cascade.rs on one session of its chain: Merging while git works, then   *)
(* Running, whatever the status was before.                                *)
Cascade(o, s) == /\ Exists(s) /\ Begin(o, "cascade", s, "busy")
                 /\ UNCHANGED <<record, tmux, worktree, owed>>

CascadeStatus(o) ==
  LET s == op[o].s
  IN /\ \/ /\ At(o, {"cascade"}, "busy")
           /\ status' = IF Exists(s) THEN [status EXCEPT ![s] = "Merging"] ELSE status
           /\ Goto(o, "reset")
        \/ /\ At(o, {"cascade"}, "reset")
           /\ MarkRunning(o, "idle")
     /\ UNCHANGED <<hibernated, keepAlive, pending, tmux, worktree, owed>>
-----------------------------------------------------------------------------
(* set_keep_alive, toggle_keep_alive.                                      *)
ToggleKeepAlive(s) == /\ Exists(s)
                      /\ keepAlive' = [keepAlive EXCEPT ![s] = ~@]
                      /\ UNCHANGED <<status, hibernated, pending, tmux, worktree, owed, op>>

(* edit_session with another program: it waits for an explicit restart.    *)
EditProgram(s) ==
  /\ Exists(s)
  /\ pending' = [pending EXCEPT ![s] = TRUE]
  /\ op' = [p \in Op |-> IF op[p].s = s /\ op[p].kind = "fresh"
                         THEN [op[p] EXCEPT !.moved = TRUE] ELSE op[p]]
  /\ UNCHANGED <<status, hibernated, keepAlive, tmux, worktree, owed>>

(* The user's side of tmux, and what goes wrong.                           *)
Detach(s) == /\ attached[s]
             /\ attached' = [attached EXCEPT ![s] = FALSE]
             /\ UNCHANGED <<record, pane, worktree, owed, op>>

AgentExits(s) == /\ MayFail("exit") /\ pane[s] \in Live
                 /\ \/ pane' = [pane EXCEPT ![s] = "dead"] /\ attached' = attached
                    \/ /\ pane' = [pane EXCEPT ![s] = "none"]
                       /\ attached' = [attached EXCEPT ![s] = FALSE]
                 /\ UNCHANGED <<record, worktree, owed, op>>

Abandon(o) == /\ MayFail("abandon") /\ op[o].pc # "idle"
              /\ Goto(o, "idle")
              /\ UNCHANGED <<record, tmux, worktree, owed>>

Start(o, s) == \/ Prepare(o, s)   \/ EnsureAttachable(o, s) \/ Restart(o, s)
               \/ Kill(o, s)      \/ ChangeProgram(o, s)    \/ Delete(o, s)
               \/ PickIdle(o, s)  \/ Reconcile(o, s)        \/ Cascade(o, s)

Step(o) == \/ KillTmux(o)        \/ LaunchPane(o)      \/ LaunchFails(o)
           \/ ReadPlaceholder(o) \/ AddWorktree(o)     \/ CommitCreated(o)
           \/ UndoWorktree(o)    \/ RemoveCreating(o)
           \/ CheckPane(o)       \/ MarkAttachable(o)  \/ SpawnClient(o)
           \/ Touch(o)           \/ MarkRestarted(o)   \/ MarkRestartFailed(o)
           \/ RemoveWorktree(o)  \/ MarkKilled(o)      \/ RemoveProject(o)
           \/ SnapshotStamp(o)   \/ CheckAttached(o)   \/ Recheck(o)
           \/ CheckReappeared(o) \/ MarkHibernated(o)
           \/ ListStale(o)       \/ DropCreating(o)    \/ ResetBusy(o)
           \/ Survey(o)          \/ ProbePane(o)       \/ MarkReconciled(o)
           \/ CascadeStatus(o)   \/ Abandon(o)

Next == /\ UNCHANGED workload
        /\ \/ \E o \in Op : Step(o) \/ \E s \in workload.sessions : Start(o, s)
           \/ \E s \in workload.sessions : \/ ToggleKeepAlive(s) \/ EditProgram(s)
                                           \/ Detach(s) \/ AgentExits(s)

Spec == Init /\ [][Next]_vars
-----------------------------------------------------------------------------
Place == {"idle", "read", "worktree", "name", "launch", "commit", "verify", "undo",
          "drop", "exists", "kill", "spawn", "touch", "stop", "rmtree", "forget",
          "snapshot", "attached", "recheck", "list", "busy", "reset", "survey", "probe"}

Status == Stored \cup {"unborn", "gone"}

TypeOK ==
  /\ workload \in Workload
  /\ status \in [Session -> Status]
  /\ hibernated \in [Session -> BOOLEAN]
  /\ keepAlive \in [Session -> BOOLEAN]
  /\ pending \in [Session -> BOOLEAN]
  /\ pane \in [Session -> Live \cup {"none", "dead"}]
  /\ attached \in [Session -> BOOLEAN]
  /\ worktree \in [Session -> BOOLEAN]
  /\ owed \in [Session -> BOOLEAN]
  /\ op \in [Op -> [kind : AllKinds \cup {"none"}, s : Session \cup {None}, pc : Place,
                    hib : BOOLEAN, saw : Status, moved : BOOLEAN]]

Quiet(s) == \A o \in Op : op[o].s # s

(* Between operations the record agrees with tmux: a live pane belongs to  *)
(* a session that is neither Stopped nor marked hibernated.                *)
LivePaneNotHibernated ==
  \A s \in Session : Quiet(s) /\ pane[s] \in Live /\ Exists(s)
                     => status[s] # "Stopped" /\ ~hibernated[s]

(* It does when calls come one at a time and only agents fail.             *)
SerialPanesAgree ==
  workload.alone /\ workload.faults \subseteq {"exit"} => LivePaneNotHibernated

(* Resume is what makes a stop non-destructive: after hibernation, or a    *)
(* kill that keeps the worktree, whatever brings the pane back resumes the *)
(* conversation, unless a fresh start was asked for by name.               *)
WakesResume ==
  \A s \in Session :
    owed[s] /\ pane[s] \notin Live /\ pane'[s] \in Live
    => \/ pane'[s] = "resumed"
       \/ \E o \in Op : op[o].s = s /\ op[o].kind \in {"fresh", "recover"}

(* Calls come one at a time; they may be dropped, or die with their        *)
(* process, midway.                                                        *)
CutShort == workload.alone /\ ~MayFail("tmux")

WakeResumes == [][CutShort => WakesResume]_vars

(* Startup reconciliation repairs what a dead process left: when it is     *)
(* done with a session no operation is shown as under way, and a session   *)
(* whose pane is live does not say Stopped.                                *)
Repairs ==
  \A o \in Op :
    /\ op[o].kind = "reconcile" /\ op'[o] = Idle
    /\ DropCreating(o) \/ Survey(o) \/ ProbePane(o) \/ MarkReconciled(o)
    => /\ status'[op[o].s] \notin {"Creating", "Merging"}
       /\ pane'[op[o].s] \in Live => status'[op[o].s] # "Stopped"

ReconcileRepairs == [][CutShort => Repairs]_vars

(* Whatever two calls do to a session, the marker is only ever on a        *)
(* Stopped one: a session that runs has nothing left to resume.  (Not with *)
(* cascades and creations, which say Running and leave the marker.)        *)
MarkerMeansStopped ==
  workload.kinds \cap {"create", "cascade"} = {} =>
    \A s \in Session : hibernated[s] => status[s] = "Stopped"

(* A worktree without a record has a call that will remove it: deletion    *)
(* and creation may race, none of them leaks a worktree.  (Not with the    *)
(* removal of a project or startup reconciliation, which drop records of   *)
(* creations under way, nor when a call is dropped.)                       *)
WorktreeOwned ==
  workload.kinds \cap {"remove", "reconcile"} = {} /\ ~MayFail("abandon") =>
    \A s \in Session : worktree[s] /\ ~Exists(s) =>
      \E o \in Op : /\ op[o].s = s
                    /\ \/ op[o].kind = "create"
                       \/ op[o].kind = "delete" /\ op[o].saw # "Creating"

(* Teardown leaves nothing startup reconciliation would not clean up: once *)
(* nothing is in flight, a live pane belongs to a session.                 *)
PaneOwned ==
  \A s \in Session : pane[s] \in Live /\ Quiet(s) => Exists(s)
=============================================================================
