------------------------ MODULE SessionLifecycleProofs ------------------------
(***************************************************************************)
(* Proofs about SessionLifecycle for any number of sessions and of calls   *)
(* in flight, any workload.                                                *)
(***************************************************************************)
EXTENDS SessionLifecycle, TLAPS

Call == [kind : AllKinds \cup {"none"}, s : Session \cup {None}, pc : Place,
         hib : BOOLEAN, saw : Status, moved : BOOLEAN]

(* Where a call of each kind can stand.                                    *)
InPlace(k, pc) ==
  \/ k = "none" /\ pc = "idle"
  \/ k = "create" /\ pc \in {"read", "worktree", "name", "launch", "commit", "verify",
                             "undo", "drop"}
  \/ k = "attach" /\ pc \in {"exists", "kill", "launch", "commit", "spawn"}
  \/ k \in Restarting /\ pc \in {"touch", "kill", "launch", "commit", "stop"}
  \/ k = "kill" /\ pc \in {"kill", "commit"}
  \/ k = "remove" /\ pc \in {"kill", "rmtree", "commit", "forget"}
  \/ k = "delete" /\ pc \in {"kill", "rmtree"}
  \/ k = "hibernate" /\ pc \in {"snapshot", "attached", "recheck", "kill", "exists", "commit"}
  \/ k = "reconcile" /\ pc \in {"list", "drop", "busy", "reset", "survey", "probe", "kill", "commit"}
  \/ k = "cascade" /\ pc \in {"busy", "reset"}

(* The outcome reconciliation carries from the probe to the record.        *)
SawShape(k, pc, saw) == k = "reconcile" => /\ pc = "kill" => saw = "Stopped"
                                           /\ pc = "commit" => saw \in {"Running", "Stopped"}

CallShape(c) ==
  /\ InPlace(c.kind, c.pc)
  /\ c.pc = "idle" => c = Idle
  /\ c.pc # "idle" => c.s \in workload.sessions /\ c.kind \in workload.kinds
  /\ SawShape(c.kind, c.pc, c.saw)

WellFormed == TypeOK /\ \A o \in Op : CallShape(op[o])

(* A call o goes to pc; the others stay where they are, though they may    *)
(* learn that something moved.                                             *)
SameCall(c, d) == /\ c.kind = d.kind /\ c.s = d.s /\ c.pc = d.pc
                  /\ c.hib = d.hib /\ c.saw = d.saw
                  /\ d.pc = "idle" => c = d

OthersStay(o) == \A p \in Op \ {o} : SameCall(op'[p], op[p])

MovesTo(o, c) == op' \in [Op -> Call] /\ op'[o] = c /\ OthersStay(o)

Ahead(o, pc) == IF pc = "idle" THEN Idle ELSE [op[o] EXCEPT !.pc = pc]
-----------------------------------------------------------------------------
LEMMA IdleType == Idle \in Call
  BY DEF Idle, Call, Place, Status

LEMMA CallFields ==
  ASSUME WellFormed, NEW o \in Op
  PROVE  /\ op \in [Op -> Call] /\ op[o] \in Call /\ CallShape(op[o])
         /\ workload.sessions \subseteq Session
         /\ op[o].pc # "idle" => op[o].s \in Session
  BY DEF WellFormed, TypeOK, Call, CallShape, Workload

LEMMA NextType ==
  ASSUME NEW o \in Op, op[o] \in Call, NEW pc \in Place
  PROVE  Ahead(o, pc) \in Call
  BY IdleType DEF Ahead, Call

LEMMA GotoMoves ==
  ASSUME WellFormed, NEW o \in Op, NEW pc \in Place, Goto(o, pc)
  PROVE  MovesTo(o, Ahead(o, pc))
<1>1. op \in [Op -> Call] /\ op[o] \in Call
  BY CallFields
<1>2. op' = [op EXCEPT ![o] = Ahead(o, pc)]
  BY DEF Goto, Ahead
<1> QED  BY <1>1, <1>2, NextType DEF MovesTo, OthersStay, SameCall

LEMMA MovingMoves ==
  ASSUME WellFormed, NEW o \in Op, NEW pc \in Place, NEW s \in Session, NEW k,
         GotoMoving(o, pc, s, k)
  PROVE  MovesTo(o, Ahead(o, pc))
<1>1. op \in [Op -> Call] /\ op[o] \in Call /\ Ahead(o, pc) \in Call
  BY CallFields, NextType
<1>2. op'[o] = Ahead(o, pc)
  BY DEF GotoMoving, Ahead
<1>3. ASSUME NEW p \in Op \ {o}
      PROVE  op'[p] \in Call /\ SameCall(op'[p], op[p])
  <2>1. op[p] \in Call /\ CallShape(op[p])
    BY CallFields
  <2>2. CASE op[p].s = s /\ op[p].kind \in k
    <3>1. op'[p] = [op[p] EXCEPT !.moved = TRUE]
      BY <2>2 DEF GotoMoving
    <3>2. op[p].pc # "idle"
      BY <2>1, <2>2, LifecycleAssumption DEF CallShape, Idle
    <3> QED  BY <2>1, <3>1, <3>2 DEF Call, SameCall
  <2>3. CASE ~(op[p].s = s /\ op[p].kind \in k)
    BY <2>1, <2>3 DEF GotoMoving, SameCall
  <2> QED  BY <2>2, <2>3
<1>4. op' \in [Op -> Call]
  BY <1>1, <1>2, <1>3 DEF GotoMoving
<1> QED  BY <1>2, <1>3, <1>4 DEF MovesTo, OthersStay

LEMMA RunningMoves ==
  ASSUME WellFormed, NEW o \in Op, op[o].pc # "idle", NEW pc \in Place, MarkRunning(o, pc)
  PROVE  /\ MovesTo(o, Ahead(o, pc))
         /\ status' = IF Exists(op[o].s) THEN [status EXCEPT ![op[o].s] = "Running"] ELSE status
  BY CallFields, GotoMoves, MovingMoves DEF MarkRunning

LEMMA BeginMoves ==
  ASSUME WellFormed, NEW o \in Op, NEW k, NEW s \in workload.sessions, NEW pc \in Place, Begin(o, k, s, pc)
  PROVE  /\ op[o].pc = "idle" /\ k \in workload.kinds
         /\ MovesTo(o, [kind |-> k, s |-> s, pc |-> pc, hib |-> hibernated[s],
                        saw |-> status[s], moved |-> FALSE])
<1> DEFINE c == [kind |-> k, s |-> s, pc |-> pc, hib |-> hibernated[s],
                 saw |-> status[s], moved |-> FALSE]
<1>1. op \in [Op -> Call] /\ s \in Session /\ k \in AllKinds
  BY CallFields DEF WellFormed, TypeOK, Workload, Begin
<1>2. c \in Call
  BY <1>1 DEF WellFormed, TypeOK, Call
<1>3. op' = [op EXCEPT ![o] = c]
  BY DEF Begin
<1> QED  BY <1>1, <1>2, <1>3 DEF MovesTo, OthersStay, SameCall, Begin
-----------------------------------------------------------------------------
RestTypeOK == /\ workload \in Workload
              /\ status \in [Session -> Status]
              /\ {hibernated, keepAlive, pending, attached, worktree, owed} \subseteq [Session -> BOOLEAN]
              /\ pane \in [Session -> Live \cup {"none", "dead"}]

LEMMA TypeParts == TypeOK <=> RestTypeOK /\ op \in [Op -> Call]
  BY DEF TypeOK, RestTypeOK, Call

LEMMA MovedShape ==
  ASSUME WellFormed, NEW o \in Op, NEW c, MovesTo(o, c), CallShape(c), UNCHANGED workload,
         RestTypeOK'
  PROVE  WellFormed'
<1>1. \A p \in Op : CallShape(op[p])'
  <2> SUFFICES ASSUME NEW p \in Op PROVE CallShape(op[p])'
    OBVIOUS
  <2>1. CASE p = o
    BY <2>1 DEF MovesTo, CallShape
  <2>2. CASE p # o
    BY <2>2, CallFields DEF MovesTo, OthersStay, SameCall, CallShape
  <2> QED  BY <2>1, <2>2 DEF CallShape
<1> QED  BY <1>1 DEF WellFormed, MovesTo, TypeOK, RestTypeOK, Call

(* The step of a call to another place of its kind, or to its end.         *)
LEMMA AheadShape ==
  ASSUME WellFormed, NEW o \in Op, op[o].pc # "idle", NEW pc \in Place,
         MovesTo(o, Ahead(o, pc)), UNCHANGED workload, RestTypeOK',
         pc = "idle" \/ InPlace(op[o].kind, pc),
         SawShape(op[o].kind, pc, op[o].saw)
  PROVE  WellFormed'
<1>1. CallShape(Idle)
  BY DEF CallShape, Idle, InPlace, Restarting, SawShape
<1>2. CASE pc = "idle"
  BY <1>1, <1>2, MovedShape DEF Ahead
<1>3. CASE pc # "idle"
  <2>1. op[o] \in Call /\ CallShape(op[o])
    BY CallFields
  <2>2. CallShape(Ahead(o, pc))
    BY <1>3, <2>1 DEF CallShape, Ahead, Call
  <2> QED  BY <2>2, MovedShape
<1> QED  BY <1>2, <1>3

LEMMA GotoOK ==
  ASSUME WellFormed, NEW o \in Op, op[o].pc # "idle", NEW pc \in Place, Goto(o, pc),
         UNCHANGED workload, RestTypeOK',
         pc = "idle" \/ InPlace(op[o].kind, pc),
         SawShape(op[o].kind, pc, op[o].saw)
  PROVE  WellFormed'
  BY GotoMoves, AheadShape

LEMMA BeginOK ==
  ASSUME WellFormed, NEW o \in Op, NEW k, NEW s \in workload.sessions, NEW pc \in Place \ {"idle"},
         Begin(o, k, s, pc), InPlace(k, pc), k = "reconcile" => pc = "list",
         UNCHANGED workload, RestTypeOK'
  PROVE  WellFormed'
  BY BeginMoves, MovedShape DEF CallShape, SawShape

(* What the helpers make of the record is a record.                        *)
LEMMA StoppedType ==
  ASSUME RestTypeOK, NEW s \in Session, MarkStopped(s)
  PROVE  status' \in [Session -> Status]
  BY DEF RestTypeOK, MarkStopped, Status, Stored

LEMMA RunningType ==
  ASSUME RestTypeOK, NEW s \in Session
  PROVE  [status EXCEPT ![s] = "Running"] \in [Session -> Status]
  BY DEF RestTypeOK, Status, Stored

LEMMA MarkerType ==
  ASSUME RestTypeOK, NEW s \in Session, NEW b \in BOOLEAN, SetHibernated(s, b)
  PROVE  hibernated' \in [Session -> BOOLEAN]
  BY DEF RestTypeOK, SetHibernated

LEMMA ForgetType ==
  ASSUME RestTypeOK, NEW s \in Session, Forget(s)
  PROVE  /\ status' \in [Session -> Status]
         /\ {hibernated', keepAlive', pending'} \subseteq [Session -> BOOLEAN]
  BY DEF RestTypeOK, Forget, Status, Stored
-----------------------------------------------------------------------------
(* What no action but the one named changes stays well typed.              *)
LEMMA StartOK ==
  ASSUME WellFormed, NEW o \in Op, NEW s \in workload.sessions, Start(o, s), UNCHANGED workload
  PROVE  WellFormed'
<1> USE DEF record, tmux, Place, InPlace, SawShape
<1>0. RestTypeOK /\ s \in Session
  BY TypeParts, CallFields DEF WellFormed
<1>1. CASE Prepare(o, s)
  <2>1. status' \in [Session -> Status]
    BY <1>0, <1>1 DEF Prepare, RestTypeOK, Status, Stored
  <2> QED  BY <1>0, <1>1, <2>1, BeginOK DEF Prepare, RestTypeOK
<1>2. CASE EnsureAttachable(o, s) \/ PickIdle(o, s) \/ Reconcile(o, s) \/ Cascade(o, s)
  BY <1>0, <1>2, BeginOK DEF EnsureAttachable, PickIdle, Reconcile, Cascade, RestTypeOK
<1>3. CASE Restart(o, s)
  <2>1. PICK k \in Restarting : Begin(o, k, s, "touch")
    BY <1>3 DEF Restart
  <2>2. RestTypeOK' /\ InPlace(k, "touch") /\ k # "reconcile"
    BY <1>0, <1>3 DEF Restart, RestTypeOK, Restarting
  <2> HIDE DEF InPlace
  <2> QED  BY <2>1, <2>2, BeginOK
<1>6. CASE ChangeProgram(o, s)
  <2>1. RestTypeOK'
    BY <1>0, <1>6 DEF ChangeProgram, RestTypeOK
  <2>2. InPlace("fresh", "touch")
    BY DEF Restarting
  <2> HIDE DEF InPlace
  <2> QED  BY <1>6, <2>1, <2>2, BeginOK DEF ChangeProgram
<1>4. CASE Kill(o, s)
  BY <1>0, <1>4, BeginOK DEF Kill, RestTypeOK
<1>5. CASE Delete(o, s)
  <2>1. RestTypeOK'
    BY <1>0, <1>5, ForgetType DEF Delete, RestTypeOK
  <2> QED  BY <1>5, <2>1, BeginOK DEF Delete
<1> QED  BY <1>1, <1>2, <1>3, <1>4, <1>5, <1>6 DEF Start

(* tmux's steps.                                                           *)
LEMMA TmuxOK ==
  ASSUME WellFormed, NEW o \in Op, UNCHANGED workload,
         KillTmux(o) \/ LaunchPane(o) \/ LaunchFails(o)
  PROVE  WellFormed'
<1> USE DEF record, tmux, Place, InPlace, SawShape, Restarting
<1>0. RestTypeOK /\ op[o] \in Call /\ CallShape(op[o]) /\ op[o].pc # "idle" /\ op[o].s \in Session
  BY TypeParts, CallFields DEF WellFormed, KillTmux, LaunchPane, LaunchFails
<1>1. CASE KillTmux(o)
  <2>1. RestTypeOK'
    <3>1. pane' \in [Session -> Live \cup {"none", "dead"}] /\ attached' \in [Session -> BOOLEAN]
      BY <1>0, <1>1 DEF KillTmux, RestTypeOK
    <3> QED  BY <1>0, <1>1, <3>1 DEF KillTmux, RestTypeOK
  <2>2. /\ AfterKill(op[o].kind) \in Place \ {"idle"}
        /\ InPlace(op[o].kind, AfterKill(op[o].kind))
    BY <1>0, <1>1 DEF KillTmux, CallShape, AfterKill
  <2>3. SawShape(op[o].kind, AfterKill(op[o].kind), op[o].saw)
    BY <1>0, <1>1 DEF KillTmux, CallShape, SawShape, AfterKill
  <2>4. Goto(o, AfterKill(op[o].kind)) /\ UNCHANGED workload
    BY <1>1 DEF KillTmux
  <2> HIDE DEF InPlace, Place
  <2> QED  BY <1>0, <2>1, <2>2, <2>3, <2>4, GotoOK
<1>2. ASSUME op[o].pc = "launch"
      PROVE  /\ AfterFailedLaunch(op[o].kind) \in Place
             /\ \/ AfterFailedLaunch(op[o].kind) = "idle"
                \/ InPlace(op[o].kind, AfterFailedLaunch(op[o].kind))
             /\ InPlace(op[o].kind, "commit") /\ op[o].kind # "reconcile"
             /\ "commit" \in Place
  BY <1>0, <1>2 DEF CallShape, AfterFailedLaunch
<1>3. CASE LaunchPane(o)
  <2>1. RestTypeOK'
    BY <1>0, <1>3 DEF LaunchPane, RestTypeOK, Live
  <2>2. op[o].pc = "launch" /\ (Goto(o, "commit") \/ Goto(o, AfterFailedLaunch(op[o].kind)))
    BY <1>3 DEF LaunchPane
  <2> HIDE DEF InPlace, Place
  <2> QED  BY <1>0, <1>2, <2>1, <2>2, GotoOK
<1>4. CASE LaunchFails(o)
  <2>1. op[o].pc = "launch" /\ RestTypeOK' /\ Goto(o, AfterFailedLaunch(op[o].kind))
    BY <1>0, <1>4 DEF LaunchFails, RestTypeOK
  <2> HIDE DEF InPlace, Place
  <2> QED  BY <1>0, <1>2, <2>1, GotoOK
<1> QED  BY <1>1, <1>3, <1>4

(* A creation's steps.                                                     *)
LEMMA CreateOK ==
  ASSUME WellFormed, NEW o \in Op, UNCHANGED workload,
         \/ ReadPlaceholder(o) \/ AddWorktree(o) \/ CommitCreated(o)
         \/ UndoWorktree(o) \/ RemoveCreating(o)
  PROVE  WellFormed'
<1> USE DEF record, tmux, Place, InPlace, SawShape, At
<1>0. RestTypeOK /\ op[o].pc # "idle" /\ op[o].kind = "create" /\ op[o].s \in Session
  BY TypeParts, CallFields DEF WellFormed, ReadPlaceholder, AddWorktree, CommitCreated,
     UndoWorktree, RemoveCreating
<1>1. CASE ReadPlaceholder(o)
  BY <1>0, <1>1, GotoOK DEF ReadPlaceholder, AfterRead, RestTypeOK
<1>2. CASE AddWorktree(o)
  <2>1. worktree' \in [Session -> BOOLEAN] /\ (Goto(o, "name") \/ Goto(o, "drop"))
    BY <1>0, <1>2 DEF AddWorktree, RestTypeOK
  <2>2. RestTypeOK'
    BY <1>0, <1>2, <2>1 DEF AddWorktree, RestTypeOK
  <2> QED  BY <1>0, <2>1, <2>2, GotoOK
<1>3. CASE CommitCreated(o)
  <2>1. CASE MarkRunning(o, "verify")
    <3>1. status' \in [Session -> Status]
      BY <1>0, <2>1, RunningMoves, RunningType DEF RestTypeOK
    <3> QED  BY <1>0, <1>3, <2>1, <3>1, RunningMoves, AheadShape DEF CommitCreated, RestTypeOK
  <2>2. CASE status' = status /\ Goto(o, "undo")
    BY <1>0, <1>3, <2>2, GotoOK DEF CommitCreated, RestTypeOK
  <2> QED  BY <1>3, <2>1, <2>2 DEF CommitCreated
<1>4. CASE UndoWorktree(o)
  BY <1>0, <1>4, GotoOK DEF UndoWorktree, RestTypeOK
<1>5. CASE RemoveCreating(o)
  BY <1>0, <1>5, ForgetType, GotoOK DEF RemoveCreating, RestTypeOK
<1> QED  BY <1>1, <1>2, <1>3, <1>4, <1>5

(* The steps of an attach and of a restart.                                *)
LEMMA WakeOK ==
  ASSUME WellFormed, NEW o \in Op, UNCHANGED workload,
         \/ CheckPane(o) \/ MarkAttachable(o) \/ SpawnClient(o)
         \/ Touch(o) \/ MarkRestarted(o) \/ MarkRestartFailed(o)
  PROVE  WellFormed'
<1> USE DEF record, tmux, Place, InPlace, SawShape, At, Restarting
<1>0. RestTypeOK /\ op[o].pc # "idle" /\ op[o].kind # "reconcile" /\ op[o].s \in Session
  BY TypeParts, CallFields DEF WellFormed, CheckPane, MarkAttachable, SpawnClient, Touch,
     MarkRestarted, MarkRestartFailed
<1>1. CASE CheckPane(o)
  <2>1. RestTypeOK' /\ op[o].kind = "attach"
    BY <1>0, <1>1 DEF CheckPane, RestTypeOK
  <2>2. PICK pc \in {"launch", "kill", "spawn", "commit", "idle"} : Goto(o, pc)
    BY <1>1 DEF CheckPane
  <2> QED  BY <1>0, <2>1, <2>2, GotoOK
<1>2. CASE MarkAttachable(o)
  <2>1. status' \in [Session -> Status] /\ hibernated' \in [Session -> BOOLEAN]
    BY <1>0, <1>2, RunningMoves, RunningType, MarkerType DEF MarkAttachable, RestTypeOK
  <2> QED  BY <1>0, <1>2, <2>1, RunningMoves, AheadShape DEF MarkAttachable, RestTypeOK
<1>3. CASE SpawnClient(o)
  BY <1>0, <1>3, GotoOK DEF SpawnClient, RestTypeOK
<1>4. CASE Touch(o)
  <2>1. RestTypeOK' /\ op[o].kind \in Restarting
    BY <1>0, <1>4 DEF Touch, RestTypeOK
  <2>2. MovesTo(o, Ahead(o, "kill"))
    BY <1>0, <1>4, GotoMoves, MovingMoves DEF Touch
  <2> QED  BY <1>0, <2>1, <2>2, AheadShape
<1>5. CASE MarkRestarted(o)
  <2>1. status' \in [Session -> Status] /\ hibernated' \in [Session -> BOOLEAN]
    BY <1>0, <1>5, RunningMoves, RunningType, MarkerType DEF MarkRestarted, RestTypeOK
  <2>2. pending' \in [Session -> BOOLEAN]
    BY <1>0, <1>5 DEF MarkRestarted, RestTypeOK
  <2> QED  BY <1>0, <1>5, <2>1, <2>2, RunningMoves, AheadShape DEF MarkRestarted, RestTypeOK
<1>6. CASE MarkRestartFailed(o)
  BY <1>0, <1>6, StoppedType, GotoOK DEF MarkRestartFailed, RestTypeOK
<1> QED  BY <1>1, <1>2, <1>3, <1>4, <1>5, <1>6

(* The steps of a kill, a deletion and a hibernation.                      *)
LEMMA StopOK ==
  ASSUME WellFormed, NEW o \in Op, UNCHANGED workload,
         \/ RemoveWorktree(o) \/ MarkKilled(o) \/ RemoveProject(o)
         \/ SnapshotStamp(o) \/ CheckAttached(o) \/ Recheck(o)
         \/ CheckReappeared(o) \/ MarkHibernated(o)
  PROVE  WellFormed'
<1> USE DEF record, tmux, Place, InPlace, SawShape, At
<1>0. /\ RestTypeOK /\ op[o].pc # "idle" /\ op[o].kind # "reconcile" /\ op[o].s \in Session
      /\ op[o] \in Call /\ CallShape(op[o])
  BY TypeParts, CallFields DEF WellFormed, RemoveWorktree, MarkKilled, RemoveProject, SnapshotStamp,
     CheckAttached, Recheck, CheckReappeared, MarkHibernated
<1>1. CASE RemoveWorktree(o)
  <2>1. RestTypeOK' /\ op[o].kind \in {"remove", "delete"}
    BY <1>0, <1>1 DEF RemoveWorktree, RestTypeOK
  <2> QED  BY <1>0, <1>1, <2>1, GotoOK DEF RemoveWorktree
<1>2. CASE MarkKilled(o)
  <2>1. status' \in [Session -> Status] /\ hibernated' \in [Session -> BOOLEAN]
    BY <1>0, <1>2, StoppedType, MarkerType DEF MarkKilled
  <2>2. owed' \in [Session -> BOOLEAN]
    BY <1>0, <1>2 DEF MarkKilled, RestTypeOK
  <2> QED  BY <1>0, <1>2, <2>1, <2>2, GotoOK DEF MarkKilled, RestTypeOK
<1>3. CASE RemoveProject(o)
  BY <1>0, <1>3, ForgetType, GotoOK DEF RemoveProject, RestTypeOK
<1>4. CASE SnapshotStamp(o)
  <2>1. RestTypeOK' /\ op[o].kind = "hibernate" /\ op \in [Op -> Call]
    BY <1>0, <1>4, CallFields DEF SnapshotStamp, RestTypeOK
  <2>2. CASE Exists(op[o].s)
    <3> DEFINE c == [op[o] EXCEPT !.pc = "attached", !.moved = FALSE]
    <3>1. c \in Call /\ CallShape(c)
      BY <1>0, <2>1 DEF Call, CallShape
    <3>2. MovesTo(o, c)
      BY <1>4, <2>1, <2>2, <3>1 DEF SnapshotStamp, MovesTo, OthersStay, SameCall
    <3> QED  BY <1>4, <2>1, <3>1, <3>2, MovedShape
  <2>3. CASE ~Exists(op[o].s)
    BY <1>0, <1>4, <2>1, <2>3, GotoOK DEF SnapshotStamp, Goto
  <2> QED  BY <2>2, <2>3
<1>5. CASE CheckAttached(o)
  BY <1>0, <1>5, GotoOK DEF CheckAttached, RestTypeOK
<1>6. CASE Recheck(o)
  BY <1>0, <1>6, GotoOK DEF Recheck, RestTypeOK
<1>7. CASE CheckReappeared(o)
  BY <1>0, <1>7, GotoOK DEF CheckReappeared, RestTypeOK
<1>8. CASE MarkHibernated(o)
  <2>1. status' \in [Session -> Status] /\ hibernated' \in [Session -> BOOLEAN]
    BY <1>0, <1>8, StoppedType, MarkerType DEF MarkHibernated, RestTypeOK
  <2>2. owed' \in [Session -> BOOLEAN]
    BY <1>0, <1>8 DEF MarkHibernated, RestTypeOK
  <2> QED  BY <1>0, <1>8, <2>1, <2>2, GotoOK DEF MarkHibernated, RestTypeOK
<1> QED  BY <1>1, <1>2, <1>3, <1>4, <1>5, <1>6, <1>7, <1>8

(* The steps of startup reconciliation and of a cascade, and a call that   *)
(* is dropped.                                                             *)
LEMMA RepairOK ==
  ASSUME WellFormed, NEW o \in Op, UNCHANGED workload,
         \/ ListStale(o) \/ DropCreating(o) \/ ResetBusy(o) \/ Survey(o) \/ ProbePane(o)
         \/ MarkReconciled(o) \/ CascadeStatus(o) \/ Abandon(o)
  PROVE  WellFormed'
<1> USE DEF record, tmux, Place, InPlace, SawShape, At
<1>0. /\ RestTypeOK /\ op[o].pc # "idle" /\ op[o].s \in Session
      /\ op \in [Op -> Call] /\ op[o] \in Call /\ CallShape(op[o])
  BY TypeParts, CallFields DEF WellFormed, ListStale, DropCreating, ResetBusy, Survey, ProbePane,
     MarkReconciled, CascadeStatus, Abandon
<1>1. CASE ListStale(o)
  <2>1. RestTypeOK' /\ op[o].kind = "reconcile"
    BY <1>0, <1>1 DEF ListStale, RestTypeOK
  <2>2. PICK pc \in {"drop", "busy", "reset", "survey"} : Goto(o, pc)
    BY <1>1 DEF ListStale
  <2> QED  BY <1>0, <2>1, <2>2, GotoOK
<1>2. CASE DropCreating(o)
  BY <1>0, <1>2, ForgetType, GotoOK DEF DropCreating, RestTypeOK
<1>3. CASE ResetBusy(o)
  <2>1. status' \in [Session -> Status]
    BY <1>0, <1>3, RunningMoves, RunningType DEF ResetBusy, RestTypeOK
  <2> QED  BY <1>0, <1>3, <2>1, RunningMoves, AheadShape DEF ResetBusy, RestTypeOK
<1>4. CASE Survey(o)
  <2>1. RestTypeOK' /\ op[o].kind = "reconcile"
    BY <1>0, <1>4 DEF Survey, RestTypeOK
  <2>2. CASE status[op[o].s] \in CanAttach
    <3> DEFINE c == [op[o] EXCEPT !.pc = "probe", !.saw = status[op[o].s]]
    <3>1. c \in Call /\ CallShape(c)
      BY <1>0, <2>1 DEF Call, CallShape, RestTypeOK
    <3>2. MovesTo(o, c)
      BY <1>0, <1>4, <2>2, <3>1 DEF Survey, MovesTo, OthersStay, SameCall
    <3> QED  BY <1>4, <2>1, <3>1, <3>2, MovedShape
  <2>3. CASE status[op[o].s] \notin CanAttach
    BY <1>0, <1>4, <2>1, <2>3, GotoOK DEF Survey, Goto
  <2> QED  BY <2>2, <2>3
<1>5. CASE ProbePane(o)
  <2>1. RestTypeOK' /\ op[o].kind = "reconcile" /\ UNCHANGED workload
    BY <1>0, <1>5 DEF ProbePane, RestTypeOK
  <2>2. CASE Goto(o, "idle")
    BY <1>0, <2>1, <2>2, GotoOK
  <2>3. ASSUME NEW pc \in {"commit", "kill"}, NEW st \in {"Running", "Stopped"},
               pc = "kill" => st = "Stopped",
               op' = [op EXCEPT ![o] = [op[o] EXCEPT !.pc = pc, !.saw = st]]
        PROVE  WellFormed'
    <3> DEFINE c == [op[o] EXCEPT !.pc = pc, !.saw = st]
    <3>1. c \in Call /\ CallShape(c)
      BY <1>0, <2>1, <2>3 DEF Call, CallShape, Status, Stored
    <3>2. MovesTo(o, c)
      BY <1>0, <2>3, <3>1 DEF MovesTo, OthersStay, SameCall
    <3> QED  BY <2>1, <3>1, <3>2, MovedShape
  <2>4. CASE op' = [op EXCEPT ![o] = Idle]
    BY <2>2, <2>4 DEF Goto
  <2>5. \/ Goto(o, "idle") \/ op' = [op EXCEPT ![o] = Idle]
        \/ \E pc \in {"commit", "kill"}, st \in {"Running", "Stopped"} :
             /\ pc = "kill" => st = "Stopped"
             /\ op' = [op EXCEPT ![o] = [op[o] EXCEPT !.pc = pc, !.saw = st]]
    <3> HIDE DEF Place, InPlace
    <3> QED  BY <1>5 DEF ProbePane
  <2> QED  BY <2>2, <2>3, <2>4, <2>5
<1>6. CASE MarkReconciled(o)
  <2>1. CASE MarkRunning(o, "idle") /\ SetHibernated(op[o].s, FALSE)
    <3>1. status' \in [Session -> Status] /\ hibernated' \in [Session -> BOOLEAN]
      BY <1>0, <2>1, RunningMoves, RunningType, MarkerType DEF RestTypeOK
    <3> QED  BY <1>0, <1>6, <2>1, <3>1, RunningMoves, AheadShape DEF MarkReconciled, RestTypeOK
  <2>2. CASE MarkStopped(op[o].s) /\ Goto(o, "idle") /\ UNCHANGED hibernated
    BY <1>0, <1>6, <2>2, StoppedType, GotoOK DEF MarkReconciled, RestTypeOK
  <2> QED  BY <1>6, <2>1, <2>2 DEF MarkReconciled
<1>7. CASE CascadeStatus(o)
  <2>1. CASE At(o, {"cascade"}, "busy")
    <3>1. status' \in [Session -> Status]
      BY <1>0, <1>7, <2>1 DEF CascadeStatus, RestTypeOK, Status, Stored
    <3> QED  BY <1>0, <1>7, <2>1, <3>1, GotoOK DEF CascadeStatus, RestTypeOK
  <2>2. CASE At(o, {"cascade"}, "reset") /\ MarkRunning(o, "idle")
    <3>1. status' \in [Session -> Status]
      BY <1>0, <2>2, RunningMoves, RunningType DEF RestTypeOK
    <3> QED  BY <1>0, <1>7, <2>2, <3>1, RunningMoves, AheadShape DEF CascadeStatus, RestTypeOK
  <2> QED  BY <1>7, <2>1, <2>2 DEF CascadeStatus
<1>8. CASE Abandon(o)
  BY <1>0, <1>8, GotoOK DEF Abandon, RestTypeOK
<1> QED  BY <1>1, <1>2, <1>3, <1>4, <1>5, <1>6, <1>7, <1>8

(* What happens to a session without a call.                               *)
LEMMA SessionOK ==
  ASSUME WellFormed, NEW s \in workload.sessions, UNCHANGED workload,
         ToggleKeepAlive(s) \/ EditProgram(s) \/ Detach(s) \/ AgentExits(s)
  PROVE  /\ WellFormed'
         /\ UNCHANGED <<status, hibernated, worktree, owed>>
         /\ \A o \in Op : SameCall(op'[o], op[o])
         /\ \A t \in Session : (pane'[t] = pane[t]) \/ (pane[t] \in Live /\ pane'[t] \in {"dead", "none"})
<1> USE DEF record, tmux
<1>0. RestTypeOK /\ op \in [Op -> Call] /\ s \in Session /\ \A o \in Op : CallShape(op[o])
  BY TypeParts DEF WellFormed, RestTypeOK, Workload
<1>1. UNCHANGED <<status, hibernated, worktree, owed>>
  BY DEF ToggleKeepAlive, EditProgram, Detach, AgentExits
<1>5. CASE AgentExits(s)
  <2>1. PICK what \in {"dead", "none"} : pane[s] \in Live /\ pane' = [pane EXCEPT ![s] = what]
    BY <1>5 DEF AgentExits
  <2>2. attached' \in [Session -> BOOLEAN]
    BY <1>0, <1>5 DEF AgentExits, RestTypeOK
  <2>3. /\ pane' \in [Session -> Live \cup {"none", "dead"}]
        /\ \A t \in Session : pane'[t] = IF t = s THEN what ELSE pane[t]
    BY <1>0, <2>1 DEF RestTypeOK
  <2>4. UNCHANGED <<keepAlive, pending, op>>
    BY <1>5 DEF AgentExits
  <2>5. WellFormed'
    <3>1. RestTypeOK'
      BY <1>0, <1>1, <2>2, <2>3, <2>4 DEF RestTypeOK
    <3>2. \A o \in Op : CallShape(op[o])'
      BY <1>0, <2>4 DEF CallShape
    <3> QED  BY <1>0, <2>4, <3>1, <3>2 DEF WellFormed, TypeOK, RestTypeOK, Call
  <2>6. \A o \in Op : SameCall(op'[o], op[o])
    BY <2>4 DEF SameCall
  <2>7. \A t \in Session : (pane'[t] = pane[t]) \/ (pane[t] \in Live /\ pane'[t] \in {"dead", "none"})
    BY <2>1, <2>3
  <2> QED  BY <1>1, <2>5, <2>6, <2>7
<1>6. CASE ~AgentExits(s)
  <2>1. op' \in [Op -> Call] /\ \A o \in Op : SameCall(op'[o], op[o])
    <3>1. CASE EditProgram(s)
      <4>1. \A o \in Op : op[o].pc = "idle" => op[o].s # s
        BY <1>0, LifecycleAssumption DEF CallShape, Idle
      <4> QED  BY <1>0, <3>1, <4>1 DEF EditProgram, Call, SameCall
    <3>2. CASE ~EditProgram(s)
      BY <1>0, <1>6, <3>2 DEF ToggleKeepAlive, Detach, SameCall
    <3> QED  BY <3>1, <3>2
  <2>2. pane' = pane
    BY <1>6 DEF ToggleKeepAlive, EditProgram, Detach
  <2>3. {keepAlive', pending', attached'} \subseteq [Session -> BOOLEAN]
    <3>1. CASE ToggleKeepAlive(s)
      BY <1>0, <3>1 DEF ToggleKeepAlive, RestTypeOK
    <3>2. CASE EditProgram(s)
      BY <1>0, <3>2 DEF EditProgram, RestTypeOK
    <3>3. CASE Detach(s)
      BY <1>0, <3>3 DEF Detach, RestTypeOK
    <3> QED  BY <1>6, <3>1, <3>2, <3>3
  <2>4. \A o \in Op : CallShape(op[o])'
    BY <1>0, <2>1 DEF SameCall, CallShape
  <2>5. RestTypeOK'
    BY <1>0, <1>1, <2>2, <2>3 DEF RestTypeOK
  <2>6. WellFormed'
    BY <2>1, <2>4, <2>5 DEF WellFormed, TypeOK, RestTypeOK, Call
  <2> QED  BY <1>1, <2>1, <2>2, <2>6
<1> QED  BY <1>5, <1>6

LEMMA WellFormedInit == Init => WellFormed
<1> SUFFICES ASSUME Init PROVE WellFormed
  OBVIOUS
<1>1. RestTypeOK
  BY LifecycleAssumption DEF Init, RestTypeOK, Status, Stored, Live
<1>2. op \in [Op -> Call] /\ \A o \in Op : op[o] = Idle
  BY IdleType DEF Init
<1>3. CallShape(Idle)
  BY DEF CallShape, Idle, InPlace, Restarting, SawShape
<1> QED  BY <1>1, <1>2, <1>3, TypeParts DEF WellFormed

LEMMA WellFormedStep == WellFormed /\ [Next]_vars => WellFormed'
<1> SUFFICES ASSUME WellFormed, [Next]_vars PROVE WellFormed'
  OBVIOUS
<1>1. CASE UNCHANGED vars
  BY <1>1 DEF vars, record, tmux, WellFormed, TypeOK, CallShape
<1>2. ASSUME UNCHANGED workload, NEW o \in Op, Step(o) PROVE WellFormed'
  BY <1>2, TmuxOK, CreateOK, WakeOK, StopOK, RepairOK DEF Step
<1>3. ASSUME UNCHANGED workload, NEW o \in Op, NEW s \in workload.sessions, Start(o, s)
      PROVE  WellFormed'
  BY <1>3, StartOK
<1>4. ASSUME UNCHANGED workload, NEW s \in workload.sessions,
             ToggleKeepAlive(s) \/ EditProgram(s) \/ Detach(s) \/ AgentExits(s)
      PROVE  WellFormed'
  BY <1>4, SessionOK
<1> QED  BY <1>1, <1>2, <1>3, <1>4 DEF Next

LEMMA WellFormedAlways == Spec => []WellFormed
<1> QED  BY WellFormedInit, WellFormedStep, PTL DEF Spec

(* Records, panes and calls keep their types, and each call stands where   *)
(* its operation has a step (CallShape), under any workload.               *)
THEOREM LifecycleTypes == Spec => []TypeOK
<1>1. WellFormed => TypeOK
  BY DEF WellFormed
<1> QED  BY <1>1, WellFormedAlways, PTL
-----------------------------------------------------------------------------
(* Where a step takes its call, and that it takes no other one anywhere.   *)
LEMMA Goes ==
  ASSUME WellFormed, NEW o \in Op, op[o].pc # "idle", NEW pc \in Place,
         Goto(o, pc) \/ MarkRunning(o, pc)
  PROVE  op'[o] = Ahead(o, pc) /\ OthersStay(o)
  BY GotoMoves, RunningMoves DEF MovesTo

LEMMA Touches ==
  ASSUME WellFormed, NEW o \in Op, Touch(o)
  PROVE  op'[o] = Ahead(o, "kill") /\ OthersStay(o)
  BY GotoMoves, MovingMoves, CallFields DEF Touch, At, MovesTo, Place

LEMMA StepCall ==
  ASSUME WellFormed, NEW o \in Op, Step(o)
  PROVE  /\ op[o].pc # "idle" /\ op[o].s \in Session
         /\ OthersStay(o)
         /\ \/ op'[o] = Idle
            \/ /\ op'[o].kind = op[o].kind /\ op'[o].s = op[o].s /\ op'[o].hib = op[o].hib
               /\ op'[o].pc # "idle"
<1> USE DEF At
<1>1. op \in [Op -> Call] /\ op[o].pc # "idle" /\ op[o].s \in Session /\ op[o] \in Call
  <2>1. op[o].pc # "idle"
    BY DEF Step, KillTmux, LaunchPane, LaunchFails, ReadPlaceholder, AddWorktree, CommitCreated,
       UndoWorktree, RemoveCreating, CheckPane, MarkAttachable, SpawnClient, Touch, MarkRestarted,
       MarkRestartFailed, RemoveWorktree, MarkKilled, RemoveProject, SnapshotStamp, CheckAttached,
       Recheck, CheckReappeared, MarkHibernated, ListStale, DropCreating, ResetBusy, Survey,
       ProbePane, MarkReconciled, CascadeStatus, Abandon
  <2> QED  BY <2>1, CallFields
<1>2. CASE \E pc \in Place : Goto(o, pc) \/ MarkRunning(o, pc)
  BY <1>1, <1>2, Goes DEF Ahead, Call
<1>3. CASE Touch(o)
  BY <1>1, <1>3, Touches DEF Ahead, Call
<1>4. CASE SnapshotStamp(o) \/ Survey(o) \/ ProbePane(o)
  <2>1. CASE SnapshotStamp(o)
    BY <1>1, <2>1 DEF SnapshotStamp, OthersStay, SameCall, Call
  <2>2. CASE Survey(o)
    BY <1>1, <2>2 DEF Survey, OthersStay, SameCall, Call
  <2>3. CASE ProbePane(o)
    <3>1. op' = [op EXCEPT ![o] = op'[o]] 
      BY <1>1, <2>3 DEF ProbePane, Goto
    <3>2. \/ op'[o] = Idle
          \/ \E pc \in {"commit", "kill"}, st \in {"Running", "Stopped"} :
               op'[o] = [op[o] EXCEPT !.pc = pc, !.saw = st]
      BY <1>1, <2>3 DEF ProbePane, Goto
    <3> QED  BY <1>1, <3>1, <3>2 DEF OthersStay, SameCall, Call
  <2> QED  BY <1>4, <2>1, <2>2, <2>3
<1>5. CASE ~(\E pc \in Place : Goto(o, pc) \/ MarkRunning(o, pc))
  BY <1>3, <1>4, <1>5 DEF Step, KillTmux, LaunchPane, LaunchFails, ReadPlaceholder, AddWorktree, CommitCreated,
       UndoWorktree, RemoveCreating, CheckPane, MarkAttachable, SpawnClient, MarkRestarted,
       MarkRestartFailed, RemoveWorktree, MarkKilled, RemoveProject, CheckAttached,
       Recheck, CheckReappeared, MarkHibernated, ListStale, DropCreating, ResetBusy, 
       MarkReconciled, CascadeStatus, Abandon, Place, AfterKill, AfterFailedLaunch, AfterRead
<1> QED  BY <1>2, <1>5
(* The steps each kind of call takes.                                      *)
LEMMA StepsOf ==
  ASSUME WellFormed, NEW o \in Op, Step(o)
  PROVE  /\ op[o].kind = "create" =>
              \/ LaunchPane(o) \/ LaunchFails(o) \/ ReadPlaceholder(o) \/ AddWorktree(o)
              \/ CommitCreated(o) \/ UndoWorktree(o) \/ RemoveCreating(o) \/ Abandon(o)
         /\ op[o].kind = "attach" =>
              \/ KillTmux(o) \/ LaunchPane(o) \/ LaunchFails(o) \/ CheckPane(o)
              \/ MarkAttachable(o) \/ SpawnClient(o) \/ Abandon(o)
         /\ op[o].kind \in Restarting =>
              \/ KillTmux(o) \/ LaunchPane(o) \/ LaunchFails(o) \/ Touch(o)
              \/ MarkRestarted(o) \/ MarkRestartFailed(o) \/ Abandon(o)
         /\ op[o].kind \in {"kill", "remove", "delete"} =>
              \/ KillTmux(o) \/ RemoveWorktree(o) \/ MarkKilled(o) \/ RemoveProject(o) \/ Abandon(o)
         /\ op[o].kind = "hibernate" =>
              \/ KillTmux(o) \/ SnapshotStamp(o) \/ CheckAttached(o) \/ Recheck(o)
              \/ CheckReappeared(o) \/ MarkHibernated(o) \/ Abandon(o)
         /\ op[o].kind = "reconcile" =>
              \/ KillTmux(o) \/ ListStale(o) \/ DropCreating(o) \/ ResetBusy(o) \/ Survey(o)
              \/ ProbePane(o) \/ MarkReconciled(o) \/ Abandon(o)
         /\ op[o].kind = "cascade" => CascadeStatus(o) \/ Abandon(o)
<1>1. op[o].pc = "launch" => op[o].kind \in {"create", "attach"} \cup Restarting
  BY CallFields DEF CallShape, InPlace
<1>2. op[o].pc = "kill" => op[o].kind \notin {"create", "cascade"}
  BY CallFields DEF CallShape, InPlace, Restarting
<1> QED  BY <1>1, <1>2 DEF Step, At, Restarting, KillTmux, LaunchPane, LaunchFails, ReadPlaceholder, AddWorktree,
       CommitCreated, UndoWorktree, RemoveCreating, CheckPane, MarkAttachable, SpawnClient, Touch,
       MarkRestarted, MarkRestartFailed, RemoveWorktree, MarkKilled, RemoveProject, SnapshotStamp,
       CheckAttached, Recheck, CheckReappeared, MarkHibernated, ListStale, DropCreating, ResetBusy,
       Survey, ProbePane, MarkReconciled, CascadeStatus

LEMMA StartCall ==
  ASSUME WellFormed, NEW o \in Op, NEW s \in workload.sessions, Start(o, s)
  PROVE  /\ op[o].pc = "idle" /\ OthersStay(o) /\ s \in Session
         /\ op'[o].s = s /\ op'[o].hib = hibernated[s] /\ op'[o].saw = status[s]
         /\ workload.alone => \A p \in Op : op[p].pc = "idle"
         /\ \/ Prepare(o, s) /\ op'[o].kind = "create" /\ op'[o].pc = "read"
            \/ EnsureAttachable(o, s) /\ op'[o].kind = "attach" /\ op'[o].pc = "exists"
            \/ Restart(o, s) /\ op'[o].kind \in Restarting /\ op'[o].pc = "touch"
            \/ ChangeProgram(o, s) /\ op'[o].kind = "fresh" /\ op'[o].pc = "touch"
            \/ Kill(o, s) /\ op'[o].kind \in {"kill", "remove"} /\ op'[o].pc = "kill"
            \/ Delete(o, s) /\ op'[o].kind = "delete" /\ op'[o].pc = "kill"
            \/ PickIdle(o, s) /\ op'[o].kind = "hibernate" /\ op'[o].pc = "snapshot"
            \/ Reconcile(o, s) /\ op'[o].kind = "reconcile" /\ op'[o].pc = "list"
            \/ Cascade(o, s) /\ op'[o].kind = "cascade" /\ op'[o].pc = "busy"
<1>1. ASSUME NEW k, NEW pc \in Place, Begin(o, k, s, pc)
      PROVE  /\ op[o].pc = "idle" /\ OthersStay(o)
             /\ op'[o].s = s /\ op'[o].hib = hibernated[s] /\ op'[o].saw = status[s]
             /\ op'[o].kind = k /\ op'[o].pc = pc
             /\ workload.alone => \A p \in Op : op[p].pc = "idle"
  <2>1. MovesTo(o, [kind |-> k, s |-> s, pc |-> pc, hib |-> hibernated[s],
                        saw |-> status[s], moved |-> FALSE])
    BY <1>1, BeginMoves
  <2> QED  BY <1>1, <2>1 DEF MovesTo, Begin
<1>2. s \in Session /\ {"read", "exists", "touch", "kill", "snapshot", "list", "busy"} \subseteq Place
  BY CallFields DEF Place
<1>3. CASE Prepare(o, s)
  BY <1>1, <1>2, <1>3 DEF Prepare
<1>4. CASE EnsureAttachable(o, s)
  BY <1>1, <1>2, <1>4 DEF EnsureAttachable
<1>5. CASE Restart(o, s)
  BY <1>1, <1>2, <1>5 DEF Restart
<1>6. CASE ChangeProgram(o, s)
  BY <1>1, <1>2, <1>6 DEF ChangeProgram
<1>7. CASE Kill(o, s)
  BY <1>1, <1>2, <1>7 DEF Kill
<1>8. CASE Delete(o, s)
  BY <1>1, <1>2, <1>8 DEF Delete
<1>9. CASE PickIdle(o, s) \/ Reconcile(o, s) \/ Cascade(o, s)
  BY <1>1, <1>2, <1>9 DEF PickIdle, Reconcile, Cascade
<1> QED  BY <1>3, <1>4, <1>5, <1>6, <1>7, <1>8, <1>9 DEF Start
-----------------------------------------------------------------------------
(* Calls that come one at a time.                                          *)
AloneInv == workload.alone => \A o, p \in Op : op[o].pc # "idle" /\ op[p].pc # "idle" => o = p

LEMMA AloneStep == WellFormed /\ AloneInv /\ Next => AloneInv'
<1> SUFFICES ASSUME WellFormed, AloneInv, Next PROVE AloneInv'
  OBVIOUS
<1>1. UNCHANGED workload
  BY DEF Next
<1>2. CASE \E o \in Op : Step(o)
  BY <1>1, <1>2, StepCall DEF AloneInv, OthersStay, SameCall
<1>3. CASE \E o \in Op, s \in workload.sessions : Start(o, s)
  BY <1>1, <1>3, StartCall DEF AloneInv, OthersStay, SameCall
<1>4. CASE \E s \in workload.sessions : ToggleKeepAlive(s) \/ EditProgram(s) \/ Detach(s) \/ AgentExits(s)
  BY <1>1, <1>4, SessionOK DEF AloneInv, SameCall
<1> QED  BY <1>2, <1>3, <1>4 DEF Next

(* The calls a step of o leaves alone, when calls come one at a time.      *)
LEMMA OthersIdle ==
  ASSUME WellFormed, AloneInv, workload.alone, NEW o \in Op, op[o].pc # "idle", OthersStay(o)
  PROVE  \A p \in Op \ {o} : op[p] = Idle /\ op'[p] = Idle
<1> SUFFICES ASSUME NEW p \in Op, p # o PROVE op[p] = Idle /\ op'[p] = Idle
  OBVIOUS
<1>1. op[p].pc = "idle"
  BY DEF AloneInv
<1>2. op[p] = Idle
  BY <1>1, CallFields DEF CallShape
<1> QED  BY <1>1, <1>2 DEF OthersStay, SameCall
(* The pane a call relies on being gone, when it writes the record without *)
(* looking again.                                                          *)
PaneGone(o) ==
  \/ op[o].kind \in {"attach"} \cup Restarting /\ op[o].pc = "launch"
  \/ op[o].kind \in {"kill", "remove"} /\ op[o].pc \in {"rmtree", "commit", "forget"}
  \/ op[o].kind = "hibernate" /\ op[o].pc \in {"exists", "commit"}
  \/ op[o].kind = "reconcile" /\ op[o].pc = "commit" /\ op[o].saw = "Stopped"

PanesInv == \A o \in Op : (PaneGone(o) => pane[op[o].s] = "none") /\ op[o].pc # "stop"

(* The steps of a call that is alone, when no tmux command fails.          *)
LEMMA PanesOfStep ==
  ASSUME WellFormed, CutShort, PanesInv, UNCHANGED workload, NEW o \in Op, Step(o)
  PROVE  (PaneGone(o) => pane[op[o].s] = "none")' /\ op'[o].pc # "stop"
<1> USE DEF At, PaneGone, Ahead, Restarting
<1>0. /\ op[o].pc # "idle" /\ op[o].s \in Session /\ op[o] \in Call /\ CallShape(op[o])
      /\ (PaneGone(o) => pane[op[o].s] = "none") /\ op[o].pc # "stop"
      /\ ~MayFail("tmux")
  BY StepCall, CallFields DEF CutShort, PanesInv
<1>1. CASE op'[o] = Idle
  BY <1>1 DEF Idle
<1>2. CASE KillTmux(o)
  <2>1. op'[o] = Ahead(o, AfterKill(op[o].kind)) /\ op[o].pc = "kill"
    BY <1>0, <1>2, Goes DEF KillTmux, AfterKill, Place
  <2>2. pane'[op[o].s] = "none"
    BY <1>0, <1>2 DEF KillTmux, WellFormed, TypeOK
  <2> QED  BY <1>0, <2>1, <2>2 DEF AfterKill, Call, Idle
<1>3. CASE LaunchPane(o) \/ LaunchFails(o)
  <2>1. op'[o] = Ahead(o, "commit") \/ (op[o].kind = "create" /\ op'[o] = Ahead(o, "undo"))
    <3>1. CASE LaunchPane(o)
      BY <1>0, <3>1, Goes DEF LaunchPane, Place
    <3>2. CASE LaunchFails(o)
      BY <1>0, <3>2, Goes DEF LaunchFails, AfterFailedLaunch, CallShape, InPlace, Place
    <3> QED  BY <1>3, <3>1, <3>2
  <2>2. op[o].kind \in {"create", "attach"} \cup Restarting
    BY <1>0, <1>3 DEF LaunchPane, LaunchFails, CallShape, InPlace
  <2> QED  BY <1>0, <2>1, <2>2 DEF Call
<1>4. CASE ReadPlaceholder(o) \/ AddWorktree(o) \/ CommitCreated(o) \/ UndoWorktree(o) \/ RemoveCreating(o)
  <2>1. op[o].kind = "create"
    BY <1>4 DEF ReadPlaceholder, AddWorktree, CommitCreated, UndoWorktree, RemoveCreating
  <2>2. WellFormed' 
    BY <1>4, CreateOK
  <2>3. CallShape(op'[o])
    BY <2>2 DEF WellFormed, CallShape
  <2> QED  BY <2>1, <2>3, StepCall DEF CallShape, InPlace, Idle
<1>5. CASE CheckPane(o)
  <2>1. /\ op[o].kind = "attach" /\ pane' = pane
        /\ (Goto(o, "launch") /\ pane[op[o].s] = "none") \/ \E pc \in {"kill", "spawn", "commit", "idle"} : Goto(o, pc)
    BY <1>5 DEF CheckPane, tmux
  <2>2. (op'[o] = Ahead(o, "launch") /\ pane[op[o].s] = "none") \/ \E pc \in {"kill", "spawn", "commit", "idle"} : op'[o] = Ahead(o, pc)
    BY <1>0, <2>1, Goes DEF Place
  <2> QED  BY <1>0, <1>1, <2>1, <2>2 DEF Call
<1>6. CASE MarkAttachable(o) \/ SpawnClient(o)
  <2>1. op[o].kind = "attach" /\ (MarkRunning(o, "spawn") \/ Goto(o, "idle"))
    BY <1>6 DEF MarkAttachable, SpawnClient
  <2>2. op'[o] = Ahead(o, "spawn") \/ op'[o] = Ahead(o, "idle")
    BY <1>0, <2>1, Goes DEF Place
  <2> QED  BY <1>0, <1>1, <2>1, <2>2 DEF Call
<1>7. CASE Touch(o)
  BY <1>0, <1>7, Touches DEF Call
<1>8. CASE RemoveWorktree(o) \/ MarkKilled(o) 
  <2>1. pane' = pane /\ (PaneGone(o) \/ Goto(o, "idle"))
    BY <1>0, <1>8 DEF RemoveWorktree, MarkKilled, tmux
  <2>2. Goto(o, "idle") \/ Goto(o, "commit") \/ Goto(o, "forget")
    BY <1>8 DEF RemoveWorktree, MarkKilled
  <2>3. op'[o] = Ahead(o, "idle") \/ op'[o] = Ahead(o, "commit") \/ op'[o] = Ahead(o, "forget")
    BY <1>0, <2>2, Goes DEF Place
  <2>4. Goto(o, "idle") => op'[o] = Idle
    BY <1>0, Goes DEF Place
  <2> QED  BY <1>0, <1>1, <2>1, <2>3, <2>4 DEF Call
<1>9. CASE SnapshotStamp(o) \/ CheckAttached(o) \/ Recheck(o) \/ CheckReappeared(o)
  <2>1. CASE SnapshotStamp(o)
    BY <1>0, <2>1 DEF SnapshotStamp, WellFormed, TypeOK, Call, Idle
  <2>2. CASE ~SnapshotStamp(o)
    <3>1. /\ op[o].kind = "hibernate" /\ pane' = pane
          /\ \/ \E pc \in {"recheck", "kill", "idle"} : Goto(o, pc)
             \/ CheckReappeared(o) /\ Goto(o, "commit")
      BY <1>9, <2>2 DEF CheckAttached, Recheck, CheckReappeared, tmux
    <3>2. \/ \E pc \in {"recheck", "kill", "idle"} : op'[o] = Ahead(o, pc)
          \/ CheckReappeared(o) /\ op'[o] = Ahead(o, "commit")
      BY <1>0, <3>1, Goes DEF Place
    <3>3. CheckReappeared(o) => PaneGone(o)
      BY DEF CheckReappeared
    <3> QED  BY <1>0, <1>1, <3>1, <3>2, <3>3 DEF Call
  <2> QED  BY <2>1, <2>2
<1>10. CASE ListStale(o) \/ ResetBusy(o) \/ Survey(o) \/ ProbePane(o)
  <2>1. CASE Survey(o) \/ ProbePane(o)
    <3>1. \/ op'[o] = Idle
          \/ op'[o] = [op[o] EXCEPT !.pc = "probe", !.saw = status[op[o].s]]
          \/ op'[o] = [op[o] EXCEPT !.pc = "commit", !.saw = "Running"]
          \/ op'[o] = [op[o] EXCEPT !.pc = "kill", !.saw = "Stopped"]
      BY <1>0, <2>1, CallFields DEF Survey, ProbePane, Goto
    <3> QED  BY <1>0, <1>1, <2>1, <3>1 DEF Survey, ProbePane, Call
  <2>2. CASE ListStale(o) \/ ResetBusy(o)
    <3>1. op[o].kind = "reconcile" /\ ((\E pc \in {"drop", "busy", "reset", "survey"} : Goto(o, pc)) \/ MarkRunning(o, "survey"))
      BY <2>2 DEF ListStale, ResetBusy
    <3>2. \E pc \in {"drop", "busy", "reset", "survey"} : op'[o] = Ahead(o, pc)
      BY <1>0, <3>1, Goes DEF Place
    <3> QED  BY <1>0, <1>1, <3>1, <3>2 DEF Call
  <2> QED  BY <1>10, <2>1, <2>2
<1>11. CASE CascadeStatus(o)
  <2>1. op[o].kind = "cascade" /\ (Goto(o, "reset") \/ MarkRunning(o, "idle"))
    BY <1>11 DEF CascadeStatus
  <2>2. op'[o] = Ahead(o, "reset") \/ op'[o] = Ahead(o, "idle")
    BY <1>0, <2>1, Goes DEF Place
  <2> QED  BY <1>0, <1>1, <2>1, <2>2 DEF Call
<1>12. CASE \/ MarkRestarted(o) \/ MarkRestartFailed(o) \/ RemoveProject(o) \/ MarkHibernated(o)
            \/ DropCreating(o) \/ MarkReconciled(o) \/ Abandon(o)
  <2>1. op'[o] = Idle
    BY <1>0, <1>12, Goes DEF MarkRestarted, MarkRestartFailed, RemoveProject, MarkHibernated,
       DropCreating, MarkReconciled, Abandon, Place
  <2> QED  BY <1>1, <2>1
<1> QED  BY <1>2, <1>3, <1>4, <1>5, <1>6, <1>7, <1>8, <1>9, <1>10, <1>11, <1>12 DEF Step

LEMMA PanesStep == WellFormed /\ AloneInv /\ Next /\ (CutShort => PanesInv) => (CutShort => PanesInv)'
<1> SUFFICES ASSUME WellFormed, AloneInv, Next, CutShort, PanesInv, UNCHANGED workload PROVE PanesInv'
  BY DEF Next, CutShort, MayFail
<1>2. ASSUME NEW o \in Op, Step(o) PROVE PanesInv'
  <2>1. (PaneGone(o) => pane[op[o].s] = "none")' /\ op'[o].pc # "stop"
    BY <1>2, PanesOfStep
  <2>2. \A p \in Op \ {o} : op'[p] = Idle
    BY <1>2, StepCall, OthersIdle DEF CutShort
  <2> QED  BY <2>1, <2>2 DEF PanesInv, PaneGone, Idle, Restarting
<1>3. ASSUME NEW o \in Op, NEW s \in workload.sessions, Start(o, s) PROVE PanesInv'
  <2>1. \A p \in Op \ {o} : SameCall(op'[p], op[p]) /\ op[p].pc = "idle" /\ op[p] = Idle
    BY <1>3, StartCall, CallFields DEF CutShort, CallShape, OthersStay
  <2>2. op'[o].pc # "stop" /\ ~PaneGone(o)'
    BY <1>3, StartCall DEF PaneGone, Restarting
  <2> QED  BY <2>1, <2>2 DEF PanesInv, PaneGone, Idle, Restarting, SameCall
<1>4. ASSUME NEW s \in workload.sessions, ToggleKeepAlive(s) \/ EditProgram(s) \/ Detach(s) \/ AgentExits(s)
      PROVE PanesInv'
  <2> SUFFICES ASSUME NEW o \in Op PROVE (PaneGone(o) => pane[op[o].s] = "none")' /\ op'[o].pc # "stop"
    BY DEF PanesInv
  <2>1. SameCall(op'[o], op[o]) 
    BY <1>4, SessionOK
  <2>2. \A t \in Session : pane[t] = "none" => pane'[t] = "none"
    BY <1>4, SessionOK DEF Live
  <2>3. op[o].pc # "idle" => op[o].s \in Session
    BY CallFields
  <2> QED  BY <2>1, <2>2, <2>3, CallFields DEF PanesInv, PaneGone, SameCall, CallShape, Idle, Restarting
<1> QED  BY <1>2, <1>3, <1>4 DEF Next
-----------------------------------------------------------------------------
(* Between looking at a live pane and marking its session Running.         *)
Woken(o) == /\ op[o].pc = "commit"
            /\ \/ op[o].kind \in {"attach"} \cup Restarting
               \/ op[o].kind = "reconcile" /\ op[o].saw = "Running"

(* On the way to launching a pane, with what was read of the marker.       *)
Waits(o) == op[o].kind \in {"attach", "restart"} /\ op[o].pc \in {"touch", "exists", "kill", "launch"}

OwedSession(s) == /\ owed[s] => pane[s] = "none" /\ status[s] # "unborn"
                  /\ owed[s] /\ Exists(s) => hibernated[s]

OwedCall(o) == /\ op[o].kind = "create" \/ Woken(o) => ~owed[op[o].s]
               /\ Waits(o) /\ owed[op[o].s] => op[o].hib

(* What a stop still owes is on record: the marker that makes the wake     *)
(* resume stays until a pane has been launched, and a call that launches   *)
(* one has read it.                                                        *)
OwedInv == (\A s \in Session : OwedSession(s)) /\ \A o \in Op : OwedCall(o)

LEMMA OwedSessions ==
  ASSUME WellFormed, CutShort, PanesInv, OwedInv, UNCHANGED workload, NEW o \in Op, Step(o)
  PROVE  \A s \in Session : OwedSession(s)'
<1> SUFFICES ASSUME NEW s \in Session PROVE OwedSession(s)'
  OBVIOUS
<1> USE DEF At, OwedSession, Exists, Restarting
<1>0. /\ op[o].pc # "idle" /\ op[o].s \in Session /\ TypeOK
      /\ OwedSession(s) /\ OwedSession(op[o].s) /\ OwedCall(o)
      /\ (PaneGone(o) => pane[op[o].s] = "none") /\ op[o].pc # "stop"
  BY StepCall DEF PanesInv, OwedInv, WellFormed
<1>1. CASE \/ LaunchFails(o) \/ ReadPlaceholder(o) \/ AddWorktree(o)
           \/ UndoWorktree(o) \/ CheckPane(o) \/ SpawnClient(o) \/ Touch(o)
           \/ RemoveWorktree(o) \/ SnapshotStamp(o) \/ CheckAttached(o) \/ Recheck(o)
           \/ CheckReappeared(o) \/ ListStale(o) \/ Survey(o) \/ ProbePane(o) \/ Abandon(o)
  <2>1. UNCHANGED <<status, hibernated, pane, owed>>
    BY <1>1 DEF LaunchFails, ReadPlaceholder, AddWorktree, UndoWorktree, CheckPane, SpawnClient, Touch,
       RemoveWorktree, SnapshotStamp, CheckAttached, Recheck, CheckReappeared, ListStale, Survey,
       ProbePane, Abandon, record, tmux
  <2> QED  BY <1>0, <2>1
<1>2. CASE KillTmux(o)
  BY <1>0, <1>2 DEF KillTmux, TypeOK, record, tmux
<1>3. CASE LaunchPane(o)
  BY <1>0, <1>3 DEF LaunchPane, TypeOK, record
<1>4. ASSUME UNCHANGED <<hibernated, pane, owed>>, \E st \in Stored : status' = IF Exists(op[o].s) THEN [status EXCEPT ![op[o].s] = st] ELSE status
      PROVE  OwedSession(s)'
  BY <1>0, <1>4 DEF TypeOK, Stored
<1>5. CASE CommitCreated(o) \/ MarkRestartFailed(o) \/ ResetBusy(o) \/ CascadeStatus(o)
  <2>1. UNCHANGED <<hibernated, pane, owed>>
    BY <1>5 DEF CommitCreated, MarkRestartFailed, ResetBusy, CascadeStatus, tmux
  <2>2. CASE status' = status
    BY <1>0, <2>1, <2>2
  <2>3. CASE status' # status
    <3>1. "Running" \in Stored /\ "Merging" \in Stored
      BY DEF Stored
    <3>2. \E st \in Stored : status' = IF Exists(op[o].s) THEN [status EXCEPT ![op[o].s] = st] ELSE status
      BY <1>0, <1>5, <2>3, <3>1 DEF CommitCreated, MarkRestartFailed, ResetBusy, CascadeStatus, MarkRunning
    <3> QED  BY <1>4, <2>1, <3>2
  <2> QED  BY <2>2, <2>3
<1>6. CASE RemoveCreating(o) \/ RemoveProject(o) \/ DropCreating(o)
  <2>1. UNCHANGED <<pane, owed>> /\ Forget(op[o].s)
    BY <1>6 DEF RemoveCreating, RemoveProject, DropCreating, tmux
  <2> QED  BY <1>0, <2>1 DEF Forget, TypeOK, Stored
<1>7. CASE MarkAttachable(o) \/ MarkRestarted(o)
  <2>1. UNCHANGED <<pane, owed>> /\ SetHibernated(op[o].s, FALSE) /\ ~owed[op[o].s]
    BY <1>0, <1>7 DEF MarkAttachable, MarkRestarted, tmux, OwedCall, Woken
  <2>2. \E pc \in Place : MarkRunning(o, pc)
    BY <1>7 DEF MarkAttachable, MarkRestarted, Place
  <2>3. status' = IF Exists(op[o].s) THEN [status EXCEPT ![op[o].s] = "Running"] ELSE status
    BY <2>2 DEF MarkRunning
  <2> QED  BY <1>0, <2>1, <2>3 DEF SetHibernated, TypeOK, Stored
<1>8. CASE MarkReconciled(o)
  <2>1. UNCHANGED <<pane, owed>> /\ status' = IF Exists(op[o].s) THEN [status EXCEPT ![op[o].s] = op[o].saw] ELSE status
    BY <1>8 DEF MarkReconciled, MarkRunning, MarkStopped, tmux
  <2>2. CASE op[o].saw = "Running"
    <3>1. SetHibernated(op[o].s, FALSE) /\ ~owed[op[o].s]
      BY <1>0, <1>8, <2>2 DEF MarkReconciled, OwedCall, Woken
    <3> QED  BY <1>0, <2>1, <2>2, <3>1 DEF SetHibernated, TypeOK, Stored
  <2>3. CASE op[o].saw # "Running"
    <3>1. UNCHANGED hibernated /\ op[o].saw = "Stopped"
      BY <1>8, <2>3 DEF MarkReconciled
    <3> QED  BY <1>4, <2>1, <3>1 DEF Stored
  <2> QED  BY <2>2, <2>3
<1>9. CASE MarkKilled(o)
  <2>1. pane[op[o].s] = "none"
    BY <1>0, <1>9 DEF MarkKilled, PaneGone
  <2> QED  BY <1>0, <1>9, <2>1 DEF MarkKilled, MarkStopped, SetHibernated, TypeOK, tmux, Stored
<1>10. CASE MarkHibernated(o)
  <2>1. pane[op[o].s] = "none"
    BY <1>0, <1>10 DEF MarkHibernated, PaneGone
  <2> QED  BY <1>0, <1>10, <2>1 DEF MarkHibernated, MarkStopped, SetHibernated, TypeOK, tmux, Stored
<1> QED  BY <1>1, <1>2, <1>3, <1>5, <1>6, <1>7, <1>8, <1>9, <1>10 DEF Step


LEMMA OwedOfStep ==
  ASSUME WellFormed, CutShort, PanesInv, OwedInv, UNCHANGED workload, NEW o \in Op, Step(o)
  PROVE  OwedCall(o)'
<1> USE DEF At, Ahead, Restarting, Woken, Waits
<1>0. /\ op[o].pc # "idle" /\ op[o].s \in Session /\ op[o] \in Call /\ CallShape(op[o]) /\ TypeOK
      /\ OwedSession(op[o].s) /\ OwedCall(o) /\ ~MayFail("tmux")
      /\ (PaneGone(o) => pane[op[o].s] = "none") /\ op[o].pc # "stop"
  BY StepCall, CallFields DEF PanesInv, OwedInv, WellFormed, CutShort
<1>1. CASE op'[o] = Idle
  BY <1>1 DEF OwedCall, Idle
<1>2. ASSUME owed' = owed \/ ~owed'[op[o].s], op'[o].s = op[o].s, op'[o].hib = op[o].hib, op'[o].kind = op[o].kind,
             Woken(o)' => Woken(o) \/ ~owed[op[o].s], Waits(o)' => Waits(o) \/ ~owed[op[o].s]
      PROVE  OwedCall(o)'
  BY <1>0, <1>2 DEF OwedCall
<1>3. CASE LaunchPane(o)
  <2>1. ~owed'[op[o].s]
    BY <1>0, <1>3 DEF LaunchPane, TypeOK
  <2> QED  BY <1>1, <2>1, StepCall DEF OwedCall
<1>4. CASE op[o].kind = "create" /\ ~LaunchPane(o)
  <2>1. owed' = owed
    BY <1>4, StepsOf DEF LaunchFails, ReadPlaceholder, AddWorktree, CommitCreated, UndoWorktree, RemoveCreating, Abandon
  <2> QED  BY <1>1, <1>2, <1>4, <2>1, StepCall
<1>5. CASE op[o].kind \in {"kill", "remove", "delete", "hibernate", "cascade"}
  BY <1>1, <1>5, StepCall DEF OwedCall
<1>6. CASE KillTmux(o) /\ ~(op[o].kind \in {"kill", "remove", "delete", "hibernate", "cascade"})
  <2>1. op'[o] = Ahead(o, AfterKill(op[o].kind)) /\ op[o].pc = "kill"
    BY <1>0, <1>6, Goes DEF KillTmux, AfterKill, Place
  <2>2. op[o].kind = "reconcile" => op[o].saw = "Stopped"
    BY <1>0, <2>1 DEF CallShape, SawShape
  <2> QED  BY <1>0, <1>2, <1>6, <2>1, <2>2 DEF AfterKill, Call, KillTmux
<1>7. CASE op[o].kind = "attach" /\ ~KillTmux(o) /\ ~LaunchPane(o)
  <2>1. CASE CheckPane(o)
    <3>1. \/ Goto(o, "commit") /\ ~owed[op[o].s]
          \/ \E pc \in {"launch", "kill", "spawn", "idle"} : Goto(o, pc)
      BY <1>0, <2>1 DEF CheckPane, OwedSession, Live
    <3>2. \/ op'[o] = Ahead(o, "commit") /\ ~owed[op[o].s]
          \/ \E pc \in {"launch", "kill", "spawn", "idle"} : op'[o] = Ahead(o, pc)
      BY <1>0, <3>1, Goes DEF Place
    <3>3. owed' = owed /\ Waits(o)
      BY <2>1 DEF CheckPane
    <3> QED  BY <1>0, <1>1, <1>2, <3>2, <3>3 DEF Call
  <2>2. CASE ~CheckPane(o)
    <3>1. ~LaunchFails(o)
      BY <1>0, <1>7 DEF LaunchFails, PaneGone
    <3>2. Goto(o, "idle") \/ MarkRunning(o, "spawn")
      BY <1>7, <2>2, <3>1, StepsOf DEF MarkAttachable, SpawnClient, Abandon
    <3>3. op'[o] = Idle \/ op'[o] = Ahead(o, "spawn")
      BY <1>0, <3>2, Goes DEF Place
    <3> QED  BY <1>0, <1>1, <1>7, <3>3 DEF OwedCall, Call
  <2> QED  BY <2>1, <2>2
<1>8. CASE op[o].kind \in Restarting /\ ~KillTmux(o) /\ ~LaunchPane(o)
  <2>1. CASE Touch(o)
    <3>1. op'[o] = Ahead(o, "kill") /\ owed' = owed /\ op[o].pc = "touch"
      BY <2>1, Touches DEF Touch
    <3> QED  BY <1>0, <1>2, <1>8, <3>1 DEF Call
  <2>2. CASE ~Touch(o)
    <3>1. ~LaunchFails(o)
      BY <1>0, <1>8 DEF LaunchFails, PaneGone
    <3>2. Goto(o, "idle") \/ MarkRunning(o, "idle")
      BY <1>8, <2>2, <3>1, StepsOf DEF MarkRestarted, MarkRestartFailed, Abandon
    <3> QED  BY <1>0, <1>1, <3>2, Goes DEF Place
  <2> QED  BY <2>1, <2>2
<1>9. CASE op[o].kind = "reconcile" /\ ~KillTmux(o)
  <2>1. owed' = owed
    BY <1>9, StepsOf DEF ListStale, DropCreating, ResetBusy, Survey, ProbePane, MarkReconciled, Abandon
  <2>2. Woken(o)' => ~owed[op[o].s]
    <3>1. CASE ProbePane(o)
      <4>1. \/ op'[o] = Idle \/ pane[op[o].s] \in Live
            \/ op'[o] = [op[o] EXCEPT !.pc = "kill", !.saw = "Stopped"]
        BY <1>0, <3>1, CallFields DEF ProbePane, Goto
      <4>2. pane[op[o].s] \in Live => ~owed[op[o].s]
        BY <1>0 DEF OwedSession, Live
      <4>3. Woken(o)' => op'[o].pc = "commit"
        OBVIOUS
      <4>4. Idle.pc # "commit" /\ [op[o] EXCEPT !.pc = "kill", !.saw = "Stopped"].pc # "commit"
        BY <1>0 DEF Idle, Call
      <4> HIDE DEF Woken
      <4> QED  BY <4>1, <4>2, <4>3, <4>4
    <3>2. CASE Survey(o)
      BY <1>0, <3>2, CallFields DEF Survey, Call, Idle
    <3>3. CASE ~ProbePane(o) /\ ~Survey(o)
      <4>1. \/ \E pc \in {"drop", "busy", "reset", "survey", "idle"} : Goto(o, pc)
            \/ \E pc \in {"survey", "idle"} : MarkRunning(o, pc)
        BY <1>9, <3>3, StepsOf DEF ListStale, DropCreating, ResetBusy, MarkReconciled, Abandon
      <4>2. \E pc \in {"drop", "busy", "reset", "survey", "idle"} : op'[o] = Ahead(o, pc)
        BY <1>0, <4>1, Goes DEF Place
      <4> QED  BY <1>0, <4>2 DEF Call, Idle
    <3> QED  BY <3>1, <3>2, <3>3
  <2> QED  BY <1>1, <1>2, <1>9, <2>1, <2>2, StepCall
<1>10. op[o].kind \in {"create", "attach"} \cup Restarting \cup {"kill", "remove", "delete", "hibernate", "reconcile", "cascade"}
  BY <1>0 DEF CallShape, InPlace
<1> QED  BY <1>3, <1>4, <1>5, <1>6, <1>7, <1>8, <1>9, <1>10

LEMMA OwedOfStart ==
  ASSUME WellFormed, OwedInv, UNCHANGED workload, NEW o \in Op, NEW s \in workload.sessions, Start(o, s)
  PROVE  (\A t \in Session : OwedSession(t)') /\ OwedCall(o)'
<1> USE DEF OwedSession, Exists
<1>0. TypeOK /\ s \in Session /\ \A t \in Session : OwedSession(t)
  BY StartCall DEF OwedInv, WellFormed
<1>1. UNCHANGED <<pane, owed>>
  BY DEF Start, Prepare, EnsureAttachable, Restart, ChangeProgram, Kill, Delete, PickIdle, Reconcile, Cascade, tmux
<1>2. \A t \in Session : OwedSession(t)'
  <2>1. CASE Prepare(o, s)
    BY <1>0, <1>1, <2>1 DEF Prepare, TypeOK, Stored
  <2>2. CASE Delete(o, s)
    BY <1>0, <1>1, <2>2 DEF Delete, Forget, TypeOK, Stored
  <2>3. CASE ~Prepare(o, s) /\ ~Delete(o, s)
    <3>1. UNCHANGED <<status, hibernated>>
      BY <2>3 DEF Start, EnsureAttachable, Restart, ChangeProgram, Kill, PickIdle, Reconcile, Cascade, record
    <3> QED  BY <1>0, <1>1, <3>1
  <2> QED  BY <2>1, <2>2, <2>3
<1>3. OwedCall(o)'
  <2>1. op'[o].s = s /\ op'[o].hib = hibernated[s] /\ op'[o].pc # "commit"
    BY StartCall
  <2>2. op'[o].kind = "create" => ~owed[s]
    BY <1>0, StartCall DEF Prepare, Restarting
  <2>3. op'[o].kind \in {"attach"} \cup Restarting => Exists(s)
    BY StartCall DEF EnsureAttachable, Restart, ChangeProgram, CanAttach, Restarting
  <2> QED  BY <1>0, <1>1, <2>1, <2>2, <2>3 DEF OwedCall, Woken, Waits, Restarting
<1> QED  BY <1>2, <1>3

LEMMA OwedStep ==
  WellFormed /\ AloneInv /\ Next /\ (CutShort => PanesInv /\ OwedInv) => (CutShort => OwedInv)'
<1> SUFFICES ASSUME WellFormed, AloneInv, Next, CutShort, PanesInv, OwedInv, UNCHANGED workload PROVE OwedInv'
  BY DEF Next, CutShort, MayFail
<1>1. ASSUME NEW o \in Op, \A p \in Op \ {o} : op'[p] = Idle, \A s \in Session : OwedSession(s)', OwedCall(o)'
      PROVE  OwedInv'
  BY <1>1 DEF OwedInv, OwedCall, Woken, Waits, Idle, Restarting
<1>2. ASSUME NEW o \in Op, Step(o) PROVE OwedInv'
  BY <1>1, <1>2, OwedSessions, OwedOfStep, StepCall, OthersIdle DEF CutShort
<1>3. ASSUME NEW o \in Op, NEW s \in workload.sessions, Start(o, s) PROVE OwedInv'
  <2>1. \A p \in Op \ {o} : op'[p] = Idle
    BY <1>3, StartCall, CallFields DEF CutShort, CallShape, OthersStay, SameCall
  <2> QED  BY <1>1, <1>3, <2>1, OwedOfStart
<1>4. ASSUME NEW s \in workload.sessions, ToggleKeepAlive(s) \/ EditProgram(s) \/ Detach(s) \/ AgentExits(s)
      PROVE OwedInv'
  <2>1. UNCHANGED <<status, hibernated, owed>> /\ \A o \in Op : SameCall(op'[o], op[o])
    BY <1>4, SessionOK
  <2>2. \A t \in Session : pane[t] = "none" => pane'[t] = "none"
    BY <1>4, SessionOK DEF Live
  <2>3. \A t \in Session : OwedSession(t)'
    BY <2>1, <2>2 DEF OwedInv, OwedSession, Exists
  <2>4. \A o \in Op : OwedCall(o)'
    BY <2>1 DEF OwedInv, OwedCall, Woken, Waits, SameCall
  <2> QED  BY <2>3, <2>4 DEF OwedInv
<1> QED  BY <1>2, <1>3, <1>4 DEF Next

LEMMA CutInit == Init => /\ AloneInv
                         /\ CutShort => PanesInv /\ OwedInv
<1> SUFFICES ASSUME Init PROVE AloneInv /\ PanesInv /\ OwedInv
  OBVIOUS
<1>1. (\A o \in Op : op[o] = Idle) /\ (\A s \in Session : owed[s] = FALSE)
  BY DEF Init
<1> QED  BY <1>1 DEF AloneInv, PanesInv, PaneGone, OwedInv, OwedSession, OwedCall, Woken, Waits, Idle, Restarting

LEMMA CutAlways == Spec => [](AloneInv /\ (CutShort => PanesInv /\ OwedInv))
<1> DEFINE Inv == AloneInv /\ (CutShort => PanesInv /\ OwedInv)
<1>1. WellFormed /\ Inv /\ [Next]_vars => Inv'
  <2>1. UNCHANGED vars /\ Inv => Inv'
    BY DEF vars, record, tmux, AloneInv, CutShort, MayFail, PanesInv, PaneGone, OwedInv, OwedSession, OwedCall, Exists, Woken, Waits
  <2> QED  BY <2>1, AloneStep, PanesStep, OwedStep
<1>2. Init => Inv
  BY CutInit
<1> QED  BY <1>1, <1>2, WellFormedAlways, PTL DEF Spec

(* Whatever brings back the pane of a session that was stopped without     *)
(* loss resumes its conversation (or was asked not to), as long as calls   *)
(* come one at a time and tmux answers, however often a call is dropped or *)
(* its process dies midway.                                                *)
THEOREM WakesAlwaysResume == Spec => WakeResumes
<1> DEFINE Inv == WellFormed /\ AloneInv /\ (CutShort => PanesInv /\ OwedInv)
<1>1. Inv /\ [Next]_vars => (CutShort => WakesResume)
  <2> SUFFICES ASSUME Inv, CutShort, [Next]_vars, NEW s \in Session,
                      owed[s], pane[s] \notin Live, pane'[s] \in Live
               PROVE  \/ pane'[s] = "resumed"
                      \/ \E o \in Op : op[o].s = s /\ op[o].kind \in {"fresh", "recover"}
    BY DEF WakesResume
  <2>1. CASE UNCHANGED vars
    BY <2>1 DEF vars, tmux
  <2>2. ASSUME NEW o \in Op, Step(o) 
        PROVE  \/ pane'[s] = "resumed"
               \/ \E p \in Op : op[p].s = s /\ op[p].kind \in {"fresh", "recover"}
    <3>1. LaunchPane(o)
      <4>1. pane' # pane
        OBVIOUS
      <4>2. KillTmux(o) \/ LaunchPane(o)
        BY <2>2, <4>1 DEF Step, LaunchFails, ReadPlaceholder, AddWorktree, CommitCreated, UndoWorktree,
           RemoveCreating, CheckPane, MarkAttachable, SpawnClient, Touch, MarkRestarted, MarkRestartFailed,
           RemoveWorktree, MarkKilled, RemoveProject, SnapshotStamp, CheckAttached, Recheck, CheckReappeared,
           MarkHibernated, ListStale, DropCreating, ResetBusy, Survey, ProbePane, MarkReconciled,
           CascadeStatus, Abandon, tmux
      <4>3. ~KillTmux(o)
        BY StepCall, <2>2 DEF KillTmux, WellFormed, TypeOK, Live, tmux
      <4> QED  BY <4>2, <4>3
    <3>2. op[o].s = s /\ pane'[s] = IF Resumes(o) THEN "resumed" ELSE "fresh"
      BY <2>2, <3>1, StepCall DEF LaunchPane, WellFormed, TypeOK
    <3>3. op[o].kind \in {"create", "attach"} \cup Restarting
      BY <3>1, CallFields DEF LaunchPane, CallShape, InPlace
    <3>4. OwedCall(o)
      BY DEF OwedInv
    <3> QED  BY <3>1, <3>2, <3>3, <3>4 DEF OwedCall, Waits, Resumes, Restarting, LaunchPane
  <2>3. ASSUME NEW o \in Op, NEW t \in workload.sessions, Start(o, t) PROVE FALSE
    BY <2>3 DEF Start, Prepare, EnsureAttachable, Restart, ChangeProgram, Kill, Delete, PickIdle, Reconcile, Cascade, tmux
  <2>4. ASSUME UNCHANGED workload, NEW t \in workload.sessions, ToggleKeepAlive(t) \/ EditProgram(t) \/ Detach(t) \/ AgentExits(t)
        PROVE FALSE
    BY <2>4, SessionOK
  <2> QED  BY <2>1, <2>2, <2>3, <2>4 DEF Next
<1>2. Spec => []Inv
  BY WellFormedAlways, CutAlways, PTL
<1> QED  BY <1>1, <1>2, PTL DEF Spec, WakeResumes
-----------------------------------------------------------------------------
Surveying == {"survey", "probe", "kill", "commit"}

(* What startup reconciliation has already ruled out about the record.     *)
RepairCall(o) ==
  op[o].kind = "reconcile" =>
    /\ op[o].pc \in {"busy", "reset"} \cup Surveying => status[op[o].s] # "Creating"
    /\ op[o].pc \in Surveying => status[op[o].s] # "Merging"
    /\ op[o].pc = "probe" => status[op[o].s] = op[o].saw

RepairInv == workload.alone => \A o \in Op : RepairCall(o)

LEMMA RepairOfStep ==
  ASSUME WellFormed, workload.alone, RepairInv, UNCHANGED workload, NEW o \in Op, Step(o)
  PROVE  RepairCall(o)'
<1> USE DEF At, Ahead, Surveying
<1>0. /\ op[o].pc # "idle" /\ op[o].s \in Session /\ op[o] \in Call /\ op \in [Op -> Call]
      /\ RepairCall(o) /\ TypeOK
  BY StepCall, CallFields DEF RepairInv, WellFormed
<1>1. CASE op'[o] = Idle \/ op[o].kind # "reconcile"
  BY <1>1, StepCall DEF RepairCall, Idle
<1>2. CASE KillTmux(o) /\ op[o].kind = "reconcile"
  <2>1. Goto(o, "commit") /\ op[o].pc = "kill" /\ UNCHANGED status
    BY <1>2 DEF KillTmux, AfterKill, record
  <2>2. op'[o] = Ahead(o, "commit")
    BY <1>0, <2>1, Goes DEF Place
  <2> QED  BY <1>0, <2>1, <2>2 DEF RepairCall, Call
<1>3. CASE ListStale(o)
  <2>1. /\ UNCHANGED status
        /\ \/ Goto(o, "drop")
           \/ Goto(o, "busy") /\ status[op[o].s] # "Creating"
           \/ Goto(o, "reset") /\ op[o].pc = "busy" /\ op[o].kind = "reconcile"
           \/ Goto(o, "survey") /\ op[o].pc = "busy" /\ op[o].kind = "reconcile" /\ status[op[o].s] # "Merging"
    BY <1>3 DEF ListStale, record
  <2>2. \/ op'[o] = Ahead(o, "drop")
        \/ op'[o] = Ahead(o, "busy") /\ status[op[o].s] # "Creating"
        \/ op'[o] = Ahead(o, "reset") /\ op[o].pc = "busy" /\ op[o].kind = "reconcile"
        \/ op'[o] = Ahead(o, "survey") /\ op[o].pc = "busy" /\ op[o].kind = "reconcile" /\ status[op[o].s] # "Merging"
    BY <1>0, <2>1, Goes DEF Place
  <2> QED  BY <1>0, <2>1, <2>2 DEF RepairCall, Call
<1>4. CASE ResetBusy(o)
  <2>1. op'[o] = Ahead(o, "survey")
    BY <1>0, <1>4, Goes DEF ResetBusy, Place
  <2>2. status'[op[o].s] \notin {"Creating", "Merging"}
    BY <1>0, <1>4 DEF ResetBusy, MarkRunning, Exists, Stored, TypeOK
  <2> QED  BY <1>0, <2>1, <2>2 DEF RepairCall, Call
<1>5. CASE Survey(o)
  <2>1. op'[o] = Idle \/ op'[o] = [op[o] EXCEPT !.pc = "probe", !.saw = status[op[o].s]]
    BY <1>0, <1>5 DEF Survey
  <2> QED  BY <1>0, <1>1, <1>5, <2>1 DEF Survey, RepairCall, Call, record
<1>6. CASE ProbePane(o)
  <2>1. \/ op'[o] = Idle
        \/ op'[o] = [op[o] EXCEPT !.pc = "commit", !.saw = "Running"]
        \/ op'[o] = [op[o] EXCEPT !.pc = "kill", !.saw = "Stopped"]
    BY <1>0, <1>6 DEF ProbePane, Goto
  <2> QED  BY <1>0, <1>1, <1>6, <2>1 DEF ProbePane, RepairCall, Call, record
<1>7. CASE DropCreating(o) \/ MarkReconciled(o) \/ Abandon(o)
  <2>1. Goto(o, "idle") \/ MarkRunning(o, "idle")
    BY <1>7 DEF DropCreating, MarkReconciled, Abandon
  <2> QED  BY <1>0, <1>1, <2>1, Goes DEF Place
<1> QED  BY <1>1, <1>2, <1>3, <1>4, <1>5, <1>6, <1>7, StepsOf

LEMMA RepairAlways == Spec => []RepairInv
<1>1. WellFormed /\ AloneInv /\ RepairInv /\ [Next]_vars => RepairInv'
  <2> SUFFICES ASSUME WellFormed, AloneInv, RepairInv, [Next]_vars, workload.alone, UNCHANGED workload,
                      NEW p \in Op
               PROVE  RepairCall(p)'
    BY DEF RepairInv, Next, vars
  <2>1. CASE UNCHANGED vars
    BY <2>1 DEF vars, record, RepairInv, RepairCall
  <2>2. ASSUME NEW o \in Op, OthersStay(o), RepairCall(o)', \A q \in Op \ {o} : op[q] = Idle
        PROVE  RepairCall(p)'
    BY <2>2 DEF OthersStay, SameCall, RepairCall, Idle
  <2>3. ASSUME NEW o \in Op, Step(o) PROVE RepairCall(p)'
    BY <2>2, <2>3, StepCall, RepairOfStep, OthersIdle
  <2>4. ASSUME NEW o \in Op, NEW s \in workload.sessions, Start(o, s) PROVE RepairCall(p)'
    <3>1. RepairCall(o)' 
      BY <2>4, StartCall DEF RepairCall, Surveying, Restarting
    <3> QED  BY <2>2, <2>4, <3>1, StartCall, CallFields DEF CallShape
  <2>5. ASSUME NEW s \in workload.sessions, ToggleKeepAlive(s) \/ EditProgram(s) \/ Detach(s) \/ AgentExits(s)
        PROVE  RepairCall(p)'
    <3>1. UNCHANGED status /\ SameCall(op'[p], op[p])
      BY <2>5, SessionOK
    <3> QED  BY <3>1 DEF RepairInv, RepairCall, SameCall
  <2> QED  BY <2>1, <2>3, <2>4, <2>5 DEF Next
<1>2. Init => RepairInv
  <2> SUFFICES ASSUME Init, NEW o \in Op PROVE RepairCall(o)
    BY DEF RepairInv
  <2>1. op[o] = Idle
    BY DEF Init
  <2> QED  BY <2>1 DEF RepairCall, Idle
<1> QED  BY <1>1, <1>2, WellFormedAlways, CutAlways, PTL DEF Spec

(* When startup reconciliation is done with a session, whatever a dead     *)
(* process had left of its record, no operation is shown as under way and  *)
(* a live pane does not say Stopped, as long as no other call interferes.  *)
THEOREM ReconciliationRepairs == Spec => ReconcileRepairs
<1> DEFINE Inv == WellFormed /\ AloneInv /\ (CutShort => PanesInv /\ OwedInv) /\ RepairInv
<1>1. Inv /\ [Next]_vars => (CutShort => Repairs)
  <2> SUFFICES ASSUME Inv, CutShort, NEW o \in Op,
                      op[o].kind = "reconcile" /\ op'[o] = Idle,
                      DropCreating(o) \/ Survey(o) \/ ProbePane(o) \/ MarkReconciled(o)
               PROVE  /\ status'[op[o].s] \notin {"Creating", "Merging"}
                      /\ pane'[op[o].s] \in Live => status'[op[o].s] # "Stopped"
    BY DEF Repairs
  <2>0. /\ op[o].pc # "idle" /\ op[o].s \in Session /\ op[o] \in Call /\ op \in [Op -> Call]
        /\ TypeOK /\ RepairCall(o) /\ ~MayFail("tmux") /\ (PaneGone(o) => pane[op[o].s] = "none")
    BY CallFields DEF DropCreating, Survey, ProbePane, MarkReconciled, At, WellFormed, RepairInv,
       CutShort, PanesInv
  <2>1. CASE DropCreating(o)
    BY <2>0, <2>1 DEF DropCreating, Forget, Exists, Stored, TypeOK
  <2>2. CASE Survey(o)
    <3>1. status[op[o].s] \notin CanAttach
      BY <2>0, <2>2 DEF Survey, Idle, Call
    <3> QED  BY <2>0, <2>2, <3>1 DEF Survey, At, RepairCall, CanAttach, Stored, Surveying, record
  <2>3. CASE ProbePane(o)
    <3>1. pane[op[o].s] \in Live => op[o].saw # "Stopped"
      <4>1. SUFFICES ASSUME pane[op[o].s] \in Live, op[o].saw = "Stopped" PROVE FALSE
        OBVIOUS
      <4>2. op'[o] = [op[o] EXCEPT !.pc = "commit", !.saw = "Running"]
        BY <2>0, <2>3, <4>1 DEF ProbePane
      <4>3. op'[o].pc = "commit"
        BY <2>0, <4>2 DEF Call
      <4> QED  BY <4>3 DEF Idle
    <3> QED  BY <2>0, <2>3, <3>1 DEF ProbePane, At, RepairCall, Surveying, record, tmux
  <2>4. CASE MarkReconciled(o)
    <3>1. status'[op[o].s] = IF Exists(op[o].s) THEN op[o].saw ELSE status[op[o].s]
      BY <2>0, <2>4 DEF MarkReconciled, MarkRunning, MarkStopped, TypeOK
    <3>2. op[o].saw = "Running" \/ pane'[op[o].s] = "none"
      BY <2>0, <2>4 DEF MarkReconciled, At, PaneGone, tmux
    <3>3. op[o].saw \in {"Running", "Stopped"}
      BY <2>4 DEF MarkReconciled
    <3> QED  BY <2>0, <3>1, <3>2, <3>3 DEF Exists, Stored, Live
  <2> QED  BY <2>1, <2>2, <2>3, <2>4
<1>2. Spec => []Inv
  BY WellFormedAlways, CutAlways, RepairAlways, PTL
<1> QED  BY <1>1, <1>2, PTL DEF Spec, ReconcileRepairs
-----------------------------------------------------------------------------
Serial == workload.alone /\ workload.faults \subseteq {"exit"}

Agrees(s) == pane[s] \in Live /\ Exists(s) => status[s] # "Stopped" /\ ~hibernated[s]

(* A record may disagree with its pane while the call that has brought the *)
(* pane back, or has found it live, is about to say so.                    *)
SerialSession(s) == /\ Agrees(s) \/ \E o \in Op : op[o].s = s /\ Woken(o)
                    /\ ~Exists(s) => ~hibernated[s]

SerialCall(o) == op[o].kind = "create" => status[op[o].s] # "Stopped" /\ ~hibernated[op[o].s]

SerialInv == (\A s \in Session : SerialSession(s)) /\ \A o \in Op : SerialCall(o)

(* What a step of a call makes of its own session ...                      *)
LEMMA SerialOwn ==
  ASSUME WellFormed, AloneInv, Serial, PanesInv, SerialInv, UNCHANGED workload, NEW o \in Op, Step(o),
         NEW s \in Session, s = op[o].s
  PROVE  /\ Agrees(s)' \/ (op'[o].s = s /\ Woken(o)')
         /\ (~Exists(s))' => ~hibernated'[s]
         /\ SerialCall(o)'
<1> USE DEF At, Restarting, Woken
<1>0. /\ op[o].pc # "idle" /\ s \in Session /\ op[o] \in Call /\ CallShape(op[o])
      /\ TypeOK /\ (PaneGone(o) => pane[s] = "none") /\ op[o].pc # "stop"
      /\ ~MayFail("tmux") /\ ~MayFail("abandon") /\ ~MayFail("store")
      /\ (~Exists(s) => ~hibernated[s]) /\ SerialCall(o)
  BY StepCall, CallFields DEF PanesInv, WellFormed, MayFail, Serial, SerialInv, SerialSession
<1>1. ~Woken(o) => Agrees(s)
  BY <1>0, CallFields DEF SerialInv, SerialSession, AloneInv, Serial, CallShape, Idle
<1>a. ASSUME Agrees(s)', (~Exists(s))' => ~hibernated'[s], op[o].kind # "create" \/ op'[o] = Idle
      PROVE  /\ Agrees(s)' \/ (op'[o].s = s /\ Woken(o)')
             /\ (~Exists(s))' => ~hibernated'[s]
             /\ SerialCall(o)'
  BY <1>0, <1>a, StepCall DEF SerialCall, Idle
<1>b. ASSUME UNCHANGED <<status, hibernated, pane>>, ~Woken(o)
      PROVE  /\ Agrees(s)' \/ (op'[o].s = s /\ Woken(o)')
             /\ (~Exists(s))' => ~hibernated'[s]
             /\ SerialCall(o)'
  BY <1>0, <1>1, <1>b, StepCall DEF Agrees, Exists, SerialCall, Idle
<1>2. CASE \/ LaunchFails(o) \/ ReadPlaceholder(o) \/ AddWorktree(o)
           \/ UndoWorktree(o) \/ CheckPane(o) \/ SpawnClient(o) \/ Touch(o)
           \/ RemoveWorktree(o) \/ SnapshotStamp(o) \/ CheckAttached(o) \/ Recheck(o)
           \/ CheckReappeared(o) \/ ListStale(o) \/ Survey(o) \/ ProbePane(o)
  <2>1. UNCHANGED <<status, hibernated, pane>>
    BY <1>2 DEF LaunchFails, ReadPlaceholder, AddWorktree, UndoWorktree, CheckPane, SpawnClient, Touch,
       RemoveWorktree, SnapshotStamp, CheckAttached, Recheck, CheckReappeared, ListStale, Survey,
       ProbePane, record, tmux
  <2>2. ~Woken(o)
    BY <1>2 DEF LaunchFails, ReadPlaceholder, AddWorktree, UndoWorktree, CheckPane, SpawnClient, Touch,
       RemoveWorktree, SnapshotStamp, CheckAttached, Recheck, CheckReappeared, ListStale, Survey, ProbePane
  <2> QED  BY <1>b, <2>1, <2>2
<1>3. CASE KillTmux(o)
  <2>1. pane'[s] = "none" /\ UNCHANGED <<status, hibernated>>
    BY <1>0, <1>3 DEF KillTmux, TypeOK, record
  <2>2. op[o].kind # "create"
    BY <1>0, <1>3 DEF KillTmux, CallShape, InPlace
  <2> QED  BY <1>0, <1>a, <2>1, <2>2 DEF Agrees, Live, Exists
<1>4. CASE LaunchPane(o)
  <2>1. op'[o] = Ahead(o, "commit") /\ UNCHANGED <<status, hibernated>>
    BY <1>0, <1>4, Goes DEF LaunchPane, Place, record
  <2>2. op[o].kind \in {"create", "attach"} \cup Restarting
    BY <1>0, <1>4 DEF LaunchPane, CallShape, InPlace
  <2> QED  BY <1>0, <2>1, <2>2 DEF Ahead, Call, Agrees, SerialCall, Exists
<1>5. CASE CommitCreated(o)
  <2>1. hibernated' = hibernated /\ status' = IF Exists(s) THEN [status EXCEPT ![s] = "Running"] ELSE status
    BY <1>0, <1>5 DEF CommitCreated, MarkRunning
  <2> QED  BY <1>0, <1>5, <2>1, StepCall DEF CommitCreated, Agrees, SerialCall, Exists, Stored, TypeOK, Idle
<1>6. CASE RemoveCreating(o) \/ RemoveProject(o) \/ DropCreating(o)
  <2>1. Forget(s) /\ op'[o] = Idle
    BY <1>0, <1>6, Goes DEF RemoveCreating, RemoveProject, DropCreating, Place, Ahead
  <2>2. ~Exists(s)' /\ ~hibernated'[s]
    BY <1>0, <2>1 DEF Forget, Exists, Stored, TypeOK
  <2> QED  BY <1>a, <2>1, <2>2 DEF Agrees
<1>7. CASE MarkAttachable(o) \/ MarkRestarted(o) \/ (MarkReconciled(o) /\ op[o].saw = "Running")
  <2>1. /\ SetHibernated(s, FALSE) /\ op[o].kind # "create"
        /\ \E pc \in Place : MarkRunning(o, pc)
    BY <1>7 DEF MarkAttachable, MarkRestarted, MarkReconciled, Place
  <2>2. status' = IF Exists(s) THEN [status EXCEPT ![s] = "Running"] ELSE status
    BY <2>1 DEF MarkRunning
  <2>3. Agrees(s)' /\ ((~Exists(s))' => ~hibernated'[s])
    BY <1>0, <2>1, <2>2 DEF SetHibernated, Agrees, Exists, Stored, TypeOK
  <2> QED  BY <1>a, <2>1, <2>3
<1>8. CASE MarkKilled(o) \/ MarkHibernated(o) \/ (MarkReconciled(o) /\ op[o].saw = "Stopped")
  <2>1. pane[s] = "none" /\ UNCHANGED pane
    BY <1>0, <1>8 DEF MarkKilled, MarkHibernated, MarkReconciled, PaneGone, tmux
  <2>2. (~Exists(s))' => ~hibernated'[s]
    BY <1>0, <1>8 DEF MarkKilled, MarkHibernated, MarkReconciled, MarkStopped, SetHibernated, Exists, Stored, TypeOK
  <2>3. op[o].kind # "create"
    BY <1>8 DEF MarkKilled, MarkHibernated, MarkReconciled
  <2> QED  BY <1>a, <2>1, <2>2, <2>3 DEF Agrees, Live
<1>9. CASE ResetBusy(o) \/ CascadeStatus(o)
  <2>1. /\ UNCHANGED <<hibernated, pane>> /\ op[o].kind # "create" /\ ~Woken(o)
        /\ \/ status' = IF Exists(s) THEN [status EXCEPT ![s] = "Running"] ELSE status
           \/ status' = IF Exists(s) THEN [status EXCEPT ![s] = "Merging"] ELSE status
    BY <1>9 DEF ResetBusy, CascadeStatus, MarkRunning, tmux
  <2>2. Agrees(s)' /\ ((~Exists(s))' => ~hibernated'[s])
    BY <1>0, <1>1, <2>1 DEF Agrees, Exists, Stored, TypeOK
  <2> QED  BY <1>a, <2>1, <2>2
<1>10. CASE MarkReconciled(o)
  BY <1>7, <1>8, <1>10 DEF MarkReconciled
<1>11. ~MarkRestartFailed(o) /\ ~Abandon(o)
  BY <1>0 DEF MarkRestartFailed, Abandon
<1> QED  BY <1>2, <1>3, <1>4, <1>5, <1>6, <1>7, <1>8, <1>9, <1>10, <1>11 DEF Step

(* ... and nothing of the others.                                          *)
LEMMA StepElsewhere ==
  ASSUME WellFormed, NEW o \in Op, Step(o), NEW t \in Session, t # op[o].s
  PROVE  /\ status'[t] = status[t] /\ hibernated'[t] = hibernated[t] /\ pane'[t] = pane[t]
         /\ worktree'[t] = worktree[t]
<1>0. TypeOK /\ op[o].s \in Session
  BY StepCall DEF WellFormed
<1>1. status'[t] = status[t]
  BY <1>0 DEF Step, TypeOK, KillTmux, LaunchPane, LaunchFails, ReadPlaceholder, AddWorktree,
     CommitCreated, UndoWorktree, RemoveCreating, CheckPane, MarkAttachable, SpawnClient, Touch,
     MarkRestarted, MarkRestartFailed, RemoveWorktree, MarkKilled, RemoveProject, SnapshotStamp,
     CheckAttached, Recheck, CheckReappeared, MarkHibernated, ListStale, DropCreating, ResetBusy,
     Survey, ProbePane, MarkReconciled, CascadeStatus, Abandon, MarkRunning, MarkStopped, Forget, record
<1>2. hibernated'[t] = hibernated[t]
  BY <1>0 DEF Step, TypeOK, KillTmux, LaunchPane, LaunchFails, ReadPlaceholder, AddWorktree,
     CommitCreated, UndoWorktree, RemoveCreating, CheckPane, MarkAttachable, SpawnClient, Touch,
     MarkRestarted, MarkRestartFailed, RemoveWorktree, MarkKilled, RemoveProject, SnapshotStamp,
     CheckAttached, Recheck, CheckReappeared, MarkHibernated, ListStale, DropCreating, ResetBusy,
     Survey, ProbePane, MarkReconciled, CascadeStatus, Abandon, SetHibernated, Forget, record
<1>3. pane'[t] = pane[t] /\ worktree'[t] = worktree[t]
  BY <1>0 DEF Step, TypeOK, KillTmux, LaunchPane, LaunchFails, ReadPlaceholder, AddWorktree,
     CommitCreated, UndoWorktree, RemoveCreating, CheckPane, MarkAttachable, SpawnClient, Touch,
     MarkRestarted, MarkRestartFailed, RemoveWorktree, MarkKilled, RemoveProject, SnapshotStamp,
     CheckAttached, Recheck, CheckReappeared, MarkHibernated, ListStale, DropCreating, ResetBusy,
     Survey, ProbePane, MarkReconciled, CascadeStatus, Abandon, tmux
<1> QED  BY <1>1, <1>2, <1>3

LEMMA SerialStart ==
  ASSUME WellFormed, AloneInv, Serial, SerialInv, UNCHANGED workload,
         NEW o \in Op, NEW s \in workload.sessions, Start(o, s)
  PROVE  (\A t \in Session : Agrees(t)' /\ ((~Exists(t))' => ~hibernated'[t])) /\ SerialCall(o)'
<1> USE DEF Agrees, Exists
<1>0. TypeOK /\ s \in Session /\ pane' = pane
  BY StartCall DEF WellFormed, Start, Prepare, EnsureAttachable, Restart, ChangeProgram, Kill, Delete,
     PickIdle, Reconcile, Cascade, tmux
<1>1. \A t \in Session : Agrees(t) /\ (~Exists(t) => ~hibernated[t])
  <2>1. \A p \in Op : ~Woken(p)
    BY StartCall DEF Serial, Woken
  <2> QED  BY <2>1 DEF SerialInv, SerialSession
<1>2. CASE Prepare(o, s)
  BY <1>0, <1>1, <1>2, StartCall DEF Prepare, TypeOK, Stored, SerialCall
<1>3. CASE Delete(o, s)
  <2>1. op'[o].kind # "create"
    BY <1>3, StartCall DEF Delete, Begin, WellFormed, TypeOK
  <2> QED  BY <1>0, <1>1, <1>3, <2>1 DEF Delete, Forget, TypeOK, Stored, SerialCall
<1>4. CASE ~Prepare(o, s) /\ ~Delete(o, s)
  <2>1. UNCHANGED <<status, hibernated>>
    BY <1>4 DEF Start, EnsureAttachable, Restart, ChangeProgram, Kill, PickIdle, Reconcile, Cascade, record
  <2>2. op'[o].kind # "create"
    BY <1>4, StartCall DEF Restarting
  <2> QED  BY <1>0, <1>1, <2>1, <2>2 DEF SerialCall
<1> QED  BY <1>2, <1>3, <1>4

LEMMA SerialAlways == Spec => [](Serial => SerialInv)
<1> DEFINE Cut == AloneInv /\ (CutShort => PanesInv /\ OwedInv)
<1>1. WellFormed /\ Cut /\ (Serial => SerialInv) /\ [Next]_vars => (Serial => SerialInv)'
  <2> SUFFICES ASSUME WellFormed, Cut, Serial, SerialInv, [Next]_vars, UNCHANGED workload PROVE SerialInv'
    BY DEF Serial, Next, vars
  <2>0. PanesInv
    BY DEF Serial, CutShort, MayFail
  <2>1. CASE UNCHANGED vars
    BY <2>1 DEF vars, record, tmux, SerialInv, SerialSession, SerialCall, Agrees, Woken, Exists
  <2>2. ASSUME NEW o \in Op, Step(o) PROVE SerialInv'
    <3>0. op[o].s \in Session /\ \A p \in Op \ {o} : op[p] = Idle /\ op'[p] = Idle
      BY <2>2, StepCall, OthersIdle DEF Serial
    <3>1. SerialCall(o)'
      BY <2>0, <2>2, <3>0, SerialOwn
    <3>2. ASSUME NEW t \in Session PROVE SerialSession(t)'
      <4>1. CASE t = op[o].s
        BY <2>0, <2>2, <4>1, SerialOwn DEF SerialSession
      <4>2. CASE t # op[o].s
        <5>1. ~\E p \in Op : op[p].s = t /\ Woken(p)
          BY <3>0, <4>2 DEF Woken, Idle
        <5> QED  BY <2>2, <4>2, <5>1, StepElsewhere DEF SerialInv, SerialSession, Agrees, Exists
      <4> QED  BY <4>1, <4>2
    <3> QED  BY <3>0, <3>1, <3>2 DEF SerialInv, SerialCall, Idle
  <2>3. ASSUME NEW o \in Op, NEW s \in workload.sessions, Start(o, s) PROVE SerialInv'
    <3>1. \A p \in Op \ {o} : op'[p] = Idle
      BY <2>3, StartCall, CallFields DEF Serial, CallShape, OthersStay, SameCall
    <3> QED  BY <2>3, <3>1, SerialStart DEF SerialInv, SerialSession, SerialCall, Idle
  <2>4. ASSUME NEW s \in workload.sessions, ToggleKeepAlive(s) \/ EditProgram(s) \/ Detach(s) \/ AgentExits(s)
        PROVE SerialInv'
    <3>1. UNCHANGED <<status, hibernated>> /\ \A o \in Op : SameCall(op'[o], op[o])
      BY <2>4, SessionOK
    <3>2. \A t \in Session : pane'[t] \in Live => pane[t] \in Live
      BY <2>4, SessionOK DEF Live
    <3>3. \A t \in Session : Agrees(t) => Agrees(t)'
      BY <3>1, <3>2 DEF Agrees, Exists
    <3>4. \A o \in Op : /\ Woken(o) => Woken(o)'
                        /\ op'[o].s = op[o].s /\ op'[o].kind = op[o].kind
      BY <3>1 DEF SameCall, Woken
    <3> QED  BY <3>1, <3>3, <3>4 DEF SerialInv, SerialSession, SerialCall, Exists
  <2> QED  BY <2>1, <2>2, <2>3, <2>4 DEF Next
<1>2. Init => SerialInv
  <2> SUFFICES ASSUME Init PROVE SerialInv
    OBVIOUS
  <2>1. /\ \A s \in Session : ~hibernated[s] /\ (pane[s] \in Live => status[s] = "Running")
        /\ \A o \in Op : op[o] = Idle
    BY DEF Init, Live
  <2> QED  BY <2>1 DEF SerialInv, SerialSession, SerialCall, Agrees, Idle
<1> QED  BY <1>1, <1>2, WellFormedAlways, CutAlways, PTL DEF Spec

(* Calls that come one at a time, with nothing failing but agents, leave   *)
(* every record in agreement with its pane.                                *)
THEOREM SerialCallsAgree == Spec => []SerialPanesAgree
<1>1. (Serial => SerialInv) => SerialPanesAgree
  BY DEF Serial, SerialInv, SerialSession, Agrees, SerialPanesAgree, LivePaneNotHibernated, Quiet
<1> QED  BY <1>1, SerialAlways, PTL
-----------------------------------------------------------------------------
(* The marker and the status, when nothing says Creating or Merging.       *)
MarkedStopped(s) == /\ hibernated[s] => status[s] = "Stopped"
                    /\ status[s] \notin {"Creating", "Merging"}

Plain == workload.kinds \cap {"create", "cascade"} = {}

MarkersInv == Plain => /\ \A s \in Session : MarkedStopped(s)
                       /\ \A o \in Op : ~At(o, {"reconcile"}, "reset")

LEMMA MarkersOwn ==
  ASSUME WellFormed, Plain, MarkersInv, UNCHANGED workload, NEW o \in Op, Step(o),
         NEW s \in Session, s = op[o].s
  PROVE  MarkedStopped(s)' /\ ~At(o, {"reconcile"}, "reset")'
<1> USE DEF At, MarkedStopped, Exists
<1>0. /\ op[o].pc # "idle" /\ op[o] \in Call /\ op \in [Op -> Call] /\ TypeOK
      /\ op[o].kind \notin {"create", "cascade"} /\ MarkedStopped(s) /\ ~At(o, {"reconcile"}, "reset")
  BY StepCall, CallFields DEF WellFormed, CallShape, Plain, MarkersInv
<1>1. ~At(o, {"reconcile"}, "reset")'
  <2>1. CASE ListStale(o)
    <3>1. \E pc \in {"drop", "busy", "survey"} : Goto(o, pc)
      BY <1>0, <2>1 DEF ListStale
    <3>2. \E pc \in {"drop", "busy", "survey"} : op'[o] = Ahead(o, pc)
      BY <1>0, <3>1, Goes DEF Place
    <3> QED  BY <1>0, <3>2 DEF Ahead, Call
  <2>2. CASE Survey(o) \/ ProbePane(o)
    <3>1. \/ op'[o] = Idle
          \/ op'[o] = [op[o] EXCEPT !.pc = "probe", !.saw = status[op[o].s]]
          \/ op'[o] = [op[o] EXCEPT !.pc = "commit", !.saw = "Running"]
          \/ op'[o] = [op[o] EXCEPT !.pc = "kill", !.saw = "Stopped"]
      BY <1>0, <2>2 DEF Survey, ProbePane, Goto
    <3>2. Idle.pc = "idle"
      BY DEF Idle
    <3>3. op'[o].pc \in {"idle", "probe", "commit", "kill"}
      BY <1>0, <3>1, <3>2 DEF Call
    <3> QED  BY <3>3
  <2>3. CASE KillTmux(o) /\ op[o].kind = "reconcile"
    <3>1. op'[o] = Ahead(o, "commit")
      BY <1>0, <2>3, Goes DEF KillTmux, AfterKill, Place
    <3> QED  BY <1>0, <3>1 DEF Ahead, Call
  <2>4. CASE DropCreating(o) \/ MarkReconciled(o) \/ Abandon(o)
    <3>1. Goto(o, "idle") \/ MarkRunning(o, "idle")
      BY <2>4 DEF DropCreating, MarkReconciled, Abandon
    <3>2. op'[o] = Idle
      BY <1>0, <3>1, Goes DEF Place, Ahead
    <3> QED  BY <3>2 DEF Idle
  <2>5. CASE op[o].kind # "reconcile"
    BY <2>5, StepCall DEF Idle
  <2> QED  BY <1>0, <2>1, <2>2, <2>3, <2>4, <2>5, StepsOf DEF ResetBusy
<1>2. MarkedStopped(s)'
  <2>1. CASE UNCHANGED <<status, hibernated>>
    BY <1>0, <2>1
  <2>2. CASE RemoveCreating(o) \/ RemoveProject(o) \/ DropCreating(o)
    BY <1>0, <2>2 DEF RemoveCreating, RemoveProject, DropCreating, Forget, TypeOK, Stored
  <2>3. CASE MarkAttachable(o) \/ MarkRestarted(o) \/ (MarkReconciled(o) /\ op[o].saw = "Running")
    <3>1. SetHibernated(s, FALSE) /\ \E pc \in Place : MarkRunning(o, pc)
      BY <2>3 DEF MarkAttachable, MarkRestarted, MarkReconciled, Place
    <3> QED  BY <1>0, <3>1 DEF SetHibernated, MarkRunning, TypeOK, Stored
  <2>4. CASE MarkKilled(o) \/ MarkHibernated(o) \/ MarkRestartFailed(o) \/ (MarkReconciled(o) /\ op[o].saw = "Stopped")
    BY <1>0, <2>4 DEF MarkKilled, MarkHibernated, MarkRestartFailed, MarkReconciled, MarkStopped,
       SetHibernated, TypeOK, Stored
  <2> QED  BY <1>0, <2>1, <2>2, <2>3, <2>4 DEF Step, KillTmux, LaunchPane, LaunchFails, ReadPlaceholder,
       AddWorktree, CommitCreated, UndoWorktree, CheckPane, SpawnClient, Touch, RemoveWorktree,
       SnapshotStamp, CheckAttached, Recheck, CheckReappeared, ListStale, ResetBusy, Survey,
       ProbePane, MarkReconciled, CascadeStatus, Abandon, record
<1> QED  BY <1>1, <1>2

LEMMA MarkersAlways == Spec => []MarkersInv
<1>1. WellFormed /\ MarkersInv /\ [Next]_vars => MarkersInv'
  <2> SUFFICES ASSUME WellFormed, MarkersInv, [Next]_vars, Plain, UNCHANGED workload
               PROVE  /\ \A s \in Session : MarkedStopped(s)'
                      /\ \A o \in Op : ~At(o, {"reconcile"}, "reset")'
    BY DEF MarkersInv, Plain, Next, vars
  <2>1. CASE UNCHANGED vars
    BY <2>1 DEF vars, record, MarkersInv, MarkedStopped, At
  <2>2. ASSUME NEW o \in Op, OthersStay(o), ~At(o, {"reconcile"}, "reset")', NEW p \in Op
        PROVE  ~At(p, {"reconcile"}, "reset")'
    BY <2>2 DEF MarkersInv, At, OthersStay, SameCall
  <2>3. ASSUME NEW o \in Op, Step(o)
        PROVE  /\ \A s \in Session : MarkedStopped(s)'
               /\ \A p \in Op : ~At(p, {"reconcile"}, "reset")'
    <3>1. \A s \in Session : MarkedStopped(s)'
      BY <2>3, MarkersOwn, StepElsewhere DEF MarkersInv, MarkedStopped
    <3> QED  BY <2>2, <2>3, <3>1, MarkersOwn, StepCall
  <2>4. ASSUME NEW o \in Op, NEW s \in workload.sessions, Start(o, s)
        PROVE  /\ \A t \in Session : MarkedStopped(t)'
               /\ \A p \in Op : ~At(p, {"reconcile"}, "reset")'
    <3>1. ~At(o, {"reconcile"}, "reset")'
      BY <2>4, StartCall DEF At
    <3>2. ~Prepare(o, s)
      BY DEF Prepare, Begin, Plain
    <3>3. \A t \in Session : MarkedStopped(t)'
      <4>1. CASE Delete(o, s)
        BY <4>1, StartCall DEF Delete, Forget, MarkersInv, MarkedStopped, WellFormed, TypeOK, Exists, Stored
      <4>2. CASE UNCHANGED <<status, hibernated>>
        BY <4>2 DEF MarkersInv, MarkedStopped
      <4> QED  BY <2>4, <3>2, <4>1, <4>2 DEF Start, EnsureAttachable, Restart, ChangeProgram, Kill,
           PickIdle, Reconcile, Cascade, record
    <3> QED  BY <2>2, <2>4, <3>1, <3>3, StartCall
  <2>5. ASSUME NEW s \in workload.sessions, ToggleKeepAlive(s) \/ EditProgram(s) \/ Detach(s) \/ AgentExits(s)
        PROVE  /\ \A t \in Session : MarkedStopped(t)'
               /\ \A p \in Op : ~At(p, {"reconcile"}, "reset")'
    BY <2>5, SessionOK DEF MarkersInv, MarkedStopped, At, SameCall
  <2> QED  BY <2>1, <2>3, <2>4, <2>5 DEF Next
<1>2. Init => MarkersInv
  BY DEF Init, MarkersInv, MarkedStopped, At, Idle
<1> QED  BY <1>1, <1>2, WellFormedAlways, PTL DEF Spec

(* However calls race, fail or are dropped, only a Stopped session is      *)
(* marked hibernated, as long as none creates or cascades.                 *)
THEOREM MarkersOnStopped == Spec => []MarkerMeansStopped
<1>1. MarkersInv => MarkerMeansStopped
  BY DEF MarkersInv, Plain, MarkedStopped, MarkerMeansStopped
<1> QED  BY <1>1, MarkersAlways, PTL
-----------------------------------------------------------------------------
Kept == workload.kinds \cap {"remove", "reconcile"} = {} /\ ~MayFail("abandon")

Creates(o, s) == op[o].s = s /\ op[o].kind = "create"

Deletes(o, s) == op[o].s = s /\ op[o].kind = "delete" /\ op[o].saw # "Creating"

(* A creation that may still give up without removing a worktree has none, *)
(* and it never ends leaving the record it made saying Creating.           *)
CreationOK(o) ==
  /\ op[o].kind = "create" /\ op[o].pc \in {"read", "worktree", "drop"} => ~worktree[op[o].s]
  /\ At(o, {"create"}, "verify") => status[op[o].s] # "Creating"

(* A session has one creation; until then it has nothing; and a record     *)
(* that says Creating, or a worktree without a record, has a call in       *)
(* flight that will see to it.                                             *)
Attended(s) ==
  /\ status[s] = "unborn" => ~worktree[s] /\ \A o \in Op : op[o].s # s
  /\ \A o, p \in Op : Creates(o, s) /\ Creates(p, s) => o = p
  /\ status[s] = "Creating" => \E o \in Op : Creates(o, s)
  /\ worktree[s] /\ ~Exists(s) => \E o \in Op : Creates(o, s) \/ Deletes(o, s)

WorktreesInv == Kept => /\ \A s \in Session : Attended(s)
                        /\ \A o \in Op : CreationOK(o)

(* What a creation's step does to its session ...                          *)
LEMMA CreationStep ==
  ASSUME WellFormed, Kept, UNCHANGED workload, NEW o \in Op, Step(o), op[o].kind = "create",
         NEW s \in Session, s = op[o].s, CreationOK(o), status[s] # "unborn"
  PROVE  /\ status'[s] # "unborn" /\ CreationOK(o)'
         /\ Creates(o, s)' \/ (status'[s] # "Creating" /\ (~worktree'[s] \/ Exists(s)'))
<1> USE DEF At, CreationOK, Exists, Creates
<1>0. /\ op[o].pc # "idle" /\ op[o] \in Call /\ TypeOK
      /\ ~Abandon(o)
  BY StepCall, CallFields DEF WellFormed, Kept, Abandon
<1>1. ASSUME op'[o] = Idle PROVE CreationOK(o)'
  BY <1>1 DEF Idle
<1>a. ASSUME NEW pc \in Place \ {"idle"}, Goto(o, pc) \/ MarkRunning(o, pc)
      PROVE  op'[o].pc = pc /\ op'[o].kind = "create" /\ op'[o].s = s
  <2>1. op'[o] = Ahead(o, pc)
    BY <1>0, <1>a, Goes
  <2> QED  BY <1>0, <2>1 DEF Ahead, Call
<1>2. CASE LaunchPane(o) \/ LaunchFails(o)
  <2>1. (Goto(o, "commit") \/ Goto(o, "undo")) /\ UNCHANGED <<status, worktree>>
    BY <1>2 DEF LaunchPane, LaunchFails, AfterFailedLaunch, record
  <2>2. op'[o].pc \in {"commit", "undo"} /\ op'[o].kind = "create" /\ op'[o].s = s
    BY <1>a, <2>1 DEF Place
  <2> QED  BY <2>1, <2>2
<1>3. CASE ReadPlaceholder(o)
  <2>0. UNCHANGED <<status, worktree>>
    BY <1>3 DEF ReadPlaceholder, record
  <2>1. \/ Goto(o, "idle") /\ op[o].pc = "verify" /\ Exists(s)
        \/ (Goto(o, "worktree") \/ Goto(o, "drop")) /\ op[o].pc = "read"
        \/ Goto(o, "launch") \/ Goto(o, "undo")
    BY <1>3 DEF ReadPlaceholder, AfterRead
  <2>2. CASE Goto(o, "idle") /\ op[o].pc = "verify" /\ Exists(s)
    <3>1. op'[o] = Idle
      BY <1>0, <2>2, Goes DEF Place, Ahead
    <3> QED  BY <1>1, <2>0, <2>2, <3>1
  <2>3. CASE (Goto(o, "worktree") \/ Goto(o, "drop")) /\ op[o].pc = "read"
    <3>1. op'[o].pc \in {"worktree", "drop"} /\ op'[o].kind = "create" /\ op'[o].s = s
      BY <1>a, <2>3 DEF Place
    <3> QED  BY <2>0, <2>3, <3>1
  <2>4. CASE Goto(o, "launch") \/ Goto(o, "undo")
    <3>1. op'[o].pc \in {"launch", "undo"} /\ op'[o].kind = "create" /\ op'[o].s = s
      BY <1>a, <2>4 DEF Place
    <3> QED  BY <2>0, <3>1
  <2> QED  BY <2>1, <2>2, <2>3, <2>4
<1>4. CASE AddWorktree(o)
  <2>1. Goto(o, "name") \/ (Goto(o, "drop") /\ worktree' = worktree)
    BY <1>4 DEF AddWorktree
  <2>2. op'[o].pc = "name" \/ (op'[o].pc = "drop" /\ worktree' = worktree)
    BY <1>a, <2>1 DEF Place
  <2>3. op'[o].kind = "create" /\ op'[o].s = s
    BY <1>a, <2>1 DEF Place
  <2> QED  BY <1>4, <2>2, <2>3 DEF AddWorktree, record
<1>5. CASE CommitCreated(o)
  <2>1. op'[o].pc \in {"verify", "undo"} /\ op'[o].kind = "create" /\ op'[o].s = s
    BY <1>a, <1>5 DEF CommitCreated, Place
  <2>2. \/ MarkRunning(o, "verify") /\ status' = IF Exists(s) THEN [status EXCEPT ![s] = "Running"] ELSE status
        \/ Goto(o, "undo") /\ status' = status
    BY <1>5 DEF CommitCreated, MarkRunning
  <2>3. status'[s] # "unborn" /\ (status'[s] # "Creating" \/ Goto(o, "undo"))
    BY <1>0, <2>2 DEF TypeOK, Stored
  <2>4. Goto(o, "undo") => op'[o].pc = "undo"
    BY <1>a DEF Place
  <2> QED  BY <2>1, <2>3, <2>4
<1>6. CASE UndoWorktree(o)
  <2>1. op'[o].pc = "drop" /\ op'[o].kind = "create" /\ op'[o].s = s
    BY <1>a, <1>6 DEF UndoWorktree, Place
  <2> QED  BY <1>0, <1>6, <2>1 DEF UndoWorktree, TypeOK, record
<1>7. CASE RemoveCreating(o)
  <2>1. op'[o] = Idle
    BY <1>0, <1>7, Goes DEF RemoveCreating, Place, Ahead
  <2> QED  BY <1>0, <1>1, <1>7, <2>1 DEF RemoveCreating, Forget, TypeOK, Stored
<1> QED  BY <1>0, <1>2, <1>3, <1>4, <1>5, <1>6, <1>7, StepsOf

(* ... and what another call's does to its own.                            *)
LEMMA OtherStep ==
  ASSUME WellFormed, Kept, UNCHANGED workload, NEW o \in Op, Step(o), op[o].kind # "create",
         NEW s \in Session, s = op[o].s
  PROVE  /\ worktree'[s] => worktree[s]
         /\ status'[s] \in {"Creating", "unborn"} => status'[s] = status[s]
         /\ Exists(s)' <=> Exists(s)
         /\ Deletes(o, s) => Deletes(o, s)' \/ ~worktree'[s]
<1> USE DEF At, Exists
<1>0. /\ op[o].pc # "idle" /\ op[o] \in Call /\ TypeOK /\ ~Abandon(o)
      /\ op[o].kind \notin {"create", "remove", "reconcile"}
  BY StepCall, CallFields DEF WellFormed, Kept, Abandon, CallShape
<1>1. \/ status' = status
      \/ \E st \in {"Running", "Stopped", "Merging"} :
           status' = IF Exists(s) THEN [status EXCEPT ![s] = st] ELSE status
  BY <1>0 DEF Step, KillTmux, LaunchPane, LaunchFails, ReadPlaceholder, AddWorktree,
     CommitCreated, UndoWorktree, RemoveCreating, CheckPane, MarkAttachable, SpawnClient, Touch,
     MarkRestarted, MarkRestartFailed, RemoveWorktree, MarkKilled, RemoveProject, SnapshotStamp,
     CheckAttached, Recheck, CheckReappeared, MarkHibernated, ListStale, DropCreating, ResetBusy,
     Survey, ProbePane, MarkReconciled, CascadeStatus, MarkRunning, MarkStopped, record
<1>2. /\ status'[s] \in {"Creating", "unborn"} => status'[s] = status[s]
      /\ Exists(s)' <=> Exists(s)
  BY <1>0, <1>1 DEF TypeOK, Stored
<1>3. CASE RemoveWorktree(o)
  BY <1>0, <1>2, <1>3 DEF RemoveWorktree, Deletes, TypeOK
<1>4. CASE ~RemoveWorktree(o)
  <2>1. worktree' = worktree
    BY <1>0, <1>4 DEF Step, KillTmux, LaunchPane, LaunchFails, ReadPlaceholder, AddWorktree,
     CommitCreated, UndoWorktree, RemoveCreating, CheckPane, MarkAttachable, SpawnClient, Touch,
     MarkRestarted, MarkRestartFailed, MarkKilled, RemoveProject, SnapshotStamp,
     CheckAttached, Recheck, CheckReappeared, MarkHibernated, ListStale, DropCreating, ResetBusy,
     Survey, ProbePane, MarkReconciled, CascadeStatus
  <2>2. ASSUME op[o].kind = "delete" PROVE op'[o].kind = "delete" /\ op'[o].s = s /\ op'[o].saw = op[o].saw
    <3>1. KillTmux(o)
      BY <1>0, <1>4, <2>2, StepsOf DEF MarkKilled, RemoveProject
    <3>2. op'[o] = Ahead(o, "rmtree")
      BY <1>0, <2>2, <3>1, Goes DEF KillTmux, AfterKill, Place
    <3> QED  BY <1>0, <2>2, <3>2 DEF Ahead, Call
  <2> QED  BY <1>2, <2>1, <2>2 DEF Deletes
<1> QED  BY <1>3, <1>4

LEMMA WorktreesOfStep ==
  ASSUME WellFormed, Kept, WorktreesInv, UNCHANGED workload, NEW o \in Op, Step(o)
  PROVE  (\A t \in Session : Attended(t)') /\ (\A p \in Op : CreationOK(p)')
<1> PICK s \in Session : s = op[o].s
  BY StepCall
<1>0. /\ \A t \in Session : Attended(t)
      /\ \A p \in Op : CreationOK(p) /\ CallShape(op[p])
      /\ \A p \in Op : op'[p].s = op[p].s \/ op'[p] = Idle
      /\ \A p \in Op \ {o} : SameCall(op'[p], op[p])
      /\ op'[o].kind = op[o].kind \/ op'[o] = Idle
      /\ status[s] # "unborn"
  <2>1. op'[o] = Idle \/ (op'[o].s = op[o].s /\ op'[o].kind = op[o].kind) 
    BY StepCall
  <2>2. \A p \in Op \ {o} : SameCall(op'[p], op[p])
    BY StepCall DEF OthersStay
  <2> QED  BY <2>1, <2>2 DEF WorktreesInv, WellFormed, SameCall, Attended
<1>1. ASSUME NEW t \in Session, t # s PROVE Attended(t)'
  <2>1. status'[t] = status[t] /\ worktree'[t] = worktree[t]
    BY <1>1, StepElsewhere
  <2>2. \A p \in Op : /\ Creates(p, t)' <=> Creates(p, t)
                      /\ Deletes(p, t)' <=> Deletes(p, t)
                      /\ op'[p].s = t => op[p].s = t
    <3>1. \A p \in Op \ {o} : /\ Creates(p, t)' <=> Creates(p, t)
                              /\ Deletes(p, t)' <=> Deletes(p, t)
                              /\ op'[p].s = t => op[p].s = t
      BY <1>0 DEF SameCall, Creates, Deletes
    <3>2. op[o].s # t /\ op'[o].s # t
      BY <1>0, <1>1, LifecycleAssumption DEF Idle
    <3> QED  BY <3>1, <3>2 DEF Creates, Deletes
  <2> QED  BY <1>0, <2>1, <2>2 DEF Attended, Exists
<1>2. ASSUME NEW p \in Op, op[p].s # s \/ op[p].kind # "create", p # o PROVE CreationOK(p)'
  <2>1. CASE op[p].kind # "create"
    BY <1>0, <1>2, <2>1 DEF SameCall, CreationOK, At
  <2>2. CASE op[p].kind = "create"
    <3>1. op[p].s \in Session
      BY <2>2, CallFields DEF CallShape, Idle
    <3>2. status'[op[p].s] = status[op[p].s] /\ worktree'[op[p].s] = worktree[op[p].s]
      BY <1>2, <2>2, <3>1, StepElsewhere
    <3> QED  BY <1>0, <1>2, <3>2 DEF SameCall, CreationOK, At
  <2> QED  BY <2>1, <2>2
<1>3. CASE op[o].kind = "create"
  <2>1. /\ status'[s] # "unborn" /\ CreationOK(o)'
        /\ Creates(o, s)' \/ (status'[s] # "Creating" /\ (~worktree'[s] \/ Exists(s)'))
    BY <1>0, <1>3, CreationStep
  <2>2. \A p \in Op : Creates(p, s) => p = o
    BY <1>0, <1>3 DEF Attended, Creates
  <2>3. \A p \in Op : Creates(p, s)' => p = o
    BY <1>0, <2>2 DEF Creates, SameCall
  <2>4. Attended(s)'
    BY <2>1, <2>3 DEF Attended
  <2> QED  BY <1>1, <1>2, <2>1, <2>2, <2>4 DEF Creates
<1>4. CASE op[o].kind # "create"
  <2>1. /\ worktree'[s] => worktree[s]
        /\ status'[s] \in {"Creating", "unborn"} => status'[s] = status[s]
        /\ Exists(s)' <=> Exists(s)
        /\ Deletes(o, s) => Deletes(o, s)' \/ ~worktree'[s]
    BY <1>4, OtherStep
  <2>2. \A p \in Op : Creates(p, s)' <=> Creates(p, s)
    BY <1>0, <1>4 DEF Creates, SameCall, Idle
  <2>3. \A p \in Op \ {o} : Deletes(p, s)' <=> Deletes(p, s)
    BY <1>0 DEF Deletes, SameCall
  <2>4. Attended(s)'
    BY <1>0, <2>1, <2>2, <2>3 DEF Attended
  <2>5. ASSUME NEW p \in Op PROVE CreationOK(p)'
    <3>1. CASE p = o
      BY <1>0, <1>4, <3>1 DEF CreationOK, At, Idle
    <3>2. CASE p # o /\ op[p].s = s
      BY <1>0, <2>1, <3>2 DEF CreationOK, At, SameCall
    <3> QED  BY <1>2, <3>1, <3>2
  <2> QED  BY <1>1, <2>4, <2>5
<1> QED  BY <1>3, <1>4

LEMMA WorktreesOfStart ==
  ASSUME WellFormed, Kept, WorktreesInv, UNCHANGED workload,
         NEW o \in Op, NEW s \in workload.sessions, Start(o, s)
  PROVE  (\A t \in Session : Attended(t)') /\ (\A p \in Op : CreationOK(p)')
<1>0. /\ \A t \in Session : Attended(t)
      /\ \A p \in Op : CreationOK(p)
      /\ \A p \in Op \ {o} : SameCall(op'[p], op[p])
      /\ op[o] = Idle /\ op'[o].s = s /\ op'[o].saw = status[s] /\ s \in Session
      /\ TypeOK /\ worktree' = worktree
  <2>1. worktree' = worktree
    BY DEF Start, Prepare, EnsureAttachable, Restart, ChangeProgram, Kill, Delete, PickIdle, Reconcile, Cascade
  <2> QED  BY <2>1, StartCall, CallFields DEF WorktreesInv, WellFormed, OthersStay, CallShape
<1>1. \A t \in Session \ {s} : status'[t] = status[t]
  BY <1>0 DEF Start, Prepare, EnsureAttachable, Restart, ChangeProgram, Kill, Delete, PickIdle,
     Reconcile, Cascade, Forget, TypeOK, record
<1>2. ASSUME NEW t \in Session, NEW p \in Op, t # s
      PROVE  /\ Creates(p, t)' <=> Creates(p, t)
             /\ Deletes(p, t)' <=> Deletes(p, t)
             /\ op'[p].s = t => op[p].s = t
  <2>1. CASE p = o
    <3>1. op[o].s # t /\ op'[o].s # t
      BY <1>0, <1>2, LifecycleAssumption DEF Idle
    <3> QED  BY <2>1, <3>1 DEF Creates, Deletes
  <2>2. CASE p # o
    BY <1>0, <2>2 DEF Creates, Deletes, SameCall
  <2> QED  BY <2>1, <2>2
<1>3. ASSUME NEW t \in Session \ {s} PROVE Attended(t)'
  <2>1. status'[t] = status[t] /\ worktree'[t] = worktree[t] /\ Attended(t)
    BY <1>0, <1>1
  <2>2. \A p \in Op : /\ Creates(p, t)' <=> Creates(p, t)
                      /\ Deletes(p, t)' <=> Deletes(p, t)
                      /\ op'[p].s = t => op[p].s = t
    BY <1>2
  <2> QED  BY <2>1, <2>2 DEF Attended, Exists
<1>4. \A p \in Op \ {o} : \/ Creates(p, s)' /\ Creates(p, s) 
                          \/ ~Creates(p, s)' /\ ~Creates(p, s)
  BY <1>0 DEF Creates, SameCall
<1>5. \A p \in Op \ {o} : Deletes(p, s)' <=> Deletes(p, s)
  BY <1>0 DEF Deletes, SameCall
<1>6. CASE Prepare(o, s)
  <2>1. op'[o].kind = "create" /\ op'[o].pc = "read" /\ status[s] = "unborn" /\ status'[s] = "Creating"
    <3>1. op'[o].kind = "create" /\ op'[o].pc = "read"
      BY <1>6 DEF Prepare, Begin, WellFormed, TypeOK
    <3> QED  BY <1>0, <1>6, <3>1 DEF Prepare, TypeOK
  <2>2. ~worktree[s] /\ \A p \in Op : op[p].s # s
    BY <1>0, <2>1 DEF Attended
  <2>3. \A p \in Op : Creates(p, s)' <=> p = o
    BY <1>0, <1>4, <2>1, <2>2 DEF Creates
  <2>4. Attended(s)'
    BY <1>0, <2>1, <2>2, <2>3 DEF Attended
  <2>5. CreationOK(o)'
    BY <1>0, <2>1, <2>2 DEF CreationOK, At
  <2>6. \A p \in Op \ {o} : CreationOK(p)'
    <3> SUFFICES ASSUME NEW p \in Op \ {o}, op[p].kind = "create" PROVE CreationOK(p)'
      BY <1>0 DEF CreationOK, At, SameCall
    <3>1. op[p].s \in Session /\ op[p].s # s
      BY <2>2, CallFields DEF CallShape, Idle
    <3> QED  BY <1>0, <1>1, <3>1 DEF CreationOK, At, SameCall
  <2> QED  BY <1>3, <2>4, <2>5, <2>6
<1>7. CASE ~Prepare(o, s)
  <2>1. op'[o].kind # "create" /\ Exists(s)
    BY <1>7, StartCall DEF EnsureAttachable, Restart, ChangeProgram, Kill, Delete, PickIdle, Reconcile,
       Cascade, Restarting, Exists, Stored, CanAttach
  <2>2. \/ status' = status
        \/ Delete(o, s) /\ op'[o].kind = "delete" /\ status'[s] = "gone"
    <3>1. CASE Delete(o, s)
      <4>1. op'[o].kind = "delete"
        BY <3>1 DEF Delete, Begin, WellFormed, TypeOK
      <4> QED  BY <1>0, <2>1, <3>1, <4>1 DEF Delete, Forget, TypeOK
    <3>2. CASE ~Delete(o, s)
      BY <1>7, <3>2 DEF Start, EnsureAttachable, Restart, ChangeProgram, Kill, PickIdle, Reconcile, Cascade, record
    <3> QED  BY <3>1, <3>2
  <2>3. \A p \in Op : Creates(p, s)' <=> Creates(p, s)
    BY <1>0, <1>4, <2>1 DEF Creates, Idle
  <2>4. Attended(s)'
    <3>1. CASE status' = status
      BY <1>0, <2>1, <2>3, <3>1 DEF Attended, Exists, Stored
    <3>2. CASE op'[o].kind = "delete" /\ status'[s] = "gone"
      BY <1>0, <2>1, <2>3, <3>2 DEF Attended, Deletes
    <3> QED  BY <2>2, <3>1, <3>2
  <2>5. \A p \in Op : CreationOK(p)'
    <3> SUFFICES ASSUME NEW p \in Op PROVE CreationOK(p)'
      OBVIOUS
    <3>1. CASE p = o
      BY <2>1, <3>1 DEF CreationOK, At
    <3>2. CASE p # o /\ op[p].kind # "create"
      BY <1>0, <3>2 DEF CreationOK, At, SameCall
    <3>3. CASE p # o /\ op[p].kind = "create"
      <4>1. op[p].s \in Session
        BY <3>3, CallFields DEF CallShape, Idle
      <4>2. status'[op[p].s] = "Creating" => status[op[p].s] = "Creating"
        BY <1>1, <2>2, <4>1
      <4> QED  BY <1>0, <3>3, <4>2 DEF CreationOK, At, SameCall
    <3> QED  BY <3>1, <3>2, <3>3
  <2> QED  BY <1>3, <2>4, <2>5
<1> QED  BY <1>6, <1>7

LEMMA WorktreesAlways == Spec => []WorktreesInv
<1>1. WellFormed /\ WorktreesInv /\ [Next]_vars => WorktreesInv'
  <2> SUFFICES ASSUME WellFormed, WorktreesInv, [Next]_vars, Kept, UNCHANGED workload
               PROVE  (\A t \in Session : Attended(t)') /\ (\A p \in Op : CreationOK(p)')
    BY DEF WorktreesInv, Kept, MayFail, Next, vars
  <2>1. CASE UNCHANGED vars
    BY <2>1 DEF vars, record, WorktreesInv, Attended, CreationOK, Creates, Deletes, Exists, At
  <2>2. ASSUME NEW s \in workload.sessions, ToggleKeepAlive(s) \/ EditProgram(s) \/ Detach(s) \/ AgentExits(s)
        PROVE  (\A t \in Session : Attended(t)') /\ (\A p \in Op : CreationOK(p)')
    <3>1. UNCHANGED <<status, worktree>> /\ \A o \in Op : SameCall(op'[o], op[o])
      BY <2>2, SessionOK
    <3>2. \A t \in Session : Attended(t)'
      BY <3>1 DEF WorktreesInv, Attended, Creates, Deletes, Exists, SameCall
    <3>3. \A p \in Op : CreationOK(p)'
      BY <3>1 DEF WorktreesInv, CreationOK, At, SameCall
    <3> QED  BY <3>2, <3>3
  <2> QED  BY <2>1, <2>2, WorktreesOfStep, WorktreesOfStart DEF Next
<1>2. Init => WorktreesInv
  <2> SUFFICES ASSUME Init PROVE (\A s \in Session : Attended(s)) /\ (\A o \in Op : CreationOK(o))
    BY DEF WorktreesInv
  <2>1. /\ \A o \in Op : op[o] = Idle
        /\ \A s \in Session : /\ worktree[s] => status[s] \in Stored
                              /\ status[s] # "Creating"
    BY DEF Init, Stored
  <2>2. Idle.s \notin Session /\ Idle.kind = "none"
    BY LifecycleAssumption DEF Idle
  <2> QED  BY <2>1, <2>2 DEF Attended, CreationOK, Creates, At, Exists, Stored
<1> QED  BY <1>1, <1>2, WellFormedAlways, PTL DEF Spec

(* Creations, deletions and everything else that may race them, fail       *)
(* halfway or find the record gone never leave a worktree that no call in  *)
(* flight will remove, as long as no call is dropped, no project is        *)
(* removed and no second instance starts up.                               *)
THEOREM WorktreesAreOwned == Spec => []WorktreeOwned
<1>1. WorktreesInv => WorktreeOwned
  BY DEF WorktreesInv, Kept, Attended, Creates, Deletes, WorktreeOwned
<1> QED  BY <1>1, WorktreesAlways, PTL
=============================================================================
