------------------------------ MODULE CloneJobs ------------------------------
(***************************************************************************)
(* Cloning a repository (git/clone_jobs.rs, git/clone.rs and the clone part*)
(* of api.rs): a request looks at the destination, registers a job in the  *)
(* memory of its server and follows it by polling; a task clones, registers*)
(* the checkout as a project, cleans up after a failure and records the    *)
(* outcome.  Servers share the disk and state.json, not their jobs.        *)
(*                                                                         *)
(* A job has the name of the request that registered it.  A directory is   *)
(* who made it and whether the clone into it is complete.                  *)
(***************************************************************************)
CONSTANTS Request, Server, Dest,
          NoJob,
          User          \* those who make directories by hand

ASSUME CloneAssumption == NoJob \notin Request \cup User /\ User \cap Request = {}

VARIABLES disk,       \* projects_dir: each destination, and what is in it
          projects,   \* state.json: the destinations that are projects
          request,    \* per request: where it stands, the job it polls
          job,        \* per job: where its task stands, and how it failed
          registry    \* the jobs a server remembers, with their status

cloneVars == <<disk, projects, request, job, registry>>

FreeDest == [by |-> NoJob, whole |-> FALSE]
NoRequest == [pc |-> "idle", server |-> NoJob, dest |-> NoJob, occupied |-> FALSE, job |-> NoJob]
NoTask == [pc |-> "none", server |-> NoJob, dest |-> NoJob, existed |-> FALSE, panicked |-> FALSE,
           outcome |-> "running"]

CloneInit == /\ disk = [d \in Dest |-> FreeDest]
             /\ projects = {}
             /\ request = [r \in Request |-> NoRequest]
             /\ job = [j \in Request |-> NoTask]
             /\ registry = [j \in Request |-> "none"]

IsFree(d) == disk[d] = FreeDest
Finished == {"succeeded", "failed", "occupied"}
-----------------------------------------------------------------------------
(* start_clone: the pre-flight, and then CloneJobs::spawn, which prunes,   *)
(* looks for a live job at the destination and registers under one lock.   *)
StartClone(r, v, d) ==
  /\ request[r].pc = "idle"
  /\ request' = [request EXCEPT ![r] = [NoRequest EXCEPT !.pc = "spawn", !.server = v, !.dest = d,
                                                         !.occupied = ~IsFree(d)]]
  /\ UNCHANGED <<disk, projects, job, registry>>

LiveJobsAt(v, d) == {j \in Request : registry[j] = "running" /\ job[j].server = v /\ job[j].dest = d}

Spawn(r) ==
  LET q == request[r]
      live == LiveJobsAt(q.server, q.dest)
  IN /\ q.pc = "spawn"
     /\ \E stale \in SUBSET {j \in Request : registry[j] \in Finished /\ job[j].server = q.server} :
          LET kept == [j \in Request |-> IF j \in stale THEN "none" ELSE registry[j]]
          IN IF live # {}
             THEN /\ registry' = kept /\ UNCHANGED job
                  /\ \E j \in live : request' = [request EXCEPT ![r] = [q EXCEPT !.pc = "poll", !.job = j]]
             ELSE /\ registry' = [kept EXCEPT ![r] = "running"]
                  /\ job' = [job EXCEPT ![r] =
                       [NoTask EXCEPT !.server = q.server, !.dest = q.dest,
                                      !.pc = IF q.occupied THEN "record" ELSE "exists",
                                      !.outcome = IF q.occupied THEN "occupied" ELSE "running"]]
                  /\ request' = [request EXCEPT ![r] = [q EXCEPT !.pc = "poll", !.job = r]]
     /\ UNCHANGED <<disk, projects>>

(* The frontend's loop: it stops at a status that is final, and when the   *)
(* job is not tracked any more.                                            *)
Poll(r) == /\ request[r].pc = "poll"
           /\ registry[request[r].job] # "running"
           /\ request' = [request EXCEPT ![r].pc = "told"]
           /\ UNCHANGED <<disk, projects, job, registry>>
-----------------------------------------------------------------------------
Task(j, pc) == job[j].pc = pc
TaskTo(j, pc) == job' = [job EXCEPT ![j].pc = pc]
Fails(j, pc) == job' = [job EXCEPT ![j] = [@ EXCEPT !.pc = pc, !.outcome = "failed"]]

(* run_clone: the CLI may be missing; otherwise git refuses a directory    *)
(* that is there and not empty, or starts to fill the one it makes.        *)
LookForDest(j) ==
  /\ Task(j, "exists")
  /\ \/ job' = [job EXCEPT ![j] = [@ EXCEPT !.pc = "git", !.existed = ~IsFree(job[j].dest)]]
     \/ Fails(j, "cleanup")
  /\ UNCHANGED <<disk, projects, request, registry>>

GitStarts(j) ==
  /\ Task(j, "git")
  /\ IF IsFree(job[j].dest)
     THEN disk' = [disk EXCEPT ![job[j].dest] = [by |-> j, whole |-> FALSE]] /\ TaskTo(j, "clone")
     ELSE UNCHANGED disk /\ Fails(j, "unclone")
  /\ UNCHANGED <<projects, request, registry>>

(* It ends, or fails and removes the directory it made, or is killed at    *)
(* the timeout and cannot.                                                 *)
GitEnds(j) ==
  LET d == job[j].dest
  IN /\ Task(j, "clone")
     /\ \/ /\ disk[d].by = j
           /\ disk' = [disk EXCEPT ![d].whole = TRUE] /\ TaskTo(j, "register")
        \/ /\ disk' = IF disk[d].by = j THEN [disk EXCEPT ![d] = FreeDest] ELSE disk
           /\ Fails(j, "unclone")
        \/ UNCHANGED disk /\ Fails(j, "unclone")
     /\ UNCHANGED <<projects, request, registry>>

(* run_clone's own cleanup.                                                *)
RemoveUnlessExisted(j) ==
  /\ Task(j, "unclone")
  /\ disk' = IF job[j].existed THEN disk ELSE [disk EXCEPT ![job[j].dest] = FreeDest]
  /\ TaskTo(j, "cleanup")
  /\ UNCHANGED <<projects, request, registry>>

(* ensure_project, on the checkout if it is still there; the worker that   *)
(* registers may also be lost once it has.                                 *)
EnsureProject(j) ==
  /\ Task(j, "register")
  /\ \/ /\ disk[job[j].dest].whole
        /\ projects' = projects \cup {job[j].dest}
        /\ job' = [job EXCEPT ![j] = [@ EXCEPT !.pc = "record", !.outcome = "succeeded"]]
     \/ disk[job[j].dest].whole /\ projects' = projects \cup {job[j].dest} /\ Fails(j, "cleanup")
     \/ UNCHANGED projects /\ Fails(j, "cleanup")
  /\ UNCHANGED <<disk, request, registry>>

(* Wrong on purpose: what a later step left behind stays.                  *)
KeepFailedRegistration(j) ==
  /\ Task(j, "cleanup")
  /\ disk' = IF disk[job[j].dest].whole THEN disk ELSE [disk EXCEPT ![job[j].dest] = FreeDest]
  /\ TaskTo(j, "record")
  /\ UNCHANGED <<projects, request, registry>>

(* clone_then_register's cleanup, for a failure at any of its steps.       *)
RemovePartialClone(j) ==
  /\ Task(j, "cleanup")
  /\ disk' = [disk EXCEPT ![job[j].dest] = FreeDest]
  /\ TaskTo(j, "record")
  /\ UNCHANGED <<projects, request, registry>>

(* Wrong on purpose: a task that panicked is never recorded.               *)
PanicUnobserved(j) == /\ job[j].pc \notin {"none", "record"}
                      /\ job' = [job EXCEPT ![j] = [@ EXCEPT !.pc = "none", !.panicked = TRUE]]
                      /\ UNCHANGED <<disk, projects, request, registry>>

(* A panic is awaited like any other end, and cleans nothing up.           *)
Panic(j) == /\ job[j].pc \notin {"none", "record"}
            /\ job' = [job EXCEPT ![j] = [@ EXCEPT !.pc = "record", !.outcome = "failed",
                                                   !.panicked = TRUE]]
            /\ UNCHANGED <<disk, projects, request, registry>>

FinishJob(j) == /\ Task(j, "record")
                /\ registry' = [registry EXCEPT ![j] = job[j].outcome]
                /\ TaskTo(j, "none")
                /\ UNCHANGED <<disk, projects, request>>

(* A server ends: its jobs and the processes they started are gone.        *)
ServerEnds(v) ==
  /\ \E j \in Request : job[j].server = v
  /\ job' = [j \in Request |-> IF job[j].server = v THEN NoTask ELSE job[j]]
  /\ registry' = [j \in Request |-> IF job[j].server = v THEN "none" ELSE registry[j]]
  /\ request' = [r \in Request |->
                   IF request[r].pc = "spawn" /\ request[r].server = v
                   THEN [request[r] EXCEPT !.pc = "told"] ELSE request[r]]
  /\ UNCHANGED <<disk, projects>>

(* The user makes a directory, or a checkout, where there is none.         *)
MakeByHand(d) == /\ IsFree(d)
                 /\ \E u \in User, whole \in BOOLEAN :
                      disk' = [disk EXCEPT ![d] = [by |-> u, whole |-> whole]]
                 /\ UNCHANGED <<projects, request, job, registry>>

TaskStep(j) == \/ LookForDest(j) \/ GitStarts(j) \/ GitEnds(j) \/ RemoveUnlessExisted(j)
               \/ EnsureProject(j) \/ RemovePartialClone(j) \/ FinishJob(j)

CloneNext == \/ \E r \in Request : \/ \E v \in Server, d \in Dest : StartClone(r, v, d)
                                   \/ Spawn(r) \/ Poll(r)
                                   \/ TaskStep(r) \/ Panic(r)
             \/ \E v \in Server : ServerEnds(v)
             \/ \E d \in Dest : MakeByHand(d)

(* Frontends keep polling, tasks run, and the timeout bounds git.          *)
CloneFairness == \A r \in Request : WF_cloneVars(Poll(r)) /\ WF_cloneVars(TaskStep(r))

CloneSpec == CloneInit /\ [][CloneNext]_cloneVars /\ CloneFairness
-----------------------------------------------------------------------------
CloneTypeOK ==
  /\ disk \in [Dest -> [by : Request \cup User \cup {NoJob}, whole : BOOLEAN]]
  /\ projects \subseteq Dest
  /\ request \in [Request -> [pc : {"idle", "spawn", "poll", "told"}, server : Server \cup {NoJob},
                              dest : Dest \cup {NoJob}, occupied : BOOLEAN,
                              job : Request \cup {NoJob}]]
  /\ job \in [Request -> [pc : {"none", "exists", "git", "clone", "unclone", "register",
                                "cleanup", "record"},
                          server : Server \cup {NoJob}, dest : Dest \cup {NoJob},
                          existed : BOOLEAN, panicked : BOOLEAN,
                          outcome : Finished \cup {"running"}]]
  /\ registry \in [Request -> Finished \cup {"none", "running"}]

(* "A spinner that never stops": whatever becomes of the task, a frontend  *)
(* that polls a clone is told how it ended, or that nobody knows.          *)
SpinnerStops == \A r \in Request : request[r].pc = "poll" ~> request[r].pc = "told"

(* A clone that is recorded as failed has left nothing at its destination  *)
(* that would block a retry, unless its task panicked.                     *)
FailedLeavesNothing ==
  \A j \in Request : registry[j] = "failed" /\ ~job[j].panicked => disk[job[j].dest].by # j

(* "This can only delete what this clone wrote."                           *)
OnlyItsOwnClone ==
  [][\A d \in Dest : ~IsFree(d) /\ disk'[d] = FreeDest =>
       \E j \in Request : disk[d].by = j /\ job[j].dest = d /\ job[j].pc \in {"clone", "unclone", "cleanup"}
    ]_cloneVars
=============================================================================
