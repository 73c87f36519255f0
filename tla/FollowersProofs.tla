-------------------------- MODULE FollowersProofs ---------------------------
(***************************************************************************)
(* Proofs about what follows a change made elsewhere, for any number of    *)
(* changes, restarts, sessions and requests.                               *)
(*                                                                         *)
(* The remote backend's poller (RemotePoller) takes the steps of a change  *)
(* feed.  A clone that failed (CloneJobs) leaves nothing behind.  A pull   *)
(* (AutoPull) loses commits in one way only, the adoption of renamed       *)
(* branches (BranchNames) keeps sessions apart but for one, and an edited  *)
(* base (BaseEdits) is taken back by old answers only.  The parts of a run *)
(* are joined at the end.  That what is owed is paid in the end is a       *)
(* matter of fairness and stays with TLC.                                  *)
(***************************************************************************)
EXTENDS ReviewProofs, MCFollowers

-----------------------------------------------------------------------------
(* The remote backend's poller.                                            *)

(* What was hashed last is something the server has had: a change always   *)
(* makes it differ.                                                        *)
HashedBefore == poller.hash # Forgotten => poller.hash <= stored

PollerInv == PollerTypeOK /\ HashedBefore

LEMMA PollerInvInit == PollerInit => PollerInv
<1> SUFFICES ASSUME PollerInit PROVE PollerInv
  OBVIOUS
<1>1. PICK push \in BOOLEAN : server = [gen |-> 0, owed |-> 0, restarts |-> 0, push |-> push]
  BY DEF PollerInit
<1>2. server \in [gen : Nat, owed : Nat, restarts : 0..MaxRestarts, push : BOOLEAN]
  BY <1>1, PollerAssumption
<1>3. poller \in [pc : {"wait", "hashes"}, gen : Nat \cup {Forgotten}, new : BOOLEAN,
                  push : BOOLEAN, hash : 0..MaxChanges \cup {Forgotten}, connected : BOOLEAN]
  BY DEF PollerInit
<1>4. stored \in 0..MaxChanges
  <2>1. stored = 0
    BY DEF PollerInit
  <2> QED
    BY <2>1, PollerAssumption
<1>5. moved \in BOOLEAN
  BY DEF PollerInit
<1>6. PollerTypeOK
  BY <1>2, <1>3, <1>4, <1>5 DEF PollerTypeOK
<1>7. HashedBefore
  BY DEF PollerInit, HashedBefore
<1> QED
  BY <1>6, <1>7 DEF PollerInv

LEMMA PollerInvNext == PollerInv /\ [PollerNext]_pollerVars => PollerInv'
<1> USE PollerAssumption DEF PollerInv, PollerTypeOK, HashedBefore
<1> SUFFICES ASSUME PollerInv, [PollerNext]_pollerVars PROVE PollerInv'
  OBVIOUS
<1>1. CASE Store
  BY <1>1 DEF Store
<1>2. CASE Announce
  <2>1. server.owed - 1 \in Nat /\ server.gen + 1 \in Nat
    BY <1>2 DEF Announce
  <2>2. server' = [server EXCEPT !.owed = server.owed - 1, !.gen = server.gen + 1]
    BY <1>2 DEF Announce
  <2> DEFINE due == server.owed - 1
             gen == server.gen + 1
  <2> HIDE DEF due, gen
  <2>3. server' \in [gen : Nat, owed : Nat, restarts : 0..MaxRestarts, push : BOOLEAN]
    BY <2>1, <2>2 DEF due, gen
  <2> QED
    BY <1>2, <2>3 DEF Announce
<1>3. CASE Restart
  <2>1. server.restarts + 1 \in 0..MaxRestarts
    BY <1>3 DEF Restart
  <2>2. server' = [server EXCEPT !.gen = 0, !.owed = 0, !.restarts = server.restarts + 1]
    BY <1>3 DEF Restart
  <2>3. server' \in [gen : Nat, owed : Nat, restarts : 0..MaxRestarts, push : BOOLEAN]
    BY <2>1, <2>2
  <2> QED
    BY <1>3, <2>3 DEF Restart
<1>4. CASE WaitForChange
  BY <1>4 DEF WaitForChange
<1>5. CASE RequestFails
  BY <1>5 DEF RequestFails
<1>6. CASE PollHashes
  <2>1. poller' \in [pc : {"wait", "hashes"}, gen : Nat \cup {Forgotten}, new : BOOLEAN,
                     push : BOOLEAN, hash : 0..MaxChanges \cup {Forgotten}, connected : BOOLEAN]
    BY <1>6 DEF PollHashes
  <2>2. moved' \in BOOLEAN
    BY <1>6, Zenon DEF PollHashes, AnythingMoved, GenerationMoved
  <2>3. poller'.hash = stored
    BY <1>6 DEF PollHashes
  <2> QED
    BY <1>6, <2>1, <2>2, <2>3 DEF PollHashes
<1>7. CASE FrontendLooks
  BY <1>7 DEF FrontendLooks
<1>8. CASE UNCHANGED pollerVars
  BY <1>8 DEF pollerVars
<1> QED
  BY <1>1, <1>2, <1>3, <1>4, <1>5, <1>6, <1>7, <1>8 DEF PollerNext

LEMMA PollerInvariance == PollerSpec => []PollerInv
<1> QED
  BY PollerInvInit, PollerInvNext, PTL DEF PollerSpec

(* The types of RemotePoller's state hold.                                 *)
THEOREM PollerTypeCorrect == PollerSpec => []PollerTypeOK
<1>1. PollerInv => PollerTypeOK
  BY DEF PollerInv
<1> QED
  BY <1>1, PollerInvariance, PTL
-----------------------------------------------------------------------------
(* A frontend that has seen nothing yet is owed a wake.                    *)
LEMMA PollerStartsTheFeed == PollerInit => Promise!FeedInit
  BY PollerAssumption DEF PollerInit, Promise!FeedInit

(* Each step of the server, of the network and of the poller is a change,  *)
(* an advance or a wake of the abstract feed, or none of its business: in  *)
(* particular no poll swallows a change, whatever the generations say.     *)
LEMMA PollerStepsAsTheFeed ==
  PollerInv /\ [PollerNext]_pollerVars => [Promise!FeedNext]_(Promise!feedVars)
<1> USE PollerAssumption DEF PollerInv, PollerTypeOK, HashedBefore
<1> SUFFICES ASSUME PollerInv, [PollerNext]_pollerVars
             PROVE [Promise!FeedNext]_(Promise!feedVars)
  OBVIOUS
<1>1. CASE Store
  <2>1. stored' \in 0..MaxChanges /\ poller.hash # stored'
    BY <1>1 DEF Store
  <2>2. Promise!Change(stored')
    BY <1>1, <2>1 DEF Store, Promise!Change
  <2> QED
    BY <2>1, <2>2 DEF Promise!FeedNext
<1>2. CASE PollHashes /\ AnythingMoved
  <2>1. poller'.hash = stored'
    BY <1>2 DEF PollHashes
  <2>2. Promise!Bump
    BY <1>2, <2>1 DEF PollHashes, Promise!Bump
  <2> QED
    BY <2>2 DEF Promise!FeedNext
<1>3. CASE PollHashes /\ ~AnythingMoved
  <2>1. poller.hash = stored /\ poller'.hash = stored'
    BY <1>3 DEF PollHashes, AnythingMoved
  <2> QED
    BY <1>3, <2>1 DEF PollHashes, Promise!feedVars
<1>4. CASE FrontendLooks
  BY <1>4 DEF FrontendLooks, Promise!FeedNext, Promise!Wake
<1>5. CASE Announce \/ Restart \/ WaitForChange \/ RequestFails \/ UNCHANGED pollerVars
  <2>1. UNCHANGED <<stored, moved>> /\ poller'.hash = poller.hash
    BY <1>5 DEF Announce, Restart, WaitForChange, RequestFails, pollerVars
  <2> QED
    BY <2>1 DEF Promise!feedVars
<1> QED
  BY <1>1, <1>2, <1>3, <1>4, <1>5 DEF PollerNext

(* The poller implements ChangeFeed, but for the feed's fairness: a change *)
(* on the server is never forgotten before the frontend is told, through   *)
(* failed requests and restarts that bring back an old generation.         *)
THEOREM PollerImplementsFeed ==
  PollerSpec => Promise!FeedInit /\ [][Promise!FeedNext]_(Promise!feedVars)
<1> QED
  BY PollerInvariance, PollerStartsTheFeed, PollerStepsAsTheFeed, PTL DEF PollerSpec

-----------------------------------------------------------------------------
(* The clone jobs of the servers.                                          *)

(* A request registers one job at most; its task runs while the registry   *)
(* says so; and once it is to record a failure, or has, what it cloned is  *)
(* gone (a panic cleans nothing up).                                       *)
CleanedUp(j) == job[j].panicked \/ disk[job[j].dest].by # j

JobShape(j) ==
  /\ request[j].pc = "spawn" => request[j].dest \in Dest
  /\ registry[j] # "none" \/ job[j].pc # "none" => request[j].pc \in {"poll", "told"}
  /\ registry[j] # "none" \/ job[j].pc # "none" => job[j].dest \in Dest
  /\ job[j].pc # "none" => registry[j] = "running"
  /\ job[j].pc = "record" /\ job[j].outcome = "failed" => CleanedUp(j)
  /\ registry[j] = "failed" => CleanedUp(j)

CloneInv == CloneTypeOK /\ \A j \in Request : JobShape(j)

Tasks == [pc : {"none", "exists", "git", "clone", "unclone", "register", "cleanup", "record"},
          server : Server \cup {NoJob}, dest : Dest \cup {NoJob},
          existed : BOOLEAN, panicked : BOOLEAN, outcome : Finished \cup {"running"}]

Requests == [pc : {"idle", "spawn", "poll", "told"}, server : Server \cup {NoJob},
             dest : Dest \cup {NoJob}, occupied : BOOLEAN, job : Request \cup {NoJob}]

Directory == [by : Request \cup User \cup {NoJob}, whole : BOOLEAN]

LEMMA CloneInvInit == CloneInit => CloneInv
<1> SUFFICES ASSUME CloneInit PROVE CloneInv
  OBVIOUS
<1>1. CloneTypeOK
  BY DEF CloneInit, CloneTypeOK, FreeDest, NoRequest, NoTask, Finished
<1>2. \A j \in Request : JobShape(j)
  BY DEF CloneInit, JobShape, NoTask, NoRequest
<1> QED  BY <1>1, <1>2 DEF CloneInv

(* A task's step changes its own job, and of the disk what it clones into  *)
(* or removes.                                                             *)
LEMMA TaskKeeps ==
  ASSUME CloneInv, NEW j \in Request, NEW k \in Tasks,
         job[j].pc # "none", job' = [job EXCEPT ![j] = k], k.pc # "none",
         k.dest = job[j].dest, UNCHANGED <<request, registry>>, projects' \subseteq Dest,
         disk' \in [Dest -> Directory],
         \A d \in Dest : disk'[d].by \in {disk[d].by, j, NoJob},
         k.pc = "record" /\ k.outcome = "failed" => k.panicked \/ disk'[k.dest].by # j
  PROVE  CloneInv'
<1>1. /\ job \in [Request -> Tasks] /\ disk \in [Dest -> Directory]
      /\ registry \in [Request -> Finished \cup {"none", "running"}]
      /\ request \in [Request -> Requests]
  BY DEF CloneInv, CloneTypeOK, Tasks, Requests, Directory
<1>2. CloneTypeOK'
  <2>1. job' \in [Request -> Tasks]
    BY <1>1
  <2> QED  BY <1>1, <2>1 DEF CloneTypeOK, Tasks, Requests, Directory
<1>3. JobShape(j)'
  BY <1>1 DEF CloneInv, JobShape, CleanedUp, Finished
<1>4. ASSUME NEW i \in Request, i # j PROVE JobShape(i)'
  <2>1. job'[i] = job[i]
    BY <1>1, <1>4
  <2>2. job[i].dest \in Dest /\ CleanedUp(i) => CleanedUp(i)'
    BY <1>1, <1>4, <2>1, CloneAssumption DEF CleanedUp
  <2> QED  BY <1>4, <2>1, <2>2 DEF CloneInv, JobShape
<1> QED  BY <1>2, <1>3, <1>4 DEF CloneInv

LEMMA TaskFacts ==
  ASSUME CloneInv, NEW j \in Request, job[j].pc # "none"
  PROVE  /\ job[j] \in Tasks /\ job[j].dest \in Dest
         /\ disk \in [Dest -> Directory] /\ projects \subseteq Dest
         /\ FreeDest \in Directory /\ job \in [Request -> Tasks]
  BY DEF CloneInv, JobShape, CloneTypeOK, Tasks, Directory, FreeDest

LEMMA CloneTaskStep ==
  ASSUME CloneInv, NEW j \in Request, TaskStep(j) \/ Panic(j), ~FinishJob(j)
  PROVE  CloneInv'
<1>0. job[j].pc # "none"
  BY DEF TaskStep, Panic, LookForDest, GitStarts, GitEnds, RemoveUnlessExisted, EnsureProject,
         RemovePartialClone, Task
<1>a. /\ job[j] \in Tasks /\ job[j].dest \in Dest
      /\ disk \in [Dest -> Directory] /\ projects \subseteq Dest
      /\ FreeDest \in Directory /\ job \in [Request -> Tasks]
      /\ FreeDest.by = NoJob /\ NoJob # j
  BY <1>0, TaskFacts, CloneAssumption DEF FreeDest
<1> DEFINE d == job[j].dest
<1>1. CASE LookForDest(j)
  <2>1. PICK k \in Tasks : /\ job' = [job EXCEPT ![j] = k] /\ k.pc \in {"git", "cleanup"}
                           /\ k.dest = job[j].dest
    <3> DEFINE fails == [job[j] EXCEPT !.pc = "cleanup", !.outcome = "failed"]
               looked == [job[j] EXCEPT !.pc = "git", !.existed = ~IsFree(job[j].dest)]
    <3>1. fails \in Tasks /\ fails.pc = "cleanup" /\ fails.dest = job[j].dest
      BY <1>a DEF Tasks, Finished
    <3>2. looked \in Tasks /\ looked.pc = "git" /\ looked.dest = job[j].dest
      <4>1. (~IsFree(job[j].dest)) \in BOOLEAN
        BY DEF IsFree
      <4> HIDE DEF IsFree
      <4> QED  BY <1>a, <4>1 DEF Tasks
    <3>3. job' = [job EXCEPT ![j] = fails] \/ job' = [job EXCEPT ![j] = looked]
      BY <1>1, <1>a DEF LookForDest, Fails
    <3> HIDE DEF fails, looked
    <3> QED  BY <3>1, <3>2, <3>3
  <2> QED  BY <1>0, <1>1, <1>a, <2>1, TaskKeeps DEF LookForDest
<1>2. CASE GitStarts(j)
  <2>1. PICK k \in Tasks : /\ job' = [job EXCEPT ![j] = k] /\ k.pc \in {"clone", "unclone"}
                           /\ k.dest = job[j].dest
    <3>1. /\ [job[j] EXCEPT !.pc = "clone"] \in Tasks
          /\ [job[j] EXCEPT !.pc = "unclone", !.outcome = "failed"] \in Tasks
      BY <1>a DEF Tasks, Finished
    <3> QED  BY <1>2, <1>a, <3>1 DEF GitStarts, Fails, TaskTo, Tasks
  <2>2. /\ disk' \in [Dest -> Directory]
        /\ \A e \in Dest : disk'[e].by \in {disk[e].by, j, NoJob}
    <3>1. [by |-> j, whole |-> FALSE] \in Directory
      BY DEF Directory
    <3> QED  BY <1>2, <1>a, <3>1 DEF GitStarts
  <2> QED  BY <1>0, <1>2, <1>a, <2>1, <2>2, TaskKeeps DEF GitStarts
<1>3. CASE GitEnds(j)
  <2>1. PICK k \in Tasks : /\ job' = [job EXCEPT ![j] = k] /\ k.pc \in {"register", "unclone"}
                           /\ k.dest = job[j].dest
    <3>1. /\ [job[j] EXCEPT !.pc = "register"] \in Tasks
          /\ [job[j] EXCEPT !.pc = "unclone", !.outcome = "failed"] \in Tasks
      BY <1>a DEF Tasks, Finished
    <3> QED  BY <1>3, <1>a, <3>1 DEF GitEnds, Fails, TaskTo, Tasks
  <2>2. /\ disk' \in [Dest -> Directory]
        /\ \A e \in Dest : disk'[e].by \in {disk[e].by, j, NoJob}
    <3>1. LET made == [disk[d] EXCEPT !.whole = TRUE]
          IN  made \in Directory /\ made.by = disk[d].by
      BY <1>a DEF Directory
    <3> QED  BY <1>3, <1>a, <3>1 DEF GitEnds
  <2> QED  BY <1>0, <1>3, <1>a, <2>1, <2>2, TaskKeeps DEF GitEnds
<1>4. CASE RemoveUnlessExisted(j)
  <2>1. PICK k \in Tasks : /\ job' = [job EXCEPT ![j] = k] /\ k.pc = "cleanup"
                           /\ k.dest = job[j].dest
    <3>1. LET k == [job[j] EXCEPT !.pc = "cleanup"]
          IN  k \in Tasks /\ k.pc = "cleanup" /\ k.dest = job[j].dest
      BY <1>a DEF Tasks
    <3> QED  BY <1>4, <1>a, <3>1 DEF RemoveUnlessExisted, TaskTo
  <2>2. /\ disk' \in [Dest -> Directory]
        /\ \A e \in Dest : disk'[e].by \in {disk[e].by, j, NoJob}
    BY <1>4, <1>a DEF RemoveUnlessExisted
  <2> QED  BY <1>0, <1>4, <1>a, <2>1, <2>2, TaskKeeps DEF RemoveUnlessExisted
<1>5. CASE EnsureProject(j)
  <2>1. PICK k \in Tasks : /\ job' = [job EXCEPT ![j] = k]
                           /\ k.pc = "cleanup" \/ (k.pc = "record" /\ k.outcome = "succeeded")
                           /\ k.dest = job[j].dest
    <3>1. /\ [job[j] EXCEPT !.pc = "record", !.outcome = "succeeded"] \in Tasks
          /\ [job[j] EXCEPT !.pc = "cleanup", !.outcome = "failed"] \in Tasks
      BY <1>a DEF Tasks, Finished
    <3> QED  BY <1>5, <1>a, <3>1 DEF EnsureProject, Fails, Tasks
  <2> QED  BY <1>0, <1>5, <1>a, <2>1, TaskKeeps DEF EnsureProject
<1>6. CASE RemovePartialClone(j)
  <2>1. PICK k \in Tasks : /\ job' = [job EXCEPT ![j] = k] /\ k.pc = "record"
                           /\ k.dest = job[j].dest
    <3>1. LET k == [job[j] EXCEPT !.pc = "record"]
          IN  k \in Tasks /\ k.pc = "record" /\ k.dest = job[j].dest
      BY <1>a DEF Tasks
    <3> QED  BY <1>6, <1>a, <3>1 DEF RemovePartialClone, TaskTo
  <2>2. /\ disk' \in [Dest -> Directory] /\ disk'[job[j].dest].by # j
        /\ \A e \in Dest : disk'[e].by \in {disk[e].by, j, NoJob}
    BY <1>6, <1>a DEF RemovePartialClone
  <2> QED  BY <1>0, <1>6, <1>a, <2>1, <2>2, TaskKeeps DEF RemovePartialClone
<1>7. CASE Panic(j)
  <2>1. PICK k \in Tasks : /\ job' = [job EXCEPT ![j] = k] /\ k.pc = "record" /\ k.panicked
                           /\ k.dest = job[j].dest
    <3>1. [job[j] EXCEPT !.pc = "record", !.outcome = "failed", !.panicked = TRUE] \in Tasks
      BY <1>a DEF Tasks, Finished
    <3> QED  BY <1>7, <1>a, <3>1 DEF Panic, Tasks
  <2> QED  BY <1>0, <1>7, <1>a, <2>1, TaskKeeps DEF Panic
<1> QED  BY <1>1, <1>2, <1>3, <1>4, <1>5, <1>6, <1>7 DEF TaskStep

(* The outcome is recorded as the task left it.                            *)
LEMMA CloneFinishes == ASSUME CloneInv, NEW j \in Request, FinishJob(j) PROVE CloneInv'
<1>0. job[j].pc = "record"
  BY DEF FinishJob, Task
<1>a. /\ job \in [Request -> Tasks] /\ job[j].dest \in Dest
      /\ registry \in [Request -> Finished \cup {"none", "running"}]
      /\ request \in [Request -> Requests]
  BY <1>0, TaskFacts DEF CloneInv, CloneTypeOK, Requests
<1>1. job[j].outcome # "running" => job[j].outcome \in Finished
  BY <1>a DEF Tasks
<1>2. /\ job' \in [Request -> Tasks]
      /\ job'[j].pc = "none" /\ job'[j].dest = job[j].dest /\ job'[j].panicked = job[j].panicked
      /\ \A i \in Request \ {j} : job'[i] = job[i]
  BY <1>a DEF FinishJob, TaskTo, Tasks
<1>3. /\ registry' \in [Request -> Finished \cup {"none", "running"}]
      /\ registry'[j] = job[j].outcome
      /\ \A i \in Request \ {j} : registry'[i] = registry[i]
  BY <1>a DEF FinishJob, Tasks
<1>4. CloneTypeOK'
  BY <1>2, <1>3 DEF CloneInv, CloneTypeOK, FinishJob, Tasks
<1>5. JobShape(j)'
  BY <1>0, <1>2, <1>3 DEF CloneInv, JobShape, CleanedUp, FinishJob
<1>6. ASSUME NEW i \in Request, i # j PROVE JobShape(i)'
  BY <1>2, <1>3, <1>6 DEF CloneInv, JobShape, CleanedUp, FinishJob
<1> QED  BY <1>4, <1>5, <1>6 DEF CloneInv

LEMMA CloneStarts ==
  ASSUME CloneInv, NEW r \in Request, NEW v \in Server, NEW d \in Dest, StartClone(r, v, d)
  PROVE  CloneInv'
<1> DEFINE q == [NoRequest EXCEPT !.pc = "spawn", !.server = v, !.dest = d, !.occupied = disk[d] # FreeDest]
<1>1. q \in Requests /\ q.pc = "spawn" /\ q.dest = d
  <2>1. (disk[d] # FreeDest) \in BOOLEAN
    OBVIOUS
  <2> QED  BY <2>1 DEF NoRequest, Requests
<1>2. /\ request \in [Request -> Requests] /\ request[r].pc = "idle"
      /\ request' = [request EXCEPT ![r] = q]
      /\ UNCHANGED <<disk, projects, job, registry>>
  BY DEF CloneInv, CloneTypeOK, StartClone, IsFree, Requests
<1> HIDE DEF q
<1>3. CloneTypeOK'
  BY <1>1, <1>2 DEF CloneInv, CloneTypeOK, Requests
<1>4. ASSUME NEW j \in Request PROVE JobShape(j)'
  BY <1>1, <1>2 DEF CloneInv, JobShape, CleanedUp
<1> QED  BY <1>3, <1>4 DEF CloneInv

LEMMA CloneSpawns == ASSUME CloneInv, NEW r \in Request, Spawn(r) PROVE CloneInv'
<1> DEFINE q == request[r]
           live == LiveJobsAt(q.server, q.dest)
<1>a. /\ job \in [Request -> Tasks] /\ request \in [Request -> Requests]
      /\ registry \in [Request -> Finished \cup {"none", "running"}]
      /\ q.pc = "spawn" /\ q.dest \in Dest /\ registry[r] = "none" /\ job[r].pc = "none"
      /\ UNCHANGED <<disk, projects>>
  BY DEF CloneInv, CloneTypeOK, JobShape, Spawn, Tasks, Requests
<1>1. PICK stale \in SUBSET {j \in Request : registry[j] \in Finished /\ job[j].server = q.server} :
        LET swept == [j \in Request |-> IF j \in stale THEN "none" ELSE registry[j]]
        IN \/ /\ registry' = swept /\ UNCHANGED job
              /\ \E j \in live : request' = [request EXCEPT ![r] = [q EXCEPT !.pc = "poll", !.job = j]]
           \/ /\ registry' = [swept EXCEPT ![r] = "running"]
              /\ \E pc \in {"record", "exists"}, outcome \in {"occupied", "running"} :
                   job' = [job EXCEPT ![r] =
                             [NoTask EXCEPT !.server = q.server, !.dest = q.dest,
                                            !.pc = pc, !.outcome = outcome]]
              /\ request' = [request EXCEPT ![r] = [q EXCEPT !.pc = "poll", !.job = r]]
  BY DEF Spawn
<1>2. /\ request' \in [Request -> Requests]
      /\ request'[r].pc = "poll" /\ \A j \in Request \ {r} : request'[j] = request[j]
  <2>1. ASSUME NEW j \in Request
        PROVE  LET p == [q EXCEPT !.pc = "poll", !.job = j] IN p \in Requests /\ p.pc = "poll"
    BY <1>a DEF Requests
  <2>2. PICK j \in Request : request' = [request EXCEPT ![r] = [q EXCEPT !.pc = "poll", !.job = j]]
    BY <1>1 DEF LiveJobsAt
  <2> HIDE DEF q
  <2> QED  BY <1>a, <2>1, <2>2
<1>3. /\ registry' \in [Request -> Finished \cup {"none", "running"}]
      /\ \A j \in Request \ {r} : \/ registry'[j] = registry[j]
                                  \/ registry'[j] = "none" /\ registry[j] \in Finished
  BY <1>1, <1>a
<1>4. /\ job' \in [Request -> Tasks]
      /\ \A j \in Request \ {r} : job'[j] = job[j]
      /\ \/ job'[r].pc = "none" /\ registry'[r] = "none"
         \/ /\ job'[r].dest \in Dest /\ registry'[r] = "running"
            /\ job'[r].outcome # "failed"
  <2>1. ASSUME NEW pc \in {"record", "exists"}, NEW outcome \in {"occupied", "running"}
        PROVE  LET k == [NoTask EXCEPT !.server = q.server, !.dest = q.dest,
                                       !.pc = pc, !.outcome = outcome]
               IN  k \in Tasks /\ k.dest = q.dest /\ k.outcome = outcome
    BY <1>a DEF Tasks, NoTask, Finished, Requests
  <2>2. CASE registry'[r] = "none"
    <3>1. UNCHANGED job
      BY <1>1, <1>a, <2>2
    <3> QED  BY <1>a, <2>2, <3>1
  <2>3. CASE registry'[r] # "none"
    <3>1. /\ registry'[r] = "running"
          /\ \E pc \in {"record", "exists"}, outcome \in {"occupied", "running"} :
                   job' = [job EXCEPT ![r] =
                             [NoTask EXCEPT !.server = q.server, !.dest = q.dest,
                                            !.pc = pc, !.outcome = outcome]]
      BY <1>1, <1>a, <2>3
    <3>2. PICK pc \in {"record", "exists"}, outcome \in {"occupied", "running"} :
                   job' = [job EXCEPT ![r] =
                             [NoTask EXCEPT !.server = q.server, !.dest = q.dest,
                                            !.pc = pc, !.outcome = outcome]]
      BY <3>1
    <3> QED  BY <1>a, <2>1, <3>1, <3>2
  <2> QED  BY <2>2, <2>3
<1>5. CloneTypeOK'
  BY <1>2, <1>3, <1>4, <1>a DEF CloneInv, CloneTypeOK, Tasks, Requests
<1>6. JobShape(r)'
  BY <1>2, <1>4 DEF JobShape
<1>7. ASSUME NEW j \in Request, j # r PROVE JobShape(j)'
  BY <1>2, <1>3, <1>4, <1>7, <1>a DEF CloneInv, JobShape, CleanedUp, Finished
<1> QED  BY <1>5, <1>6, <1>7 DEF CloneInv

LEMMA CloneStep == CloneInv /\ [CloneNext]_cloneVars => CloneInv'
<1> SUFFICES ASSUME CloneInv, [CloneNext]_cloneVars PROVE CloneInv'
  OBVIOUS
<1>1. ASSUME NEW r \in Request, Poll(r) PROVE CloneInv'
  <2> DEFINE q == [request[r] EXCEPT !.pc = "told"]
  <2>1. /\ request \in [Request -> Requests] /\ request' = [request EXCEPT ![r] = q]
        /\ UNCHANGED <<disk, projects, job, registry>>
    BY <1>1 DEF CloneInv, CloneTypeOK, Requests, Poll
  <2>2. q \in Requests /\ q.pc = "told"
    BY <2>1 DEF Requests
  <2> HIDE DEF q
  <2>3. CloneTypeOK'
    BY <2>1, <2>2 DEF CloneInv, CloneTypeOK, Requests
  <2> QED  BY <2>1, <2>2, <2>3 DEF CloneInv, JobShape, CleanedUp
<1>2. ASSUME NEW v \in Server, ServerEnds(v) PROVE CloneInv'
  <2>1. /\ request \in [Request -> Requests] /\ job \in [Request -> Tasks] /\ NoTask \in Tasks
        /\ NoTask.pc = "none" /\ UNCHANGED <<disk, projects>>
        /\ registry \in [Request -> Finished \cup {"none", "running"}]
    BY <1>2 DEF CloneInv, CloneTypeOK, Requests, Tasks, NoTask, ServerEnds
  <2>2. \A j \in Request : \/ job'[j] = job[j] /\ registry'[j] = registry[j]
                           \/ job'[j] = NoTask /\ registry'[j] = "none"
    BY <1>2 DEF ServerEnds
  <2>3. \A r \in Request : \/ request'[r] = request[r]
                           \/ /\ request[r].pc = "spawn"
                              /\ request'[r] = [request[r] EXCEPT !.pc = "told"]
    BY <1>2 DEF ServerEnds
  <2>4. \A r \in Request : [request[r] EXCEPT !.pc = "told"] \in Requests
                           /\ [request[r] EXCEPT !.pc = "told"].pc = "told"
    BY <2>1 DEF Requests
  <2>5. job' \in [Request -> Tasks] /\ request' \in [Request -> Requests]
        /\ registry' \in [Request -> Finished \cup {"none", "running"}]
    BY <1>2, <2>1, <2>4 DEF ServerEnds
  <2>6. CloneTypeOK'
    BY <2>1, <2>5 DEF CloneInv, CloneTypeOK, Tasks, Requests
  <2>7. ASSUME NEW j \in Request PROVE JobShape(j)'
    <3>1. CASE job'[j] = job[j] /\ registry'[j] = registry[j]
      <4>1. request'[j].pc = "told" \/ request'[j] = request[j]
        BY <2>3, <2>4
      <4>2. CleanedUp(j)' <=> CleanedUp(j)
        BY <2>1, <3>1 DEF CleanedUp
      <4> QED  BY <3>1, <4>1, <4>2 DEF CloneInv, JobShape
    <3>2. CASE job'[j] = NoTask /\ registry'[j] = "none"
      BY <2>1, <2>3, <2>4, <3>2 DEF CloneInv, JobShape
    <3> QED  BY <2>2, <3>1, <3>2
  <2> QED  BY <2>6, <2>7 DEF CloneInv
<1>3. ASSUME NEW d \in Dest, MakeByHand(d) PROVE CloneInv'
  <2>1. PICK u \in User, whole \in BOOLEAN : disk' = [disk EXCEPT ![d] = [by |-> u, whole |-> whole]]
    BY <1>3 DEF MakeByHand
  <2>2. disk \in [Dest -> Directory] /\ [by |-> u, whole |-> whole] \in Directory
    BY DEF CloneInv, CloneTypeOK, Directory
  <2>3. disk' \in [Dest -> Directory] /\ UNCHANGED <<projects, request, job, registry>>
    BY <1>3, <2>1, <2>2 DEF MakeByHand
  <2>4. CloneTypeOK'
    BY <2>3 DEF CloneInv, CloneTypeOK, Directory
  <2>5. ASSUME NEW j \in Request PROVE JobShape(j)'
    <3>1. job[j].dest \in Dest /\ CleanedUp(j) => CleanedUp(j)'
      BY <2>1, <2>2, <2>3, CloneAssumption DEF CleanedUp
    <3> QED  BY <2>3, <3>1 DEF CloneInv, JobShape
  <2> QED  BY <2>4, <2>5 DEF CloneInv
<1>4. CASE UNCHANGED cloneVars
  BY <1>4 DEF cloneVars, CloneInv, CloneTypeOK, JobShape, CleanedUp
<1> QED
  BY <1>1, <1>2, <1>3, <1>4, CloneStarts, CloneSpawns, CloneTaskStep, CloneFinishes DEF CloneNext

LEMMA CloneInvariance == CloneSpec => []CloneInv
  BY CloneInvInit, CloneStep, PTL DEF CloneSpec

(* The types of CloneJobs's state hold.                                    *)
THEOREM CloneTypeCorrect == CloneSpec => []CloneTypeOK
<1>1. CloneInv => CloneTypeOK
  BY DEF CloneInv
<1> QED  BY <1>1, CloneInvariance, PTL

(* Whatever fails, the CLI, git, its timeout or the registration: when     *)
(* CloneJobs::finish has recorded the failure, the directory the clone     *)
(* made is gone and a retry is not refused for it; for any number of       *)
(* servers and of requests to one destination.                             *)
THEOREM FailuresLeaveNothing == CloneSpec => []FailedLeavesNothing
<1>1. CloneInv => FailedLeavesNothing
  BY DEF CloneInv, JobShape, CleanedUp, FailedLeavesNothing
<1> QED  BY <1>1, CloneInvariance, PTL
-----------------------------------------------------------------------------
(* Pulling main.                                                           *)

(* A pull that gets as far as looking at HEAD has read a local main that   *)
(* had nothing of its own and was behind what it read of origin's.         *)
PullKnows(p) == PullAt(p, "head") \/ PullAt(p, "probe") \/ PullAt(p, "act") =>
                  ~pull[p].local.own /\ pull[p].local.up < pull[p].origin

PullInv == PullTypeOK /\ \A p \in Process : PullKnows(p)

(* A pull moves main forward and drops no commit, whatever others do in    *)
(* the meantime, but for one way: git update-ref sets the branch without   *)
(* the value it had been read at, when that is no longer its value.        *)
PullLosesOnlyRaced ==
  \A p \in Process : pull'[p] # pull[p] /\ main' # main =>
    \/ ~main.own /\ main.up < main'.up
    \/ PullAt(p, "act") /\ pull[p].action = "ref" /\ pull[p].local # main

Pulls(n) == [pc : {"fetch", "local", "origin", "relation", "head", "probe", "act", "report"},
             local : [up : 0..n, own : BOOLEAN], origin : 0..n,
             here : BOOLEAN, action : {"none", "ref", "merge"},
             outcome : Outcomes \cup {"none"}]

(* What a process may come to know in a step.                              *)
PullIsWell(k, n) ==
  /\ k \in Pulls(n)
  /\ k.pc = "act" => k.action # "none"
  /\ k.pc \in {"head", "probe", "act"} => ~k.local.own /\ k.local.up < k.origin

LEMMA PullIsTyped ==
  ASSUME PullInv, NEW p \in Process
  PROVE  PullIsWell(pull[p], fetched)
BY DEF PullInv, PullTypeOK, PullKnows, PullIsWell, Pulls, PullAt

(* A step of one process, while nothing is fetched.                        *)
LEMMA PullMoves ==
  ASSUME PullInv, NEW p \in Process, NEW k, PullIsWell(k, fetched'), PullIs(p, k),
         fetched' \in 0..remote, fetched <= fetched', main' \in [up : 0..fetched', own : BOOLEAN],
         pullTrouble' \in 0..MaxPullTrouble, UNCHANGED <<remote, checkout, dirty, badge>>
  PROVE  PullInv'
<1> USE PullAssumption
<1>1. fetched \in Nat /\ fetched' \in Nat /\ 0..fetched \subseteq 0..fetched'
  BY DEF PullInv, PullTypeOK
<1>2. ASSUME NEW q \in Process PROVE PullIsWell(pull'[q], fetched')
  <2>1. PullIsWell(pull[q], fetched)
    BY PullIsTyped
  <2>2. PullIsWell(pull[q], fetched')
    BY <1>1, <2>1 DEF PullIsWell, Pulls
  <2>3. pull'[q] = k \/ pull'[q] = pull[q]
    BY DEF PullIs, PullInv, PullTypeOK
  <2> QED  BY <2>2, <2>3
<1>3. pull' \in [Process -> Pulls(fetched')]
  <2>1. pull' = [q \in Process |-> pull'[q]]
    BY DEF PullIs, PullInv, PullTypeOK
  <2> QED  BY <1>2, <2>1 DEF PullIsWell
<1>4. PullTypeOK'
  BY <1>2, <1>3 DEF PullInv, PullTypeOK, Pulls, PullIsWell, PullAt
<1>5. ASSUME NEW q \in Process PROVE PullKnows(q)'
  BY <1>2 DEF PullIsWell, PullKnows, PullAt
<1> QED  BY <1>4, <1>5 DEF PullInv

LEMMA EndsWell ==
  ASSUME NEW o \in Outcomes, NEW n \in Nat
  PROVE  PullIsWell([NoPull EXCEPT !.pc = "report", !.outcome = o], n)
<1>1. Upstream(0) \in [up : 0..n, own : BOOLEAN] /\ 0 \in 0..n
  BY DEF Upstream
<1> QED  BY <1>1 DEF PullIsWell, Pulls, NoPull

LEMMA PullStarts == ASSUME NEW n \in Nat PROVE PullIsWell(NoPull, n)
BY DEF PullIsWell, Pulls, NoPull, Upstream

LEMMA DecideWell ==
  ASSUME PullInv, NEW p \in Process, NEW blocked \in BOOLEAN, PullAt(p, "probe"), Decide(p, blocked)
  PROVE  \E k : PullIsWell(k, fetched) /\ PullIs(p, k)
<1>1. PullIsWell(pull[p], fetched) /\ fetched \in Nat
  BY PullIsTyped, PullAssumption DEF PullInv, PullTypeOK
<1>2. \A o \in Outcomes : PullIsWell([NoPull EXCEPT !.pc = "report", !.outcome = o], fetched)
  BY <1>1, EndsWell
<1>3. \A a \in {"merge", "ref"} : PullIsWell([pull[p] EXCEPT !.pc = "act", !.action = a], fetched)
  BY <1>1 DEF PullIsWell, Pulls, PullAt
<1> QED  BY <1>2, <1>3 DEF Decide, Ends, Outcomes

LEMMA PullInvInit == PullInit => PullInv
<1> SUFFICES ASSUME PullInit PROVE PullInv
  OBVIOUS
<1>1. fetched = 0 /\ remote = 0 /\ pullTrouble = 0 /\ main = Upstream(0)
  BY DEF PullInit
<1>2. \A p \in Process : pull[p] = NoPull
  BY DEF PullInit
<1>3. NoPull \in Pulls(0) /\ NoPull.pc = "fetch"
  BY PullStarts DEF PullIsWell, NoPull
<1>4. PullTypeOK
  <2>1. pull \in [Process -> Pulls(fetched)]
    BY <1>1, <1>3 DEF PullInit
  <2>2. badge \in [Process -> Outcomes \cup {"none"}]
    BY DEF PullInit
  <2> QED
    BY <1>1, <1>2, <1>3, <2>1, <2>2, PullAssumption
       DEF PullTypeOK, PullInit, Upstream, PullAt, Pulls
<1> QED  BY <1>2, <1>3, <1>4 DEF PullInv, PullKnows, PullAt

LEMMA PullInvNext == PullInv /\ [PullNext]_pullVars => PullInv'
<1> SUFFICES ASSUME PullInv, [PullNext]_pullVars PROVE PullInv'
  OBVIOUS
<1>0. /\ fetched \in Nat /\ remote \in Nat /\ fetched \in 0..remote /\ remote \in 0..MaxRemote
      /\ main \in [up : 0..fetched, own : BOOLEAN] /\ pullTrouble \in 0..MaxPullTrouble
      /\ dirty \in BOOLEAN
  BY PullAssumption DEF PullInv, PullTypeOK
<1>a. \A o \in Outcomes : PullIsWell([NoPull EXCEPT !.pc = "report", !.outcome = o], fetched)
  BY <1>0, EndsWell
<1>b. \A p \in Process : PullIsWell(pull[p], fetched)
  BY PullIsTyped
<1>1. ASSUME NEW p \in Process, Fetch(p) PROVE PullInv'
  <2>1. PullIsWell([pull[p] EXCEPT !.pc = "local"], remote)
    BY <1>0, <1>b DEF PullIsWell, Pulls
  <2>2. /\ fetched' = remote /\ PullIs(p, [pull[p] EXCEPT !.pc = "local"])
        /\ UNCHANGED <<main, remote, checkout, dirty, pullTrouble, badge>>
    BY <1>1 DEF Fetch
  <2> QED  BY <1>0, <2>1, <2>2, PullMoves
<1>2. ASSUME NEW p \in Process, ReadLocal(p) PROVE PullInv'
  <2>1. PullIsWell([pull[p] EXCEPT !.pc = "origin", !.local = main], fetched)
    BY <1>0, <1>b DEF PullIsWell, Pulls
  <2> QED  BY <1>0, <1>2, <2>1, PullMoves DEF ReadLocal, repo
<1>3. ASSUME NEW p \in Process, ReadOrigin(p) PROVE PullInv'
  <2>1. PullIsWell([pull[p] EXCEPT !.pc = "relation", !.origin = fetched], fetched)
    <3>1. fetched \in 0..fetched
      BY <1>0
    <3> QED  BY <1>b, <3>1 DEF PullIsWell, Pulls
  <2> QED  BY <1>0, <1>3, <2>1, PullMoves DEF ReadOrigin, repo
<1>4. ASSUME NEW p \in Process, Classify(p) PROVE PullInv'
  <2>1. ~pull[p].local.own /\ pull[p].local.up < pull[p].origin
          => PullIsWell([pull[p] EXCEPT !.pc = "head"], fetched)
    BY <1>0, <1>b DEF PullIsWell, Pulls
  <2>2. \/ PullIs(p, [pull[p] EXCEPT !.pc = "head"])
           /\ ~pull[p].local.own /\ pull[p].local.up < pull[p].origin
        \/ \E o \in Outcomes : Ends(p, o)
    BY <1>4 DEF Classify, Outcomes
  <2>3. \E k : PullIsWell(k, fetched) /\ PullIs(p, k)
    BY <1>a, <2>1, <2>2 DEF Ends
  <2> QED  BY <1>0, <1>4, <2>3, PullMoves DEF Classify, repo
<1>5. ASSUME NEW p \in Process, HeadIsBranch(p) PROVE PullInv'
  <2>1. PullIsWell([pull[p] EXCEPT !.pc = "probe", !.here = (checkout = "here")], fetched)
    BY <1>5, <1>b DEF PullIsWell, Pulls, HeadIsBranch, PullAt
  <2> QED  BY <1>0, <1>5, <2>1, PullMoves DEF HeadIsBranch, repo
<1>6. ASSUME NEW p \in Process, Probe(p) PROVE PullInv'
  <2> DEFINE blocked == IF pull[p].here THEN dirty ELSE checkout # "nowhere"
  <2>1. blocked \in BOOLEAN
    BY <1>0
  <2>2. PullAt(p, "probe") /\ Decide(p, blocked) /\ UNCHANGED <<repo, pullTrouble, badge>>
    BY <1>6 DEF Probe
  <2> HIDE DEF blocked
  <2>3. \E k : PullIsWell(k, fetched) /\ PullIs(p, k)
    BY <2>1, <2>2, DecideWell
  <2> QED  BY <1>0, <2>2, <2>3, PullMoves DEF repo
<1>7. ASSUME NEW p \in Process, UpdateRef(p) PROVE PullInv'
  <2>1. main' \in [up : 0..fetched, own : BOOLEAN]
    BY <1>7, <1>b DEF UpdateRef, Upstream, PullIsWell, Pulls
  <2>2. \E k : PullIsWell(k, fetched) /\ PullIs(p, k)
    BY <1>7, <1>a DEF UpdateRef, Ends, Outcomes
  <2> QED  BY <1>0, <1>7, <2>1, <2>2, PullMoves DEF UpdateRef
<1>8. ASSUME NEW p \in Process, MergeFfOnly(p) PROVE PullInv'
  <2>1. main' \in [up : 0..fetched, own : BOOLEAN]
    <3>1. Upstream(fetched) \in [up : 0..fetched, own : BOOLEAN]
      BY <1>0 DEF Upstream
    <3>2. main' = main \/ main' = Upstream(fetched)
      BY <1>8 DEF MergeFfOnly
    <3> QED  BY <1>0, <3>1, <3>2
  <2>2. \E o \in Outcomes : Ends(p, o)
    BY <1>8 DEF MergeFfOnly, Outcomes
  <2>3. \E k : PullIsWell(k, fetched) /\ PullIs(p, k)
    BY <1>a, <2>2 DEF Ends
  <2> QED  BY <1>0, <1>8, <2>1, <2>3, PullMoves DEF MergeFfOnly
<1>9. ASSUME NEW p \in Process, Report(p) PROVE PullInv'
  <2>1. PullIsWell(NoPull, fetched) /\ pull[p].outcome \in Outcomes \cup {"none"}
    BY <1>0, <1>b, PullStarts DEF PullIsWell, Pulls
  <2>2. badge' \in [Process -> Outcomes \cup {"none"}]
    BY <1>9, <2>1 DEF Report, PullInv, PullTypeOK
  <2>3. pull' = [pull EXCEPT ![p] = NoPull] /\ UNCHANGED <<repo, pullTrouble>>
    BY <1>9 DEF Report, PullIs
  <2>4. \A q \in Process : PullIsWell(pull'[q], fetched)
    BY <1>b, <2>1, <2>3 DEF PullInv, PullTypeOK
  <2>5. pull' \in [Process -> Pulls(fetched)]
    BY <2>1, <2>3 DEF PullInv, PullTypeOK, PullIsWell, Pulls
  <2> QED
    BY <2>2, <2>3, <2>4, <2>5
       DEF PullInv, PullTypeOK, PullKnows, PullAt, PullIsWell, Pulls, repo
<1>10. ASSUME NEW p \in Process, GitFails(p) PROVE PullInv'
  <2>1. pullTrouble' \in 0..MaxPullTrouble
    BY <1>0, <1>10, PullAssumption DEF GitFails, PullTroubled
  <2>2. CASE PullAt(p, "probe") /\ Decide(p, TRUE)
    <3>1. \E k : PullIsWell(k, fetched) /\ PullIs(p, k)
      BY <2>2, DecideWell
    <3> QED  BY <1>0, <1>10, <2>1, <3>1, PullMoves DEF GitFails, repo
  <2>3. CASE Ends(p, "softfail") \/ Ends(p, "diverged")
    <3>1. \E k : PullIsWell(k, fetched) /\ PullIs(p, k)
      BY <1>a, <2>3 DEF Ends, Outcomes
    <3> QED  BY <1>0, <1>10, <2>1, <3>1, PullMoves DEF GitFails, repo
  <2>4. CASE PullAt(p, "head") /\ PullIs(p, [pull[p] EXCEPT !.pc = "probe", !.here = FALSE])
    <3>1. PullIsWell([pull[p] EXCEPT !.pc = "probe", !.here = FALSE], fetched)
      BY <1>b, <2>4 DEF PullIsWell, Pulls, PullAt
    <3> QED  BY <1>0, <1>10, <2>1, <2>4, <3>1, PullMoves DEF GitFails, repo
  <2> QED  BY <1>10, <2>2, <2>3, <2>4 DEF GitFails
<1>11. CASE RemoteMoves
  BY <1>0, <1>11, PullAssumption DEF RemoteMoves, PullInv, PullTypeOK, PullKnows, PullAt
<1>12. CASE UserWorks
  <2>1. /\ remote' \in 0..MaxRemote /\ fetched' \in 0..remote' /\ fetched <= fetched'
        /\ main' \in [up : 0..fetched', own : BOOLEAN]
    <3>1. CASE UNCHANGED <<main, remote, fetched>>
      BY <1>0, <3>1
    <3>2. CASE main' = [main EXCEPT !.own = ~main.own] /\ UNCHANGED <<remote, fetched>>
      <4> DEFINE dropped == ~main.own
      <4>1. dropped \in BOOLEAN /\ main' = [main EXCEPT !.own = dropped]
        BY <3>2
      <4> HIDE DEF dropped
      <4> QED  BY <1>0, <3>2, <4>1
    <3>3. CASE /\ main' = Upstream(remote + 1) /\ remote < MaxRemote
               /\ remote' = remote + 1 /\ fetched' = remote'
      <4>1. remote + 1 \in 0..MaxRemote /\ remote + 1 \in 0..(remote + 1) /\ fetched <= remote + 1
        BY <1>0, <3>3, PullAssumption
      <4>2. Upstream(remote + 1) \in [up : 0..(remote + 1), own : BOOLEAN]
        BY <4>1 DEF Upstream
      <4> QED  BY <3>3, <4>1, <4>2
    <3> QED  BY <1>12, <3>1, <3>2, <3>3 DEF UserWorks
  <2>2. /\ pullTrouble' \in 0..MaxPullTrouble /\ UNCHANGED <<pull, badge>>
        /\ checkout' \in {"here", "elsewhere", "nowhere"} /\ dirty' \in BOOLEAN
    <3>1. pullTrouble' \in 0..MaxPullTrouble
      BY <1>0, <1>12, PullAssumption DEF UserWorks, PullTroubled
    <3>2. checkout' \in {"here", "elsewhere", "nowhere"} /\ dirty' \in BOOLEAN
      BY <1>12 DEF UserWorks, PullInv, PullTypeOK
    <3> QED  BY <1>12, <3>1, <3>2 DEF UserWorks
  <2>3. 0..fetched \subseteq 0..fetched'
    BY <1>0, <2>1
  <2>4. pull' \in [Process -> Pulls(fetched')]
    BY <2>2, <2>3 DEF PullInv, PullTypeOK, Pulls
  <2> QED
    BY <2>1, <2>2, <2>4 DEF PullInv, PullTypeOK, PullKnows, PullAt, Pulls
<1>13. CASE UNCHANGED pullVars
  BY <1>13 DEF pullVars, repo, PullInv, PullTypeOK, PullKnows, PullAt
<1> QED
  BY <1>1, <1>2, <1>3, <1>4, <1>5, <1>6, <1>7, <1>8, <1>9, <1>10, <1>11, <1>12, <1>13
     DEF PullNext, PullStep

LEMMA PullInvariance == PullSpec => []PullInv
BY PullInvInit, PullInvNext, PTL DEF PullSpec

(* AutoPull's variables keep their types, and main never gets ahead of     *)
(* what was fetched of origin's.                                           *)
THEOREM PullTypeCorrect == PullSpec => []PullTypeOK
<1>1. PullInv => PullTypeOK
  BY DEF PullInv
<1> QED  BY <1>1, PullInvariance, PTL

(* Of the ways a pull moves main, only the unguarded update-ref can put it *)
(* back or drop a commit of the user's, and only after another process has *)
(* changed main since it was read.                                         *)
THEOREM PullsLoseOnlyRaced == PullSpec => [][PullLosesOnlyRaced]_pullVars
<1>1. PullInv /\ [PullNext]_pullVars => [PullLosesOnlyRaced]_pullVars
  <2> SUFFICES ASSUME PullInv, PullNext, NEW p \in Process, pull'[p] # pull[p], main' # main
               PROVE  \/ ~main.own /\ main.up < main'.up
                      \/ PullAt(p, "act") /\ pull[p].action = "ref" /\ pull[p].local # main
    BY DEF PullLosesOnlyRaced
  <2>0. /\ main \in [up : Nat, own : BOOLEAN] /\ fetched \in Nat
        /\ PullIsWell(pull[p], fetched)
    BY PullIsTyped, PullAssumption DEF PullInv, PullTypeOK
  <2>1. ASSUME NEW q \in Process, PullStep(q) PROVE UpdateRef(q) \/ MergeFfOnly(q)
    BY <2>1 DEF PullStep, Fetch, ReadLocal, ReadOrigin, Classify, HeadIsBranch, Probe, Report, repo
  <2>2. PICK q \in Process : UpdateRef(q) \/ MergeFfOnly(q)
    BY <2>1 DEF PullNext, GitFails, RemoteMoves, UserWorks, repo
  <2>3. q = p
    BY <2>2 DEF UpdateRef, MergeFfOnly, Ends, PullIs, PullInv, PullTypeOK
  <2>4. CASE MergeFfOnly(p)
    <3>1. ~main.own /\ main.up <= fetched /\ main' = Upstream(fetched)
      BY <2>4 DEF MergeFfOnly, Mergeable
    <3>2. main # Upstream(fetched) => main.up # fetched
      BY <2>0, <3>1 DEF Upstream
    <3> QED  BY <2>0, <3>1, <3>2 DEF Upstream
  <2>5. CASE UpdateRef(p)
    BY <2>0, <2>5 DEF UpdateRef, PullIsWell, Pulls, PullAt, Upstream
  <2> QED  BY <2>2, <2>3, <2>4, <2>5
<1> QED  BY <1>1, PullInvariance, PTL DEF PullSpec
-----------------------------------------------------------------------------
(* The names of branches that are renamed in the worktrees.                *)

Distinct(f) == \A t, u \in Tree : f[t] = f[u] => t = u

(* git has no branch checked out twice, nor one that is not there.         *)
CheckedOut == Distinct(head) /\ \A t \in Tree : head[t] \in local \cup {"HEAD"}

OwnBranches == \A t \in Tree : named[t] # Trunk

(* After its list a pass has in hand only sessions that may be renamed, as *)
(* far as its one read of the records and its list of the worktrees tell.  *)
Apt(k, t) == /\ k.live[t] \notin {k.seen[t], "HEAD", Trunk}
             /\ \A u \in Tree \ {t} : k.seen[u] # k.live[t]

PassKnows(k) ==
  IF k.pc \in {"read", "list"} THEN k.adopt = {}
  ELSE /\ Distinct(k.live)
       /\ \A t \in k.todo \cup k.adopt : Apt(k, t)
       /\ k.pc \in Tree => k.pc \in k.todo

NamesInv == /\ NamesTypeOK /\ CheckedOut /\ OwnBranches
            /\ \A p \in Poller : PassKnows(pass[p])

(* Two sessions come to have one branch only by a pass that writes over    *)
(* records which have been changed since it read them.                     *)
NamesStayApart ==
  Distinct(named) => \/ Distinct(named')
                     \/ \E p \in Poller : /\ AtStep(p, "refs") /\ pass'[p] # pass[p]
                                          /\ pass[p].seen # named

Passes == [pc : {"read", "list", "refs"} \cup Tree, seen : Heads, live : Heads,
           todo : SUBSET Tree, adopt : SUBSET Tree]

(* A step of one pass that leaves the records and the refs alone.          *)
LEMMA PassMoves ==
  ASSUME NamesInv, NEW p \in Poller, NEW k \in Passes, PassKnows(k), PassIs(p, k),
         gitOps' \in 0..MaxGit, UNCHANGED <<named, gitRefs>>
  PROVE  NamesInv'
<1>1. pass' \in [Poller -> Passes] /\ \A q \in Poller : pass'[q] = k \/ pass'[q] = pass[q]
  BY DEF PassIs, NamesInv, NamesTypeOK, Passes
<1>2. \A q \in Poller : PassKnows(pass'[q])
  BY <1>1 DEF NamesInv
<1>3. NamesTypeOK'
  BY <1>1 DEF NamesInv, NamesTypeOK, Passes, gitRefs, Heads
<1>4. CheckedOut' /\ OwnBranches'
  BY DEF NamesInv, CheckedOut, OwnBranches, Distinct, gitRefs
<1> QED  BY <1>2, <1>3, <1>4 DEF NamesInv, PassKnows, Distinct

LEMMA NoPassKnows == NoPass \in Passes /\ PassKnows(NoPass) /\ NoPass.pc = "read"
BY DEF NoPass, Passes, Heads, Unlisted, PassKnows

(* A session is kept as it is: one thing less to ask about.                *)
LEMMA KeptKnows ==
  ASSUME NamesInv, NEW p \in Poller, NEW t \in Tree, pass[p].pc \notin {"read", "list"}
  PROVE  KeptAsIs(p, t) \in Passes /\ PassKnows(KeptAsIs(p, t))
<1>1. pass[p] \in Passes /\ PassKnows(pass[p])
  BY DEF NamesInv, NamesTypeOK, Passes
<1> DEFINE k == KeptAsIs(p, t)
<1>2. /\ k \in Passes /\ k.pc = "refs" /\ k.live = pass[p].live /\ k.seen = pass[p].seen
      /\ k.todo \subseteq pass[p].todo /\ k.adopt = pass[p].adopt
  BY <1>1 DEF KeptAsIs, Passes
<1>3. k.pc \notin Tree
  BY <1>2, NamesAssumption
<1> HIDE DEF k
<1>4. PassKnows(k)
  BY <1>1, <1>2, <1>3 DEF PassKnows, Apt
<1> QED  BY <1>2, <1>4 DEF k

LEMMA NamesInvInit == NamesInit => NamesInv
<1> SUFFICES ASSUME NamesInit PROVE NamesInv
  OBVIOUS
<1>1. /\ named \in [Tree -> Name \ {Trunk}] /\ head = named
      /\ local = {Trunk} \cup {named[t] : t \in Tree} /\ published \in {{Trunk}, local}
      /\ gitOps = 0 /\ pass = [p \in Poller |-> NoPass]
  BY DEF NamesInit
<1>2. NamesTypeOK
  <2>1. /\ named \in [Tree -> Name] /\ head \in Heads /\ local \subseteq Name
        /\ gitOps \in 0..MaxGit
    BY <1>1, NamesAssumption DEF Heads
  <2>2. published \subseteq Name
    BY <1>1, <2>1, NamesAssumption
  <2>3. pass \in [Poller -> Passes]
    BY <1>1, NoPassKnows
  <2> QED  BY <2>1, <2>2, <2>3 DEF NamesTypeOK, Passes
<1>3. CheckedOut
  BY <1>1 DEF NamesInit, CheckedOut, Distinct
<1>4. OwnBranches /\ \A p \in Poller : PassKnows(pass[p])
  BY <1>1, NoPassKnows DEF OwnBranches
<1> QED  BY <1>2, <1>3, <1>4 DEF NamesInv

LEMMA PassInv ==
  ASSUME NamesInv, NEW p \in Poller, PassStep(p)
  PROVE  NamesInv'
<1>0. /\ pass \in [Poller -> Passes] /\ pass[p] \in Passes /\ PassKnows(pass[p])
      /\ named \in [Tree -> Name] /\ head \in Heads /\ gitOps \in 0..MaxGit
      /\ [Tree -> Name] \subseteq Heads
  BY DEF NamesInv, NamesTypeOK, Passes, Heads
<1>1. CASE ReadRecords(p)
  <2> DEFINE k == [NoPass EXCEPT !.pc = "list", !.seen = named]
  <2>1. k \in Passes /\ k.pc = "list"
    BY <1>0, NoPassKnows DEF Passes
  <2>2. PassIs(p, k) /\ UNCHANGED <<named, gitRefs, gitOps>>
    BY <1>1 DEF ReadRecords
  <2>3. k.adopt = {}
    BY DEF NoPass
  <2> HIDE DEF k
  <2>4. PassKnows(k)
    BY <2>1, <2>3 DEF PassKnows
  <2> QED  BY <1>0, <2>1, <2>2, <2>4, PassMoves
<1>2. CASE ListWorktrees(p)
  <2> DEFINE may == {t \in Tree : Candidate(p, t, head)}
             k == [pass[p] EXCEPT !.pc = "refs", !.live = head, !.todo = may]
  <2>1. pass[p].pc = "list" /\ PassIs(p, k) /\ UNCHANGED <<named, gitRefs, gitOps>>
    BY <1>2 DEF ListWorktrees, AtStep
  <2>2. may \subseteq Tree
    OBVIOUS
  <2>3. \A t \in may : /\ head[t] \notin {pass[p].seen[t], "HEAD", Trunk}
                       /\ \A u \in Tree \ {t} : pass[p].seen[u] # head[t]
    BY DEF Candidate
  <2> HIDE DEF may
  <2>4. /\ k \in Passes /\ k.pc = "refs" /\ k.live = head /\ k.todo = may
        /\ k.seen = pass[p].seen /\ k.adopt = pass[p].adopt
    BY <1>0, <2>2 DEF Passes
  <2>5. pass[p].adopt = {}
    BY <1>0, <2>1 DEF PassKnows
  <2> HIDE DEF k
  <2>6. "refs" \notin Tree
    BY NamesAssumption
  <2>7. PassKnows(k)
    BY <2>3, <2>4, <2>5, <2>6 DEF PassKnows, Apt, NamesInv, CheckedOut
  <2> QED  BY <1>0, <2>1, <2>4, <2>7, PassMoves
<1>3. ASSUME NEW t \in Tree, LocalRef(p, t) PROVE NamesInv'
  <2>1. /\ pass[p].pc = "refs" /\ t \in pass[p].todo /\ UNCHANGED <<named, gitRefs, gitOps>>
        /\ PassIs(p, KeptAsIs(p, t)) \/ PassIs(p, [pass[p] EXCEPT !.pc = t])
    BY <1>3 DEF LocalRef, AtStep
  <2>2. CASE PassIs(p, KeptAsIs(p, t))
    BY <1>0, <2>1, <2>2, KeptKnows, PassMoves
  <2>3. CASE PassIs(p, [pass[p] EXCEPT !.pc = t])
    <3> DEFINE k == [pass[p] EXCEPT !.pc = t]
    <3>1. /\ k \in Passes /\ k.pc = t /\ k.live = pass[p].live /\ k.seen = pass[p].seen
          /\ k.todo = pass[p].todo /\ k.adopt = pass[p].adopt
      BY <1>0 DEF Passes
    <3>2. PassIs(p, k)
      BY <2>3
    <3> HIDE DEF k
    <3>3. PassKnows(k)
      BY <1>0, <2>1, <3>1, NamesAssumption DEF PassKnows, Apt
    <3> QED  BY <1>0, <2>1, <3>1, <3>2, <3>3, PassMoves
  <2> QED  BY <2>1, <2>2, <2>3
<1>4. ASSUME NEW t \in Tree, RemoteRef(p, t) PROVE NamesInv'
  <2>1. /\ pass[p].pc = t /\ UNCHANGED <<named, gitRefs, gitOps>>
        /\ \/ PassIs(p, KeptAsIs(p, t))
           \/ PassIs(p, [KeptAsIs(p, t) EXCEPT !.adopt = @ \cup {t}])
    BY <1>4 DEF RemoteRef, AtStep
  <2>2. pass[p].pc \notin {"read", "list"} /\ t \in pass[p].todo
    BY <1>0, <2>1, NamesAssumption DEF PassKnows
  <2>3. CASE PassIs(p, KeptAsIs(p, t))
    BY <1>0, <2>1, <2>2, <2>3, KeptKnows, PassMoves
  <2>4. CASE PassIs(p, [KeptAsIs(p, t) EXCEPT !.adopt = @ \cup {t}])
    <3> DEFINE k == [KeptAsIs(p, t) EXCEPT !.adopt = @ \cup {t}]
    <3>1. /\ k \in Passes /\ k.pc = "refs" /\ k.live = pass[p].live /\ k.seen = pass[p].seen
          /\ k.todo \subseteq pass[p].todo /\ k.adopt = pass[p].adopt \cup {t}
      BY <1>0 DEF Passes, KeptAsIs
    <3>2. PassIs(p, k)
      BY <2>4
    <3> HIDE DEF k
    <3>3. k.pc \notin Tree
      BY <3>1, NamesAssumption
    <3>4. PassKnows(k)
      BY <1>0, <2>2, <3>1, <3>3 DEF PassKnows, Apt
    <3> QED  BY <1>0, <2>1, <3>1, <3>2, <3>4, PassMoves
  <2> QED  BY <2>1, <2>3, <2>4
<1>5. CASE AdoptNames(p)
  <2>1. /\ pass[p].pc = "refs" /\ PassIs(p, NoPass) /\ UNCHANGED <<gitRefs, gitOps>>
        /\ named' = [t \in Tree |-> IF t \in pass[p].adopt /\ named[t] = pass[p].seen[t]
                                    THEN pass[p].live[t] ELSE named[t]]
    BY <1>5 DEF AdoptNames, AtStep
  <2>2. \A t \in pass[p].adopt : pass[p].live[t] \in Name \ {Trunk}
    BY <1>0, <2>1 DEF PassKnows, Apt, Passes, Heads
  <2>3. named' \in [Tree -> Name] /\ OwnBranches'
    BY <1>0, <2>1, <2>2 DEF NamesInv, OwnBranches
  <2>4. pass' \in [Poller -> Passes] /\ \A q \in Poller : PassKnows(pass'[q])
    BY <1>0, <2>1, NoPassKnows DEF PassIs, NamesInv
  <2>5. NamesTypeOK' /\ CheckedOut'
    BY <2>1, <2>3, <2>4
       DEF NamesInv, NamesTypeOK, Passes, gitRefs, Heads, CheckedOut, Distinct
  <2> QED  BY <2>3, <2>4, <2>5 DEF NamesInv, PassKnows, Distinct
<1> QED  BY <1>1, <1>2, <1>3, <1>4, <1>5 DEF PassStep

(* What agents, the user and the remote do with branches.                  *)
LEMMA GitInv == ASSUME NamesInv, GitUsed PROVE NamesInv'
<1> DEFINE Fine == /\ head' \in Heads /\ local' \subseteq Name /\ published' \subseteq Name
                   /\ CheckedOut'
<1>0. /\ head \in Heads /\ local \subseteq Name /\ published \subseteq Name /\ CheckedOut
      /\ gitOps' \in 0..MaxGit /\ UNCHANGED <<named, pass>>
  BY NamesAssumption DEF NamesInv, NamesTypeOK, GitUsed, GitOp
<1>1. ASSUME NEW t \in Tree, NEW b \in Name, RenameBranch(t, b) PROVE Fine
  <2>1. /\ head[t] \in local /\ b \notin local /\ b # "HEAD"
        /\ local' = (local \ {head[t]}) \cup {b} /\ head' = [head EXCEPT ![t] = b]
        /\ UNCHANGED published
    BY <1>1, NamesAssumption DEF RenameBranch
  <2>2. /\ head'[t] = b /\ \A u \in Tree \ {t} : head'[u] = head[u] /\ head[u] # head[t]
        /\ head' \in Heads
    BY <1>0, <2>1 DEF Heads, CheckedOut, Distinct
  <2>3. \A u \in Tree \ {t} : head[u] # b /\ head[u] \in local' \cup {"HEAD"}
    BY <1>0, <2>1, <2>2 DEF CheckedOut
  <2> QED  BY <1>0, <2>1, <2>2, <2>3 DEF CheckedOut, Distinct
<1>2. ASSUME NEW t \in Tree, NEW b \in Name \cup {"HEAD"}, SwitchTo(t, b) PROVE Fine
  <2>1. /\ \A u \in Tree : head[u] # b
        /\ local' = local \cup ({b} \ {"HEAD"}) /\ head' = [head EXCEPT ![t] = b]
        /\ UNCHANGED published
    BY <1>2 DEF SwitchTo
  <2>2. head'[t] = b /\ (\A u \in Tree \ {t} : head'[u] = head[u]) /\ head' \in Heads
    BY <1>0, <2>1 DEF Heads
  <2> QED  BY <1>0, <2>1, <2>2 DEF CheckedOut, Distinct
<1>3. ASSUME NEW b \in Name, RefChanges(b) PROVE Fine
  BY <1>0, <1>3 DEF RefChanges, CheckedOut, Distinct
<1>4. Fine
  BY <1>1, <1>2, <1>3 DEF GitUsed
<1> QED  BY <1>0, <1>4 DEF NamesInv, NamesTypeOK, OwnBranches

LEMMA NamesInvNext == NamesInv /\ [NamesNext]_nameVars => NamesInv'
<1> SUFFICES ASSUME NamesInv, [NamesNext]_nameVars PROVE NamesInv'
  OBVIOUS
<1>1. ASSUME NEW p \in Poller, PassStep(p) PROVE NamesInv'
  BY <1>1, PassInv
<1>2. ASSUME NEW p \in Poller, ListOrRefFails(p) PROVE NamesInv'
  <2>0. /\ gitOps' \in 0..MaxGit /\ UNCHANGED <<named, gitRefs>>
        /\ pass[p] \in Passes
    BY <1>2, NamesAssumption DEF ListOrRefFails, GitOp, NamesInv, NamesTypeOK, Passes
  <2>1. CASE PassIs(p, NoPass)
    BY <2>0, <2>1, NoPassKnows, PassMoves
  <2>2. ASSUME NEW t \in pass[p].todo, AtStep(p, "refs") \/ AtStep(p, t), PassIs(p, KeptAsIs(p, t))
        PROVE  NamesInv'
    <3>1. t \in Tree /\ pass[p].pc \notin {"read", "list"}
      BY <2>0, <2>2, NamesAssumption DEF Passes, AtStep
    <3> QED  BY <2>0, <2>2, <3>1, KeptKnows, PassMoves
  <2> QED  BY <1>2, <2>1, <2>2 DEF ListOrRefFails
<1>3. CASE UNCHANGED nameVars
  BY <1>3 DEF nameVars, gitRefs, NamesInv, NamesTypeOK, CheckedOut, OwnBranches, Distinct
<1> QED
  BY <1>1, <1>2, <1>3, GitInv DEF NamesNext

LEMMA NamesInvariance == NamesSpec => []NamesInv
BY NamesInvInit, NamesInvNext, PTL DEF NamesSpec

(* BranchNames's variables keep their types.                               *)
THEOREM NamesTypeCorrect == NamesSpec => []NamesTypeOK
<1>1. NamesInv => NamesTypeOK
  BY DEF NamesInv
<1> QED  BY <1>1, NamesInvariance, PTL

(* No session ever comes to stand for the project's main branch, or for a  *)
(* detached HEAD, however its worktree was switched about.                 *)
THEOREM SessionsKeepOffTrunk == NamesSpec => [](\A t \in Tree : named[t] \in Name \ {Trunk})
<1>1. NamesInv => \A t \in Tree : named[t] \in Name \ {Trunk}
  BY DEF NamesInv, NamesTypeOK, OwnBranches
<1> QED  BY <1>1, NamesInvariance, PTL

(* The adoption of renamed branches gives two sessions one name only when  *)
(* another instance changed the records under a pass: the check against    *)
(* the one snapshot, and git's refusal to check a branch out twice, are    *)
(* enough within a pass.                                                   *)
THEOREM NamesApart == NamesSpec => [][NamesStayApart]_nameVars
<1>1. NamesInv /\ [NamesNext]_nameVars => [NamesStayApart]_nameVars
  <2> SUFFICES ASSUME NamesInv, NamesNext, Distinct(named), ~Distinct(named')
               PROVE  \E p \in Poller : /\ AtStep(p, "refs") /\ pass'[p] # pass[p]
                                         /\ pass[p].seen # named
    BY DEF NamesStayApart
  <2>1. named' # named
    BY DEF Distinct
  <2>2. PICK p \in Poller : AdoptNames(p)
    BY <2>1 DEF NamesNext, PassStep, ReadRecords, ListWorktrees, LocalRef, RemoteRef,
                ListOrRefFails, GitUsed
  <2>3. /\ AtStep(p, "refs") /\ pass[p] \in Passes /\ PassKnows(pass[p]) /\ pass' = [pass EXCEPT ![p] = NoPass]
        /\ named' = [t \in Tree |-> IF t \in pass[p].adopt /\ named[t] = pass[p].seen[t]
                                    THEN pass[p].live[t] ELSE named[t]]
    BY <2>2 DEF AdoptNames, PassIs, NamesInv, NamesTypeOK, Passes
  <2>4. pass'[p] # pass[p]
    BY <2>3, NoPassKnows DEF AtStep, NamesInv, NamesTypeOK
  <2>5. pass[p].seen # named
    <3> SUFFICES ASSUME pass[p].seen = named PROVE Distinct(named')
      OBVIOUS
    <3>1. \A t \in Tree : named'[t] = IF t \in pass[p].adopt THEN pass[p].live[t] ELSE named[t]
      BY <2>3
    <3>2. /\ Distinct(pass[p].live)
          /\ \A t \in pass[p].adopt : \A u \in Tree \ {t} : named[u] # pass[p].live[t]
      BY <2>3 DEF PassKnows, Apt, AtStep
    <3> QED  BY <3>1, <3>2 DEF Distinct
  <2> QED  BY <2>3, <2>4, <2>5
<1> QED  BY <1>1, NamesInvariance, PTL DEF NamesSpec
-----------------------------------------------------------------------------
(* The base of a review that is edited while sweeps are in flight.         *)

(* An edit that is to last has moved the session, is the only one on its   *)
(* way to the host, and has moved the review once it is not.               *)
EditKnown ==
  wanted # NoBase => /\ hinted = wanted
                     /\ \A e \in Editor : edit[e] \in {NoBase, wanted}
                     /\ Editing = {} => hosted = wanted

(* Sweeps that are over are forgotten; the others have an order, and if    *)
(* one was overtaken, so were those that began before it.                  *)
SweepsInOrder ==
  \A k \in Sweep :
    /\ ~SweepBegun(k) => sweep[k] = NoSweep
    /\ \A j \in sweep[k].older : /\ SweepBegun(j)
                                 /\ sweep[j].older \subseteq sweep[k].older
                                 /\ sweep[k].late => sweep[j].late

BaseInv == BaseTypeOK /\ EditKnown /\ SweepsInOrder

(* The edit's base is at the host and on the screen, and no sweep that may *)
(* still write has anything else to say.                                   *)
EditHasSettled ==
  /\ wanted # NoBase /\ Editing = {} /\ ShownBase = wanted
  /\ \A k \in Sweep : sweep[k].pc = "apply" => sweep[k].late \/ sweep[k].answer \in {NoBase, wanted}

(* From then on only another edit, or somebody at the host, can end it.    *)
EditStaysPut == EditHasSettled /\ wanted' = wanted => EditHasSettled'

(* What takes an edit off the screen, after its call has returned, is a    *)
(* sweep with an answer the host no longer gives.                          *)
EditLostToOldAnswer ==
  wanted # NoBase /\ wanted' = wanted /\ Editing = {} /\ ShownBase = wanted /\ ShownBase' # wanted =>
    \E k \in Sweep : /\ sweep[k].pc = "apply" /\ ~sweep[k].late
                     /\ sweep[k].answer \notin {NoBase, hosted}

Sweeps == [pc : {"idle", "ask", "apply"}, answer : Base \cup {NoBase},
           found : BOOLEAN, older : SUBSET Sweep, late : BOOLEAN]

LEMMA NoSweepType == NoSweep \in Sweeps /\ NoSweep.pc = "idle" /\ NoSweep.older = {} /\ NoSweep.late = FALSE
BY DEF NoSweep, Sweeps

LEMMA BaseInvInit == BaseInit => BaseInv
<1> SUFFICES ASSUME BaseInit PROVE BaseInv
  OBVIOUS
<1>1. /\ hinted \in Base /\ hosted \in Base \cup {NoBase} /\ review = NoReview
      /\ \A k \in Sweep : sweep[k] = NoSweep
      /\ sweep \in [Sweep -> Sweeps] /\ edit \in [Editor -> Base \cup {NoBase}]
      /\ edits = 0 /\ baseTrouble = 0 /\ wanted = NoBase
  BY NoSweepType DEF BaseInit
<1>2. BaseTypeOK
  BY <1>1, NoSweepType, BaseAssumption DEF BaseTypeOK, NoReview, Sweeps
<1>3. EditKnown /\ SweepsInOrder
  BY <1>1, NoSweepType DEF EditKnown, SweepsInOrder
<1> QED  BY <1>2, <1>3 DEF BaseInv

(* A sweep ends.                                                           *)
LEMMA SweepOver ==
  ASSUME BaseInv, NEW k \in Sweep, NEW counts \in BOOLEAN, Over(k, counts), SweepBegun(k)
  PROVE  /\ sweep' \in [Sweep -> Sweeps] /\ sweep'[k] = NoSweep
         /\ \A j \in Sweep \ {k} : /\ sweep'[j].pc = sweep[j].pc /\ sweep'[j].answer = sweep[j].answer
                                   /\ sweep'[j].older = sweep[j].older \ {k}
                                   /\ (sweep'[j].late <=> sweep[j].late \/ (counts /\ j \in sweep[k].older))
         /\ \A j \in Sweep : j \notin sweep'[j].older
         /\ SweepsInOrder'
<1>0. /\ sweep \in [Sweep -> Sweeps] /\ \A j \in Sweep : j \notin sweep[j].older
      /\ SweepsInOrder
  BY DEF BaseInv, BaseTypeOK, Sweeps
<1> DEFINE to(j) == [sweep[j] EXCEPT !.older = @ \ {k}, !.late = @ \/ (counts /\ j \in sweep[k].older)]
<1>1. ASSUME NEW j \in Sweep
      PROVE  /\ to(j) \in Sweeps /\ to(j).pc = sweep[j].pc /\ to(j).answer = sweep[j].answer
             /\ to(j).found = sweep[j].found /\ to(j).older = sweep[j].older \ {k}
             /\ (to(j).late <=> sweep[j].late \/ (counts /\ j \in sweep[k].older))
  <2> DEFINE late == sweep[j].late \/ (counts /\ j \in sweep[k].older)
  <2>1. late \in BOOLEAN
    OBVIOUS
  <2>2. to(j) = [sweep[j] EXCEPT !.older = sweep[j].older \ {k}, !.late = late]
    BY <1>0 DEF Sweeps
  <2> HIDE DEF late, to
  <2>3. /\ to(j) \in Sweeps /\ to(j).pc = sweep[j].pc /\ to(j).answer = sweep[j].answer
        /\ to(j).found = sweep[j].found /\ to(j).older = sweep[j].older \ {k} /\ to(j).late = late
    <3>1. sweep[j] \in Sweeps /\ sweep[j].older \ {k} \in SUBSET Sweep
      BY <1>0 DEF Sweeps
    <3> QED  BY <2>1, <2>2, <3>1 DEF Sweeps
  <2> QED  BY <2>3 DEF late
<1>2. sweep' = [j \in Sweep |-> IF j = k THEN NoSweep ELSE to(j)]
  BY DEF Over
<1> HIDE DEF to
<1>3. /\ sweep' \in [Sweep -> Sweeps] /\ sweep'[k] = NoSweep
      /\ \A j \in Sweep \ {k} : sweep'[j] = to(j)
  BY <1>1, <1>2, NoSweepType
<1>4. ASSUME NEW j \in Sweep \ {k}
      PROVE  /\ sweep'[j].pc = sweep[j].pc /\ sweep'[j].answer = sweep[j].answer
             /\ sweep'[j].found = sweep[j].found /\ sweep'[j] \in Sweeps
             /\ sweep'[j].older = sweep[j].older \ {k}
             /\ (sweep'[j].late <=> sweep[j].late \/ (counts /\ j \in sweep[k].older))
  BY <1>1, <1>3
<1>5. \A j \in Sweep : j \notin sweep'[j].older
  BY <1>0, <1>3, <1>4, NoSweepType
<1>6. ASSUME NEW j \in Sweep \ {k}
      PROVE  /\ ~SweepBegun(j)' => sweep'[j] = NoSweep
             /\ \A i \in sweep'[j].older : /\ SweepBegun(i)'
                                           /\ sweep'[i].older \subseteq sweep'[j].older
                                           /\ sweep'[j].late => sweep'[i].late
  <2>1. ASSUME ~SweepBegun(j)' PROVE sweep'[j] = NoSweep
    <3>1. sweep[j] = NoSweep /\ ~SweepBegun(j)
      BY <1>0, <1>4, <2>1 DEF SweepsInOrder, SweepBegun
    <3>2. j \notin sweep[k].older
      BY <1>0, <3>1 DEF SweepsInOrder
    <3> DEFINE r == sweep'[j]
    <3>3. /\ r \in Sweeps /\ r.pc = "idle" /\ r.answer = NoBase /\ r.found = FALSE
          /\ r.older = {} /\ ~r.late
      BY <1>4, <3>1, <3>2 DEF NoSweep
    <3> HIDE DEF r
    <3>4. r = NoSweep
      BY <3>3 DEF Sweeps, NoSweep
    <3> QED  BY <3>4 DEF r
  <2>2. ASSUME NEW i \in sweep'[j].older
        PROVE  /\ SweepBegun(i)' /\ sweep'[i].older \subseteq sweep'[j].older
               /\ sweep'[j].late => sweep'[i].late
    <3>1. i \in sweep[j].older /\ i # k /\ i \in Sweep
      BY <1>0, <1>4, <2>2 DEF Sweeps
    <3>2. /\ SweepBegun(i) /\ sweep[i].older \subseteq sweep[j].older
          /\ sweep[j].late => sweep[i].late
      BY <1>0, <3>1 DEF SweepsInOrder
    <3>3. j \in sweep[k].older => i \in sweep[k].older
      BY <1>0, <3>1 DEF SweepsInOrder
    <3> QED  BY <1>4, <3>1, <3>2, <3>3 DEF SweepBegun
  <2> QED  BY <2>1, <2>2
<1>7. SweepsInOrder'
  BY <1>3, <1>6, NoSweepType DEF SweepsInOrder
<1> QED  BY <1>3, <1>4, <1>5, <1>7

(* An edit's part in the state, and what it means to last.                 *)
LEMMA EditMoves ==
  ASSUME BaseInv, NEW e \in Editor, NEW b \in Base, SetBase(e, b) \/ ParentDeleted(e, b)
  PROVE  BaseInv' /\ hinted' = b /\ UNCHANGED <<hosted, sweep>>
<1> DEFINE moves == IF SetBase(e, b) THEN HasReview ELSE review.number /\ review.base # NoBase
<1>0. /\ review \in [number : BOOLEAN, base : Base \cup {NoBase}] /\ b # NoBase
      /\ edit \in [Editor -> Base \cup {NoBase}] /\ wanted \in Base \cup {NoBase}
      /\ edits \in 0..MaxEdits /\ MaxEdits \in Nat
  BY BaseAssumption DEF BaseInv, BaseTypeOK
<1>1. /\ hinted' = b /\ UNCHANGED <<hosted, sweep, baseTrouble>>
      /\ review' = [review EXCEPT !.base = IF review.base = NoBase THEN NoBase ELSE b]
      /\ edits < MaxEdits /\ edits' = edits + 1
  <2>1. Moved(b) /\ edits < MaxEdits /\ edits' = edits + 1 /\ UNCHANGED <<hosted, sweep, baseTrouble>>
    BY DEF SetBase, ParentDeleted, Follow
  <2>2. review' = [review EXCEPT !.base = IF review.base = NoBase THEN NoBase ELSE b]
    BY <1>0, <2>1 DEF Moved
  <2> QED  BY <2>1, <2>2 DEF Moved
<1>2. /\ edit' \in [Editor -> Base \cup {NoBase}] /\ edit'[e] \in {b, NoBase}
      /\ \A d \in Editor \ {e} : edit'[d] = edit[d]
  BY <1>0 DEF SetBase, ParentDeleted, Follow
<1>3. wanted' = NoBase \/ (wanted' = b /\ edit'[e] = b /\ Editing = {})
  <2>1. CASE SetBase(e, b)
    <3>1. wanted' = NoBase \/ (wanted' = b /\ review.number /\ Editing = {})
      BY <2>1 DEF SetBase
    <3>2. edit' = [edit EXCEPT ![e] = IF review.number THEN b ELSE NoBase]
      BY <2>1 DEF SetBase, Follow, HasReview
    <3>3. review.number => edit'[e] = b
      BY <1>0, <3>2
    <3> QED  BY <3>1, <3>3
  <2>2. CASE ParentDeleted(e, b)
    BY <2>2 DEF ParentDeleted
  <2> QED  BY <2>1, <2>2
<1>4. EditKnown'
  <2> SUFFICES ASSUME wanted' # NoBase
               PROVE  /\ hinted' = wanted' /\ \A d \in Editor : edit'[d] \in {NoBase, wanted'}
                      /\ Editing' # {}
    BY DEF EditKnown
  <2>1. wanted' = b /\ edit'[e] = b /\ \A d \in Editor : edit[d] = NoBase
    BY <1>3 DEF Editing
  <2> QED  BY <1>0, <1>1, <1>2, <2>1 DEF Editing
<1>5. BaseTypeOK'
  <2>1. review' \in [number : BOOLEAN, base : Base \cup {NoBase}]
    BY <1>0, <1>1
  <2>2. wanted' \in Base \cup {NoBase} /\ edits' \in 0..MaxEdits
    BY <1>0, <1>1, <1>3
  <2> QED  BY <1>1, <1>2, <2>1, <2>2 DEF BaseInv, BaseTypeOK
<1>6. SweepsInOrder'
  BY <1>1 DEF BaseInv, SweepsInOrder, SweepBegun
<1> QED  BY <1>1, <1>4, <1>5, <1>6 DEF BaseInv

(* One sweep begins, or hears from the host.                               *)
LEMMA SweepGoesOn ==
  ASSUME BaseInv, NEW k \in Sweep, NEW r \in Sweeps, sweep' = [sweep EXCEPT ![k] = r],
         r.pc # "idle",
         IF SweepBegun(k) THEN r.older = sweep[k].older /\ r.late = sweep[k].late
         ELSE r.older = {j \in Sweep : SweepBegun(j)} /\ r.late = FALSE,
         UNCHANGED <<hinted, review, hosted, edit, edits, baseTrouble, wanted>>
  PROVE  BaseInv'
<1>0. /\ sweep \in [Sweep -> Sweeps] /\ SweepsInOrder /\ \A j \in Sweep : j \notin sweep[j].older
  BY DEF BaseInv, BaseTypeOK, Sweeps
<1>1. /\ sweep' \in [Sweep -> Sweeps] /\ sweep'[k] = r /\ \A j \in Sweep \ {k} : sweep'[j] = sweep[j]
  BY <1>0
<1>2. k \notin r.older /\ \A j \in r.older : j \in Sweep /\ SweepBegun(j)
  BY <1>0 DEF SweepsInOrder, Sweeps
<1>3. \A j \in r.older : sweep[j].older \subseteq r.older /\ (r.late => sweep[j].late)
  BY <1>0, <1>2 DEF SweepsInOrder, Sweeps
<1>4. \A j \in Sweep : SweepBegun(j) => SweepBegun(j)'
  BY <1>1 DEF SweepBegun
<1>5. \A j \in Sweep \ {k} : k \in sweep[j].older => SweepBegun(k) 
  BY <1>0 DEF SweepsInOrder
<1>6. ASSUME NEW j \in Sweep
      PROVE  /\ ~SweepBegun(j)' => sweep'[j] = NoSweep
             /\ \A i \in sweep'[j].older : /\ SweepBegun(i)'
                                           /\ sweep'[i].older \subseteq sweep'[j].older
                                           /\ sweep'[j].late => sweep'[i].late
  <2>1. CASE j = k
    BY <1>1, <1>2, <1>3, <1>4, <2>1 DEF SweepBegun
  <2>2. CASE j # k
    <3>1. ~SweepBegun(j)' => sweep'[j] = NoSweep
      BY <1>0, <1>1, <2>2 DEF SweepsInOrder, SweepBegun
    <3>2. ASSUME NEW i \in sweep'[j].older
          PROVE  /\ SweepBegun(i)' /\ sweep'[i].older \subseteq sweep'[j].older
                 /\ sweep'[j].late => sweep'[i].late
      <4>1. /\ i \in Sweep /\ i \in sweep[j].older /\ SweepBegun(i)
            /\ sweep[i].older \subseteq sweep[j].older /\ (sweep[j].late => sweep[i].late)
        BY <1>0, <1>1, <2>2, <3>2 DEF SweepsInOrder, Sweeps
      <4>2. sweep'[i].older = sweep[i].older /\ sweep'[i].late = sweep[i].late
        BY <1>1, <4>1
      <4> QED  BY <1>1, <1>4, <2>2, <4>1, <4>2
    <3> QED  BY <3>1, <3>2
  <2> QED  BY <2>1, <2>2
<1>7. SweepsInOrder'
  BY <1>6 DEF SweepsInOrder
<1>8. BaseTypeOK'
  BY <1>0, <1>1, <1>2 DEF BaseInv, BaseTypeOK, Sweeps
<1>9. EditKnown'
  BY DEF BaseInv, EditKnown, Editing
<1> QED  BY <1>7, <1>8, <1>9 DEF BaseInv

LEMMA BaseInvNext == BaseInv /\ [BaseNext]_baseVars => BaseInv'
<1> SUFFICES ASSUME BaseInv, [BaseNext]_baseVars PROVE BaseInv'
  OBVIOUS
<1>0. /\ sweep \in [Sweep -> Sweeps] /\ hosted \in Base \cup {NoBase}
      /\ edit \in [Editor -> Base \cup {NoBase}] /\ wanted \in Base \cup {NoBase}
      /\ baseTrouble \in 0..MaxBaseTrouble /\ MaxBaseTrouble \in Nat
  BY BaseAssumption DEF BaseInv, BaseTypeOK, Sweeps
<1>1. ASSUME NEW e \in Editor, NEW b \in Base, SetBase(e, b) \/ ParentDeleted(e, b) PROVE BaseInv'
  BY <1>1, EditMoves
<1>2. ASSUME NEW e \in Editor, Retargeted(e) PROVE BaseInv'
  <2>1. /\ edit[e] # NoBase /\ hosted' = edit[e] /\ edit' = [edit EXCEPT ![e] = NoBase]
        /\ UNCHANGED <<hinted, review, sweep, edits, baseTrouble, wanted>>
    BY <1>2 DEF Retargeted
  <2>2. hosted' \in Base /\ edit' \in [Editor -> Base \cup {NoBase}]
    BY <1>0, <2>1
  <2>3. EditKnown'
    BY <1>0, <2>1 DEF BaseInv, EditKnown, Editing
  <2> QED  BY <2>1, <2>2, <2>3 DEF BaseInv, BaseTypeOK, SweepsInOrder, SweepBegun
<1>3. ASSUME NEW e \in Editor, RetargetFails(e) PROVE BaseInv'
  <2>1. /\ edit[e] # NoBase /\ edit' = [edit EXCEPT ![e] = NoBase] /\ wanted' = NoBase
        /\ UNCHANGED <<hinted, review, sweep, edits>>
    BY <1>3 DEF RetargetFails
  <2>2. /\ hosted' \in Base \cup {NoBase} /\ baseTrouble' \in 0..MaxBaseTrouble
        /\ edit' \in [Editor -> Base \cup {NoBase}]
    BY <1>0, <1>3, <2>1 DEF RetargetFails, BaseTroubled
  <2> QED  BY <2>1, <2>2 DEF BaseInv, BaseTypeOK, EditKnown, SweepsInOrder, SweepBegun
<1>4. ASSUME NEW k \in Sweep, StartSweep(k) PROVE BaseInv'
  <2> DEFINE begun == {j \in Sweep : SweepBegun(j)}
             r == [NoSweep EXCEPT !.pc = "ask", !.older = begun]
  <2>1. /\ ~SweepBegun(k) /\ sweep' = [sweep EXCEPT ![k] = r]
        /\ UNCHANGED <<hinted, review, hosted, edit, edits, baseTrouble, wanted>>
    BY <1>4 DEF StartSweep
  <2>2. begun \in SUBSET Sweep
    OBVIOUS
  <2> HIDE DEF begun
  <2>3. r \in Sweeps /\ r.pc = "ask" /\ r.older = begun /\ r.late = FALSE
    BY <2>2, NoSweepType DEF Sweeps, NoSweep
  <2> HIDE DEF r
  <2> QED  BY <2>1, <2>3, SweepGoesOn DEF begun
<1>5. ASSUME NEW k \in Sweep, AskHost(k) PROVE BaseInv'
  <2>1. PICK a \in {hosted, NoBase} :
          sweep' = [sweep EXCEPT ![k] = [@ EXCEPT !.pc = "apply", !.answer = a, !.found = (hosted # NoBase)]]
    BY <1>5 DEF AskHost
  <2> DEFINE found == hosted # NoBase
             r == [sweep[k] EXCEPT !.pc = "apply", !.answer = a, !.found = found]
  <2>2. /\ sweep[k].pc = "ask" /\ sweep' = [sweep EXCEPT ![k] = r]
        /\ UNCHANGED <<hinted, review, hosted, edit, edits, baseTrouble, wanted>>
    BY <1>0, <1>5, <2>1 DEF AskHost
  <2>3. found \in BOOLEAN
    OBVIOUS
  <2> HIDE DEF found
  <2>4. r \in Sweeps /\ r.pc = "apply" /\ r.older = sweep[k].older /\ r.late = sweep[k].late
    <3>1. sweep[k] \in Sweeps /\ a \in Base \cup {NoBase}
      BY <1>0
    <3> QED  BY <2>3, <3>1 DEF Sweeps
  <2> HIDE DEF r
  <2>5. SweepBegun(k)
    BY <2>2 DEF SweepBegun
  <2> QED  BY <2>2, <2>4, <2>5, SweepGoesOn
<1>6. ASSUME NEW k \in Sweep, ApplySweep(k) PROVE BaseInv'
  <2>1. /\ SweepBegun(k) /\ Over(k, ~sweep[k].late)
        /\ UNCHANGED <<hinted, hosted, edit, edits, baseTrouble, wanted>>
    BY <1>6 DEF ApplySweep, SweepBegun
  <2>2. review' \in [number : BOOLEAN, base : Base \cup {NoBase}]
    BY <1>0, <1>6 DEF ApplySweep, BaseInv, BaseTypeOK, Sweeps
  <2>3. /\ sweep' \in [Sweep -> Sweeps] /\ SweepsInOrder'
        /\ \A j \in Sweep : j \notin sweep'[j].older
    <3> DEFINE counts == ~sweep[k].late
    <3>1. counts \in BOOLEAN /\ Over(k, counts)
      BY <2>1
    <3> HIDE DEF counts
    <3> QED  BY <2>1, <3>1, SweepOver
  <2>4. BaseTypeOK' /\ EditKnown'
    BY <2>1, <2>2, <2>3 DEF BaseInv, BaseTypeOK, EditKnown, Editing, Sweeps
  <2> QED  BY <2>3, <2>4 DEF BaseInv
<1>7. ASSUME NEW k \in Sweep, SweepFails(k) PROVE BaseInv'
  <2>1. /\ SweepBegun(k) /\ Over(k, FALSE) /\ baseTrouble' \in 0..MaxBaseTrouble
        /\ UNCHANGED <<hinted, review, hosted, edit, edits, wanted>>
    <3>1. baseTrouble' \in 0..MaxBaseTrouble
      BY <1>0, <1>7 DEF SweepFails, BaseTroubled
    <3> QED  BY <1>7, <3>1 DEF SweepFails, SweepBegun
  <2>2. /\ sweep' \in [Sweep -> Sweeps] /\ SweepsInOrder'
        /\ \A j \in Sweep : j \notin sweep'[j].older
    BY <2>1, SweepOver
  <2>3. BaseTypeOK' /\ EditKnown'
    BY <2>1, <2>2 DEF BaseInv, BaseTypeOK, EditKnown, Editing, Sweeps
  <2> QED  BY <2>2, <2>3 DEF BaseInv
<1>8. CASE HostChanges
  <2>1. /\ hosted' \in Base /\ wanted' = NoBase /\ baseTrouble' \in 0..MaxBaseTrouble
        /\ UNCHANGED <<hinted, review, sweep, edit, edits>>
    BY <1>0, <1>8 DEF HostChanges, BaseTroubled
  <2> QED  BY <2>1 DEF BaseInv, BaseTypeOK, EditKnown, SweepsInOrder, SweepBegun
<1>9. CASE UNCHANGED baseVars
  BY <1>9 DEF baseVars, BaseInv, BaseTypeOK, EditKnown, Editing, SweepsInOrder, SweepBegun
<1> QED
  BY <1>1, <1>2, <1>3, <1>4, <1>5, <1>6, <1>7, <1>8, <1>9 DEF BaseNext, SweepStep

LEMMA BaseInvariance == BaseSpec => []BaseInv
BY BaseInvInit, BaseInvNext, PTL DEF BaseSpec

(* BaseEdits's variables keep their types.                                 *)
THEOREM BaseTypeCorrect == BaseSpec => []BaseTypeOK
<1>1. BaseInv => BaseTypeOK
  BY DEF BaseInv
<1> QED  BY <1>1, BaseInvariance, PTL

(* How the screen may come to differ from an edit that is to last: a sweep *)
(* whose answer differs from it.                                           *)
LEMMA ShownMoves ==
  ASSUME BaseInv, [BaseNext]_baseVars, wanted # NoBase, wanted' = wanted, Editing = {},
         ShownBase = wanted
  PROVE  /\ hosted = wanted /\ hosted' = wanted /\ hinted' = wanted /\ Editing' = {}
         /\ \/ ShownBase' = wanted
            \/ \E k \in Sweep : sweep[k].pc = "apply" /\ ~sweep[k].late /\ sweep[k].answer \notin {NoBase, wanted}
<1>0. /\ hinted = wanted /\ hosted = wanted /\ \A e \in Editor : edit[e] = NoBase
      /\ review.base \in {NoBase, wanted}
  BY DEF BaseInv, EditKnown, Editing, ShownBase
<1>1. ~(\E e \in Editor, b \in Base : SetBase(e, b) \/ ParentDeleted(e, b))
  <2> SUFFICES ASSUME NEW e \in Editor, NEW b \in Base, SetBase(e, b) \/ ParentDeleted(e, b)
               PROVE  FALSE
    OBVIOUS
  <2>1. wanted' \in {NoBase, b}
    BY DEF SetBase, ParentDeleted
  <2>2. b = wanted
    BY <2>1
  <2> QED  BY <1>0, <2>2 DEF SetBase, ParentDeleted
<1>2. ~HostChanges /\ \A e \in Editor : ~Retargeted(e) /\ ~RetargetFails(e)
  BY <1>0 DEF HostChanges, Retargeted, RetargetFails
<1>3. UNCHANGED baseVars \/ \E k \in Sweep : SweepStep(k) \/ SweepFails(k)
  BY <1>1, <1>2 DEF BaseNext
<1>4. UNCHANGED <<hinted, hosted, edit>>
  BY <1>3 DEF baseVars, SweepStep, StartSweep, AskHost, ApplySweep, SweepFails
<1>5. ASSUME ~UNCHANGED review
      PROVE  \E k \in Sweep : ApplySweep(k) /\ ~sweep[k].late /\ review'.base = sweep[k].answer
  <2>1. PICK k \in Sweep : SweepStep(k) \/ SweepFails(k)
    BY <1>3, <1>5 DEF baseVars
  <2>2. ApplySweep(k)
    BY <1>5, <2>1 DEF SweepStep, StartSweep, AskHost, SweepFails
  <2>3. ~sweep[k].late /\ review'.base = sweep[k].answer
    BY <1>5, <2>2 DEF ApplySweep
  <2> QED  BY <2>2, <2>3
<1>6. ShownBase' = wanted \/ \E k \in Sweep : sweep[k].pc = "apply" /\ ~sweep[k].late /\ sweep[k].answer \notin {NoBase, wanted}
  <2>1. CASE UNCHANGED review
    BY <1>4, <2>1 DEF ShownBase
  <2>2. CASE ~UNCHANGED review
    BY <1>0, <1>4, <1>5, <2>2 DEF ShownBase, ApplySweep
  <2> QED  BY <2>1, <2>2
<1> QED  BY <1>0, <1>4, <1>6 DEF Editing

(* After an edit has been reported as done, only a sweep that asked the    *)
(* host before, and was overtaken by none, takes its base off the screen.  *)
THEOREM OldAnswersRevertEdits == BaseSpec => [][EditLostToOldAnswer]_baseVars
<1>1. BaseInv /\ [BaseNext]_baseVars => [EditLostToOldAnswer]_baseVars
  BY ShownMoves DEF EditLostToOldAnswer
<1> QED  BY <1>1, BaseInvariance, PTL DEF BaseSpec

(* Once an edit is at the host and on the screen, and what sweeps were     *)
(* told before is out of the way, it stays until somebody edits again or   *)
(* moves the review: the safety part of EditLasts.                         *)
THEOREM SettledEditsStay == BaseSpec => [][EditStaysPut]_baseVars
<1>1. ASSUME BaseInv, [BaseNext]_baseVars, EditHasSettled, wanted' = wanted
      PROVE  EditHasSettled'
  <2>0. /\ hosted = wanted /\ Editing' = {} /\ ShownBase' = wanted /\ wanted # NoBase
    BY <1>1, ShownMoves DEF EditHasSettled
  <2>1. ASSUME NEW j \in Sweep, sweep'[j].pc = "apply"
        PROVE  sweep'[j].late \/ sweep'[j].answer \in {NoBase, wanted}
    <3>0. sweep \in [Sweep -> Sweeps]
      BY <1>1 DEF BaseInv, BaseTypeOK, Sweeps
    <3>1. ASSUME NEW k \in Sweep, NEW counts \in BOOLEAN, SweepBegun(k), Over(k, counts)
          PROVE  sweep'[j].late \/ sweep'[j].answer \in {NoBase, wanted}
      BY <1>1, <2>1, <3>1, SweepOver, NoSweepType DEF EditHasSettled
    <3>2. ASSUME NEW k \in Sweep, StartSweep(k)
          PROVE  sweep'[j].late \/ sweep'[j].answer \in {NoBase, wanted}
      <4>1. j # k => sweep'[j] = sweep[j]
        BY <3>0, <3>2 DEF StartSweep
      <4>2. sweep'[k].pc = "ask"
        BY <3>0, <3>2 DEF StartSweep, NoSweep
      <4> QED  BY <1>1, <2>1, <4>1, <4>2 DEF EditHasSettled
    <3>3. ASSUME NEW k \in Sweep, AskHost(k)
          PROVE  sweep'[j].late \/ sweep'[j].answer \in {NoBase, wanted}
      <4>1. j # k => sweep'[j] = sweep[j]
        BY <3>0, <3>3 DEF AskHost
      <4>2. sweep'[k].answer \in {hosted, NoBase}
        BY <3>0, <3>3 DEF AskHost, Sweeps
      <4> QED  BY <1>1, <2>0, <2>1, <4>1, <4>2 DEF EditHasSettled
    <3>4. CASE UNCHANGED sweep
      BY <1>1, <2>1, <3>4 DEF EditHasSettled
    <3>5. ASSUME NEW k \in Sweep, ApplySweep(k) \/ SweepFails(k)
          PROVE  SweepBegun(k) /\ \E counts \in BOOLEAN : Over(k, counts)
      BY <3>5 DEF ApplySweep, SweepFails, SweepBegun
    <3>6. \/ UNCHANGED sweep
          \/ \E k \in Sweep : StartSweep(k) \/ AskHost(k) \/ ApplySweep(k) \/ SweepFails(k)
      BY <1>1 DEF BaseNext, SetBase, ParentDeleted, Retargeted, RetargetFails, HostChanges,
                  SweepStep, baseVars
    <3> QED  BY <3>1, <3>2, <3>3, <3>4, <3>5, <3>6
  <2> QED  BY <1>1, <2>0, <2>1 DEF EditHasSettled
<1>2. BaseInv /\ [BaseNext]_baseVars => [EditStaysPut]_baseVars
  BY <1>1 DEF EditStaysPut
<1> QED  BY <1>2, BaseInvariance, PTL DEF BaseSpec
-----------------------------------------------------------------------------
(* The parts side by side.                                                 *)

(* Whichever part a behaviour is of, that part keeps its invariant: the    *)
(* others stand still, and take none of its steps.                         *)
FollowInv == /\ part = "review" => ViewInv
             /\ part = "clone" => CloneInv
             /\ part = "poller" => PollerInv
             /\ part = "refresh" => BoardInv /\ FeedInv
             /\ part = "pull" => PullInv
             /\ part = "names" => NamesInv
             /\ part = "base" => BaseInv

LEMMA FollowInvInit == FollowInit => FollowInv
BY ViewInvInit, CloneInvInit, PollerInvInit, BoardInvInit, FeedInvInit, PullInvInit, NamesInvInit, BaseInvInit
   DEF FollowInit, FollowInv

LEMMA FollowInvNext == FollowInv /\ [FollowNext]_followVars => FollowInv'
<1> SUFFICES ASSUME FollowInv, [FollowNext]_followVars PROVE FollowInv'
  OBVIOUS
<1>0. /\ part' = part
      /\ \/ FollowNext
         \/ UNCHANGED <<viewVars, cloneVars, pollerVars, refreshVars, pullVars, nameVars, baseVars>>
  BY DEF FollowNext, followVars, frontends, loops
<1>1. ASSUME part = "review" PROVE ViewInv'
  <2>1. [ViewNext]_viewVars
    BY <1>0, <1>1 DEF FollowNext, On
  <2> QED  BY <1>1, <2>1, ViewInvNext DEF FollowInv
<1>2. ASSUME part = "clone" PROVE CloneInv'
  <2>1. [CloneNext]_cloneVars
    BY <1>0, <1>2 DEF FollowNext, On
  <2> QED  BY <1>2, <2>1, CloneStep DEF FollowInv
<1>3. ASSUME part = "poller" PROVE PollerInv'
  <2>1. [PollerNext]_pollerVars
    BY <1>0, <1>3 DEF FollowNext, On
  <2> QED  BY <1>3, <2>1, PollerInvNext DEF FollowInv
<1>4. ASSUME part = "refresh" PROVE BoardInv' /\ FeedInv'
  <2>1. [RefreshNext]_refreshVars
    BY <1>0, <1>4 DEF FollowNext, On
  <2> QED  BY <1>4, <2>1, BoardStep, FeedStep DEF FollowInv
<1>5. ASSUME part = "pull" PROVE PullInv'
  <2>1. [PullNext]_pullVars
    BY <1>0, <1>5 DEF FollowNext, On
  <2> QED  BY <1>5, <2>1, PullInvNext DEF FollowInv
<1>6. ASSUME part = "names" PROVE NamesInv'
  <2>1. [NamesNext]_nameVars
    BY <1>0, <1>6 DEF FollowNext, On
  <2> QED  BY <1>6, <2>1, NamesInvNext DEF FollowInv
<1>7. ASSUME part = "base" PROVE BaseInv'
  <2>1. [BaseNext]_baseVars
    BY <1>0, <1>7 DEF FollowNext, On
  <2> QED  BY <1>7, <2>1, BaseInvNext DEF FollowInv
<1> QED  BY <1>0, <1>1, <1>2, <1>3, <1>4, <1>5, <1>6, <1>7 DEF FollowInv

(* What the run of the followers checks of the types holds of every part   *)
(* for all values of the constants.                                        *)
THEOREM FollowTypeCorrect == FollowSpec => []FollowTypeOK
<1>1. FollowInv => FollowTypeOK
  BY ViewInvType, RefreshInvType
     DEF FollowInv, FollowTypeOK, CloneInv, PollerInv, PullInv, NamesInv, BaseInv
<1> QED  BY <1>1, FollowInvInit, FollowInvNext, PTL DEF FollowSpec
=============================================================================
