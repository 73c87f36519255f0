-------------------------- MODULE CascadeMergeProofs --------------------------
(***************************************************************************)
(* CascadeMerge for any sessions, any number of calls at once and any      *)
(* history of main: no session is left looking busy, a cascade that        *)
(* reports success has merged, and pushes go up the stack.                 *)
(***************************************************************************)
EXTENDS CascadeMerge, StackTopologyProofs

(* A call keeps its fields.                                                *)
Shaped(r) == r \in [kind : {r.kind}, pc : {r.pc}, chain : {r.chain}, i : {r.i}, at : {r.at},
                    outcome : {r.outcome}, goal : {r.goal}, sent : {r.sent}]

CallShape == /\ call = [c \in Call |-> call[c]]
             /\ \A c \in Call : Shaped(call[c])

Others(c) == \A d \in Call \ {c} : call'[d] = call[d]

LEMMA OneCall ==
  ASSUME CallShape, NEW c \in Call, NEW r, Shaped(r), call' = [call EXCEPT ![c] = r]
  PROVE  CallShape' /\ call'[c] = r /\ Others(c)
BY DEF CallShape, Others

LEMMA IdleShaped == Shaped(Idle)
BY DEF Shaped, Idle, NewCall

(* Goto changes the place of one call, or ends it.                         *)
LEMMA GotoOne ==
  ASSUME CallShape, NEW c \in Call, NEW pc, Goto(c, pc)
  PROVE  /\ CallShape' /\ Others(c)
         /\ call'[c] = IF pc = "idle" THEN Idle ELSE [call[c] EXCEPT !.pc = pc]
<1> DEFINE r == IF pc = "idle" THEN Idle ELSE [call[c] EXCEPT !.pc = pc]
<1>1. Shaped(r)
  <2>1. Shaped([call[c] EXCEPT !.pc = pc])
    BY DEF CallShape, Shaped
  <2>2. QED BY <2>1, IdleShaped
<1>2. call' = [call EXCEPT ![c] = r]
  BY DEF Goto
<1> HIDE DEF r
<1>3. CallShape' /\ call'[c] = r /\ Others(c)
  BY <1>1, <1>2, OneCall
<1>4. QED BY <1>3 DEF r

LEMMA BeginOne ==
  ASSUME CallShape, NEW c \in Call, NEW k, NEW pc, NEW chain, NEW at, Begin(c, k, pc, chain, at)
  PROVE  /\ CallShape' /\ Others(c) /\ call[c].pc = "idle" /\ k \in Kinds
         /\ call'[c] = NewCall(k, pc, chain, at)
<1>1. Shaped(NewCall(k, pc, chain, at))
  BY DEF Shaped, NewCall
<1>2. call' = [call EXCEPT ![c] = NewCall(k, pc, chain, at)] /\ call[c].pc = "idle" /\ k \in Kinds
  BY DEF Begin
<1>3. QED BY <1>1, <1>2, OneCall
-----------------------------------------------------------------------------
(* No session is left looking busy.  A deleted session has no status to    *)
(* set, which is why the invariant knows what deletion leaves.             *)
Busy == {"Merging", "Pushing"}

WorksOn(c, s) == call[c].pc \in {"git", "settle"} /\ Current(c) = s

BusyInv == /\ CallShape
           /\ live \subseteq Session
           /\ status = [s \in Session |-> status[s]]
           /\ \A s \in Session \ live : status[s] = "gone"
           /\ BusyIsOwned

(* Who works on what is all that BusyIsOwned needs of a step of c.         *)
LEMMA StillOwned ==
  ASSUME BusyIsOwned, NEW c \in Call, Others(c),
         \A s \in Session : status'[s] \in Busy =>
           (status[s] \in Busy /\ (WorksOn(c, s) => WorksOn(c, s)')) \/ WorksOn(c, s)'
  PROVE  BusyIsOwned'
<1> SUFFICES ASSUME NEW s \in Session, status'[s] \in Busy
             PROVE  \E d \in Call : WorksOn(d, s)'
  BY DEF BusyIsOwned, WorksOn, Busy
<1>1. CASE WorksOn(c, s)'
  BY <1>1
<1>2. CASE status[s] \in Busy /\ ~WorksOn(c, s)
  <2>1. PICK d \in Call : WorksOn(d, s)
    BY <1>2 DEF BusyIsOwned, WorksOn, Busy
  <2>2. call'[d] = call[d]
    BY <1>2, <2>1 DEF Others
  <2>3. WorksOn(d, s)'
    BY <2>1, <2>2 DEF WorksOn, Current
  <2>4. QED BY <2>3
<1>3. QED BY <1>1, <1>2

LEMMA BusyInit == CascadeInit => BusyInv
<1> SUFFICES ASSUME CascadeInit PROVE BusyInv
  OBVIOUS
<1>1. CallShape
  BY IdleShaped DEF CascadeInit, CallShape
<1>2. QED BY <1>1 DEF CascadeInit, BusyInv, BusyIsOwned

(* A step of c outside git that leaves every status alone.                 *)
LEMMA BusyQuietStep ==
  ASSUME BusyInv, NEW c \in Call, Others(c), CallShape', call[c].pc \notin {"git", "settle"},
         UNCHANGED <<live, status>>
  PROVE  BusyInv'
<1>1. BusyIsOwned'
  BY StillOwned DEF BusyInv, WorksOn
<1>2. QED BY <1>1 DEF BusyInv

(* Set touches a session that is there.                                    *)
LEMMA SetStatus ==
  ASSUME BusyInv, NEW s, NEW st, Set(s, st), UNCHANGED live
  PROVE  /\ status' = [t \in Session |-> status'[t]]
         /\ \A t \in Session \ live : status'[t] = "gone"
         /\ \A t \in Session : t # s => status'[t] = status[t]
         /\ s \in Session => status'[s] \in {st, "gone"}
BY DEF BusyInv, Set

LEMMA BusyStep == BusyInv /\ [CascadeNext]_cascadeVars => BusyInv'
<1> SUFFICES ASSUME BusyInv, [CascadeNext]_cascadeVars PROVE BusyInv'
  OBVIOUS
<1>0. CallShape /\ BusyIsOwned
  BY DEF BusyInv
<1>1. ASSUME NEW c \in Call, Unpause(c) PROVE BusyInv'
  <2>1. PICK k, pc, chain, at : Begin(c, k, pc, chain, at)
    BY <1>1 DEF Unpause
  <2>2. UNCHANGED <<live, status>>
    BY <1>1 DEF Unpause, topology
  <2>3. QED BY <1>0, <2>1, <2>2, BeginOne, BusyQuietStep
<1>2. ASSUME NEW c \in Call, NEW s \in Session, Plan(c, s) PROVE BusyInv'
  <2>1. PICK k, pc, chain, at : Begin(c, k, pc, chain, at)
    BY <1>2 DEF Plan
  <2>2. UNCHANGED <<live, status>>
    BY <1>2 DEF Plan, topology
  <2>3. QED BY <1>0, <2>1, <2>2, BeginOne, BusyQuietStep
<1>3. ASSUME NEW c \in Call, Preflight(c) PROVE BusyInv'
  <2>1. PICK pc : Goto(c, pc)
    BY <1>3 DEF Preflight
  <2>2. UNCHANGED <<live, status>> /\ call[c].pc = "preflight"
    BY <1>3 DEF Preflight, topology
  <2>3. QED BY <1>0, <2>1, <2>2, GotoOne, BusyQuietStep
<1>4. ASSUME NEW c \in Call, CheckMerge(c) \/ ClearPaused(c) \/ MarkPaused(c) \/ Return(c)
      PROVE BusyInv'
  <2>1. PICK pc : Goto(c, pc)
    BY <1>4 DEF CheckMerge, ClearPaused, MarkPaused, Return
  <2>2. UNCHANGED <<live, status>> /\ call[c].pc \notin {"git", "settle"}
    BY <1>4 DEF CheckMerge, ClearPaused, MarkPaused, Return, At, topology
  <2>3. QED BY <1>0, <2>1, <2>2, GotoOne, BusyQuietStep
<1>5. ASSUME NEW c \in Call, Fetch(c) PROVE BusyInv'
  <2> DEFINE pc == IF call[c].kind = "cascade" THEN "preflight"
                   ELSE IF call[c].i = Len(call[c].chain) THEN "complete" ELSE "mark"
             r == [[call[c] EXCEPT !.pc = pc] EXCEPT !.goal = fetched']
  <2>1. call' = [call EXCEPT ![c] = r]
    BY <1>5 DEF Fetch
  <2>2. Shaped(r)
    BY <1>0 DEF Shaped, CallShape
  <2>3. UNCHANGED <<live, status>> /\ call[c].pc = "fetch"
    BY <1>5 DEF Fetch, topology
  <2> HIDE DEF r
  <2>4. QED BY <1>0, <2>1, <2>2, <2>3, OneCall, BusyQuietStep
<1>6. ASSUME NEW c \in Call, Rewalk(c) PROVE BusyInv'
  <2>1. UNCHANGED <<live, status>> /\ call[c].pc = "walk"
    BY <1>6 DEF Rewalk, At, topology
  <2>2. PICK chain, i :
          call' = [call EXCEPT ![c] = Idle] \/
          call' = [call EXCEPT ![c] = [@ EXCEPT !.pc = "preflight", !.chain = chain, !.i = i]]
    BY <1>6 DEF Rewalk
  <2> DEFINE r == [call[c] EXCEPT !.pc = "preflight", !.chain = chain, !.i = i]
  <2>3. Shaped(r)
    BY <1>0 DEF Shaped, CallShape
  <2>4. call' = [call EXCEPT ![c] = Idle] \/ call' = [call EXCEPT ![c] = r]
    BY <2>2
  <2> HIDE DEF r
  <2>5. CallShape' /\ Others(c)
    BY <1>0, <2>3, <2>4, OneCall, IdleShaped
  <2>6. QED BY <2>1, <2>5, BusyQuietStep
<1>7. ASSUME NEW c \in Call, Mark(c) PROVE BusyInv'
  <2>1. PICK st : Set(Current(c), st)
    BY <1>7 DEF Mark
  <2>2. UNCHANGED live /\ call[c].pc = "mark" /\ Goto(c, "git")
    BY <1>7 DEF Mark, topology
  <2>3. CallShape' /\ Others(c) /\ call'[c] = [call[c] EXCEPT !.pc = "git"]
    BY <1>0, <2>2, GotoOne
  <2>4. \A s \in Session : s = Current(c) => WorksOn(c, s)'
    <3>1. call'[c].pc = "git" /\ call'[c].chain = call[c].chain /\ call'[c].i = call[c].i
      BY <1>0, <2>3 DEF CallShape, Shaped
    <3>2. QED BY <3>1 DEF WorksOn, Current
  <2>5. /\ status' = [t \in Session |-> status'[t]]
        /\ \A t \in Session \ live : status'[t] = "gone"
        /\ \A t \in Session : t # Current(c) => status'[t] = status[t]
    BY <2>1, <2>2, SetStatus
  <2>6. \A s \in Session : WorksOn(c, s) => WorksOn(c, s)'
    BY <2>2 DEF WorksOn
  <2>7. BusyIsOwned'
    BY <1>0, <2>3, <2>4, <2>5, <2>6, StillOwned
  <2>8. QED BY <2>2, <2>3, <2>5, <2>7 DEF BusyInv
<1>8. ASSUME NEW c \in Call, GitMerge(c) \/ GitPush(c) PROVE BusyInv'
  <2>1. UNCHANGED <<live, status>>
    BY <1>8 DEF GitMerge, GitPush, topology
  <2> DEFINE Kept(x) == Shaped(x) /\ x.pc = "settle" /\ x.chain = call[c].chain /\ x.i = call[c].i
             merged(result) == [call[c] EXCEPT !.pc = "settle", !.outcome = result]
             pushed(sent) == [call[c] EXCEPT !.pc = "settle", !.outcome = "clean", !.sent = sent]
  <2>2. ASSUME NEW e PROVE Kept(merged(e)) /\ Kept(pushed(e))
    BY <1>0 DEF CallShape, Shaped
  <2>3. \E e : \/ call' = [call EXCEPT ![c] = merged(e)]
               \/ call' = [call EXCEPT ![c] = pushed(e)]
    BY <1>8 DEF GitMerge, GitPush, After
  <2>4. PICK x : Kept(x) /\ call' = [call EXCEPT ![c] = x]
    <3> HIDE DEF Kept, merged, pushed
    <3>1. QED BY <2>2, <2>3
  <2>5. CallShape' /\ Others(c) /\ call'[c] = x
    BY <1>0, <2>4, OneCall
  <2>6. \A s \in Session : WorksOn(c, s) => WorksOn(c, s)'
    BY <2>4, <2>5 DEF WorksOn, Current
  <2>7. BusyIsOwned'
    BY <1>0, <2>1, <2>5, <2>6, StillOwned
  <2>8. QED BY <2>1, <2>5, <2>7 DEF BusyInv
<1>9. ASSUME NEW c \in Call, Settle(c) PROVE BusyInv'
  <2>1. PICK st : Set(Current(c), st) /\ st \notin Busy
    BY <1>9 DEF Settle, Busy
  <2>2. UNCHANGED live
    BY <1>9 DEF Settle, topology
  <2> DEFINE q == [call[c] EXCEPT !.pc = "pause", !.outcome = "clean"]
             r == Advance(c)
  <2>3. Shaped(q) /\ Shaped(r)
    BY <1>0 DEF CallShape, Shaped, Advance
  <2>4. \E x \in {Idle, q, r} : call' = [call EXCEPT ![c] = x]
    BY <1>9 DEF Settle
  <2> HIDE DEF q, r
  <2>5. CallShape' /\ Others(c)
    BY <1>0, <2>3, <2>4, OneCall, IdleShaped
  <2>6. /\ status' = [t \in Session |-> status'[t]]
        /\ \A t \in Session \ live : status'[t] = "gone"
        /\ \A t \in Session : t # Current(c) => status'[t] = status[t]
        /\ \A t \in Session : t = Current(c) => status'[t] \in {st, "gone"}
    BY <2>1, <2>2, SetStatus
  <2>7. BusyIsOwned'
    BY <1>0, <2>1, <2>5, <2>6, StillOwned DEF WorksOn, Busy
  <2>8. QED BY <2>2, <2>5, <2>6, <2>7 DEF BusyInv
<1>10. ASSUME NEW c \in Call, MarkUnpaused(c) PROVE BusyInv'
  <2>1. UNCHANGED live /\ Set(call[c].at, "Running") /\ Goto(c, "clear") /\ call[c].pc = "running"
    BY <1>10 DEF MarkUnpaused, topology
  <2>2. CallShape' /\ Others(c)
    BY <1>0, <2>1, GotoOne
  <2>3. /\ status' = [t \in Session |-> status'[t]]
        /\ \A t \in Session \ live : status'[t] = "gone"
        /\ \A t \in Session : status'[t] \in {status[t], "Running", "gone"}
    BY <2>1, SetStatus
  <2>4. BusyIsOwned'
    BY <1>0, <2>1, <2>2, <2>3, StillOwned DEF WorksOn, Busy
  <2>5. QED BY <2>1, <2>2, <2>3, <2>4 DEF BusyInv
<1>11. ASSUME NEW s \in Session, MarkBySession(s) PROVE BusyInv'
  <2>1. UNCHANGED <<live, call>> /\ Set(s, "Running")
    BY <1>11 DEF MarkBySession, topology
  <2>2. /\ status' = [t \in Session |-> status'[t]]
        /\ \A t \in Session \ live : status'[t] = "gone"
        /\ \A t \in Session : status'[t] \in {status[t], "Running", "gone"}
    BY <2>1, SetStatus
  <2>3. QED BY <2>1, <2>2 DEF BusyInv, BusyIsOwned, Current, CallShape
<1>12. ASSUME NEW s \in Session, DeleteSession(s) PROVE BusyInv'
  <2>1. live' = live \ {s} /\ call' = call /\ status' = [status EXCEPT ![s] = "gone"]
    BY <1>12 DEF DeleteSession, Delete
  <2>2. QED BY <2>1 DEF BusyInv, BusyIsOwned, Current, CallShape
<1>13. ASSUME Restart PROVE BusyInv'
  <2>1. /\ live' = live /\ call' = [c \in Call |-> Idle]
        /\ status' = [s \in Session |-> IF status[s] \in Stale THEN "Running" ELSE status[s]]
    BY <1>13 DEF Restart, topology
  <2>2. CallShape'
    BY <2>1, IdleShaped DEF CallShape
  <2>3. BusyIsOwned'
    BY <2>1 DEF BusyIsOwned, Stale
  <2>4. QED BY <2>1, <2>2, <2>3 DEF BusyInv, Stale
<1>14. ASSUME \/ \E s \in Session : ConcludeMerge(s)
              \/ MainMoves
              \/ UNCHANGED cascadeVars
       PROVE  BusyInv'
  <2>1. UNCHANGED <<live, status, call>>
    BY <1>14 DEF ConcludeMerge, MainMoves, cascadeVars, cascade, topology
  <2>2. QED BY <2>1 DEF BusyInv, BusyIsOwned, Current, CallShape
<1>15. QED
  BY <1>1, <1>2, <1>3, <1>4, <1>5, <1>6, <1>7, <1>8, <1>9, <1>10, <1>11, <1>12, <1>13, <1>14
     DEF CascadeNext

(* However many cascades, pushes, resumes, deletions and crashes overlap,  *)
(* a session that looks busy has a call that will settle it.               *)
THEOREM NobodyLeftBusy == CascadeSpec => []BusyIsOwned
<1>1. BusyInv => BusyIsOwned
  BY DEF BusyInv
<1>2. QED BY <1>1, BusyInit, BusyStep, PTL DEF CascadeSpec
-----------------------------------------------------------------------------
(* A cascade that reports success has merged.  Branches only ever gain, so *)
(* what a cascade has carried into a session stays there whatever the      *)
(* other calls and the users do; what is left is one merge per session.    *)
Branches == [main : Nat, work : SUBSET Session]

LEMMA MergedGains ==
  ASSUME NEW a \in Branches, NEW b \in Branches
  PROVE  /\ Merged(a, b) \in Branches
         /\ Contains(Merged(a, b), a)
         /\ Contains(Merged(a, b), b)
BY DEF Merged, Contains, Branches

(* The k-th session of the chain has main and the work of those below.     *)
Reached(c, k) ==
  /\ call[c].chain[k] \in Session
  /\ call[c].goal <= holds[call[c].chain[k]].main
  /\ \A j \in 1..k : call[c].chain[j] \in holds[call[c].chain[k]].work

Done(c) == call[c].pc = "settle" /\ call[c].outcome \notin {"error", "conflict"}

CascadeInv(c) ==
  call[c].kind = "cascade" =>
    /\ call[c].i \in Nat
    /\ \A k \in 1..call[c].i : Reached(c, k)
    /\ Done(c) => Reached(c, call[c].i + 1)
    /\ call[c].pc = "fetch" => call[c].i = 0
    /\ call[c].pc = "complete" => call[c].i = Len(call[c].chain)

ResumeInv(c) ==
  /\ call[c].kind = "resume" /\ call[c].pc \in {"preflight", "fetch", "mark", "git", "settle"}
     => call[c].i \in Nat \ {0} /\ call[c].chain[call[c].i] \in Session
  /\ Done(c) => Current(c) \in Session

CallInv(c) == /\ call[c].goal \in Nat /\ call[c].goal <= fetched
              /\ CascadeInv(c) /\ ResumeInv(c)

BranchInv == /\ holds \in [Session -> Branches] /\ mergeHead \in [Session -> Branches]
             /\ \A s \in Session : s \in holds[s].work
             /\ origin \in Nat /\ fetched \in 0..origin

MergeInv == CallShape /\ live \subseteq Session /\ BranchInv /\ \A c \in Call : CallInv(c)

Gains == /\ \A s \in Session : Contains(holds'[s], holds[s])
         /\ fetched <= fetched'

LEMMA ReachedKept ==
  ASSUME BranchInv, BranchInv', Gains, NEW d \in Call, NEW k \in Nat, Reached(d, k),
         call[d].goal \in Nat, call'[d].chain = call[d].chain, call'[d].goal = call[d].goal
  PROVE  Reached(d, k)'
<1> DEFINE s == call[d].chain[k]
<1>1. s \in Session
  BY DEF Reached
<1>2. holds[s].main \in Nat /\ holds'[s].main \in Nat
  BY <1>1 DEF BranchInv, Branches
<1>3. holds[s].main <= holds'[s].main /\ holds[s].work \subseteq holds'[s].work
  BY <1>1 DEF Gains, Contains
<1>4. QED BY <1>1, <1>2, <1>3 DEF Reached

LEMMA OtherCallKept ==
  ASSUME BranchInv, BranchInv', Gains, NEW d \in Call, CallInv(d), call'[d] = call[d]
  PROVE  CallInv(d)'
<1>1. \A k \in Nat : Reached(d, k) => Reached(d, k)'
  BY ReachedKept DEF CallInv
<1>2. CascadeInv(d)'
  BY <1>1 DEF CallInv, CascadeInv, Done
<1>3. ResumeInv(d)'
  BY DEF CallInv, ResumeInv, Done, Current
<1>4. QED BY <1>2, <1>3 DEF CallInv, BranchInv, Gains

LEMMA MergeInit == CascadeInit => MergeInv
<1> SUFFICES ASSUME CascadeInit PROVE MergeInv
  OBVIOUS
<1>1. CallShape
  BY IdleShaped DEF CascadeInit, CallShape
<1>2. BranchInv
  BY DEF CascadeInit, BranchInv, Branches, NoMerge
<1>3. \A c \in Call : CallInv(c)
  BY DEF CascadeInit, CallInv, CascadeInv, ResumeInv, Done, Idle, NewCall
<1>4. QED BY <1>1, <1>2, <1>3 DEF CascadeInit, MergeInv

(* A step of c that leaves the branches alone.                             *)
LEMMA MergeCallStep ==
  ASSUME MergeInv, NEW c \in Call, Others(c), CallShape', CallInv(c)',
         live' \subseteq Session, UNCHANGED <<holds, mergeHead, origin, fetched>>
  PROVE  MergeInv'
<1>1. BranchInv' /\ BranchInv /\ Gains
  BY DEF MergeInv, BranchInv, Gains, Contains, Branches
<1>2. \A d \in Call \ {c} : CallInv(d)'
  BY <1>1, OtherCallKept DEF MergeInv, Others
<1>3. QED BY <1>1, <1>2 DEF MergeInv

(* A step of nobody's that only adds to the branches.                      *)
LEMMA MergeOutsideStep ==
  ASSUME MergeInv, BranchInv', Gains, live' \subseteq Session, call' = call
  PROVE  MergeInv'
<1>1. CallShape'
  BY DEF MergeInv, CallShape
<1>2. \A d \in Call : CallInv(d)'
  BY OtherCallKept DEF MergeInv
<1>3. QED BY <1>1, <1>2 DEF MergeInv

(* A call that ends, or begins, has nothing to show yet.                   *)
LEMMA NothingToShow ==
  ASSUME NEW c \in Call, BranchInv', call'[c].goal = 0,
         call'[c].i = 0, call'[c].pc \notin {"settle", "complete"},
         call'[c].kind = "resume" => call'[c].pc = "check"
  PROVE  CallInv(c)'
BY DEF CallInv, CascadeInv, ResumeInv, Done, BranchInv

(* A step to another place, with the same stretch of the chain behind it.  *)
LEMMA MovedOn ==
  ASSUME MergeInv, NEW c \in Call, NEW pc, UNCHANGED <<holds, fetched>>,
         call'[c] = [call[c] EXCEPT !.pc = pc],
         pc \notin {"fetch", "settle", "complete"},
         call[c].kind = "resume" => \/ pc \notin {"preflight", "mark", "git"}
                                    \/ call[c].pc \in {"preflight", "mark", "git"}
  PROVE  CallInv(c)'
<1>1. /\ call'[c].kind = call[c].kind /\ call'[c].chain = call[c].chain
      /\ call'[c].i = call[c].i /\ call'[c].goal = call[c].goal /\ call'[c].pc = pc
  BY DEF MergeInv, CallShape, Shaped
<1>2. CallInv(c)
  BY DEF MergeInv
<1>3. QED BY <1>1, <1>2 DEF CallInv, CascadeInv, ResumeInv, Done, Reached

LEMMA WholeMin ==
  ASSUME NEW S \in SUBSET Nat, S # {}
  PROVE  Min(S) \in S
BY LeastNat DEF Min

(* What the step to git brings in is a branch, and has all it should.      *)
LEMMA UpstreamHas ==
  ASSUME MergeInv, NEW c \in Call, At(c, {"cascade", "resume"}, "git")
  PROVE  /\ Upstream(c) \in Branches
         /\ call[c].kind = "cascade" =>
              /\ call[c].goal <= Upstream(c).main
              /\ \A j \in 1..call[c].i : call[c].chain[j] \in Upstream(c).work
<1> DEFINE i == call[c].i
           below == call[c].chain[i]
<1>1. CallInv(c) /\ BranchInv
  BY DEF MergeInv
<1>2. CASE call[c].kind = "cascade" /\ i = 0
  BY <1>1, <1>2 DEF Upstream, CallInv, BranchInv, Branches
<1>3. CASE call[c].kind = "cascade" /\ i # 0
  <2>1. i \in 1..i /\ Reached(c, i)
    BY <1>1, <1>3 DEF CallInv, CascadeInv
  <2>2. Upstream(c) = holds[below]
    BY <1>3 DEF Upstream
  <2>3. QED BY <1>1, <2>1, <2>2 DEF Reached, BranchInv
<1>4. CASE call[c].kind = "resume"
  <2>1. below \in Session
    BY <1>1, <1>4 DEF CallInv, ResumeInv, At
  <2>2. QED BY <1>1, <1>4, <2>1 DEF Upstream, BranchInv, Branches
<1>5. QED BY <1>2, <1>3, <1>4 DEF At

LEMMA MergeGoto ==
  ASSUME MergeInv, NEW c \in Call, NEW pc, Goto(c, pc),
         live' \subseteq Session, UNCHANGED <<holds, mergeHead, origin, fetched>>,
         pc # "idle" =>
           /\ pc \notin {"fetch", "settle", "complete"}
           /\ call[c].kind = "resume" => \/ pc \notin {"preflight", "mark", "git"}
                                         \/ call[c].pc \in {"preflight", "mark", "git"}
  PROVE  MergeInv'
<1>1. /\ CallShape' /\ Others(c)
      /\ call'[c] = IF pc = "idle" THEN Idle ELSE [call[c] EXCEPT !.pc = pc]
  BY GotoOne DEF MergeInv
<1>2. BranchInv'
  BY DEF MergeInv, BranchInv
<1>3. CASE pc = "idle"
  <2>1. CallInv(c)'
    BY <1>1, <1>2, <1>3, NothingToShow DEF Idle, NewCall
  <2>2. QED BY <1>1, <2>1, MergeCallStep
<1>4. CASE pc # "idle"
  <2>1. CallInv(c)'
    BY <1>1, <1>4, MovedOn
  <2>2. QED BY <1>1, <2>1, MergeCallStep
<1>5. QED BY <1>3, <1>4

LEMMA MergeBegin ==
  ASSUME MergeInv, NEW c \in Call, NEW k, NEW pc, NEW chain, NEW at, Begin(c, k, pc, chain, at),
         live' \subseteq Session, UNCHANGED <<holds, mergeHead, origin, fetched>>,
         pc \notin {"settle", "complete"}, k = "resume" => pc = "check"
  PROVE  MergeInv'
<1>1. CallShape' /\ Others(c) /\ call'[c] = NewCall(k, pc, chain, at)
  BY BeginOne DEF MergeInv
<1>2. BranchInv'
  BY DEF MergeInv, BranchInv
<1>3. CallInv(c)'
  BY <1>1, <1>2, NothingToShow DEF NewCall
<1>4. QED BY <1>1, <1>3, MergeCallStep

(* The steps that plan, wait, mark, pause and resume.                      *)
LEMMA MergeControl ==
  ASSUME MergeInv, NEW c \in Call,
         \/ Unpause(c)     \/ \E s \in Session : Plan(c, s)
         \/ Preflight(c)   \/ Mark(c)         \/ MarkPaused(c) \/ Return(c)
         \/ CheckMerge(c)  \/ MarkUnpaused(c) \/ ClearPaused(c)
  PROVE  MergeInv'
<1>0. live' \subseteq Session /\ UNCHANGED <<holds, mergeHead, origin, fetched>>
  BY DEF MergeInv, Unpause, Plan, Preflight, Mark, MarkPaused, Return, CheckMerge, MarkUnpaused,
         ClearPaused, topology
<1>1. CASE Unpause(c)
  BY <1>0, <1>1, MergeBegin DEF Unpause
<1>2. CASE \E s \in Session : Plan(c, s)
  BY <1>0, <1>2, MergeBegin DEF Plan
<1>3. CASE Preflight(c)
  <2>1. CASE Goto(c, "idle")
    BY <1>0, <2>1, MergeGoto
  <2>2. CASE call[c].kind # "resume" /\ Goto(c, "mark")
    BY <1>0, <2>2, MergeGoto
  <2>3. CASE call[c].kind = "resume" /\ Goto(c, "fetch")
    <3>1. CallShape' /\ Others(c) /\ call'[c] = [call[c] EXCEPT !.pc = "fetch"]
      BY <2>3, GotoOne DEF MergeInv
    <3>2. /\ call'[c].kind = "resume" /\ call'[c].chain = call[c].chain
          /\ call'[c].i = call[c].i /\ call'[c].goal = call[c].goal /\ call'[c].pc = "fetch"
      BY <2>3, <3>1 DEF MergeInv, CallShape, Shaped
    <3>3. CallInv(c) /\ call[c].pc = "preflight"
      BY <1>3 DEF MergeInv, Preflight
    <3>4. CallInv(c)'
      BY <1>0, <2>3, <3>2, <3>3 DEF CallInv, CascadeInv, ResumeInv, Done
    <3>5. QED BY <1>0, <3>1, <3>4, MergeCallStep
  <2>4. QED BY <1>3, <2>1, <2>2, <2>3 DEF Preflight
<1>4. CASE Mark(c)
  BY <1>0, <1>4, MergeGoto DEF Mark
<1>5. CASE MarkPaused(c) \/ Return(c)
  BY <1>0, <1>5, MergeGoto DEF MarkPaused, Return
<1>6. CASE CheckMerge(c)
  BY <1>0, <1>6, MergeGoto DEF CheckMerge
<1>7. CASE MarkUnpaused(c)
  BY <1>0, <1>7, MergeGoto DEF MarkUnpaused
<1>8. CASE ClearPaused(c)
  BY <1>0, <1>8, MergeGoto DEF ClearPaused
<1>9. QED BY <1>1, <1>2, <1>3, <1>4, <1>5, <1>6, <1>7, <1>8

LEMMA MergeFetch == ASSUME MergeInv, NEW c \in Call, Fetch(c) PROVE MergeInv'
<1> DEFINE pc == IF call[c].kind = "cascade" THEN "preflight"
                 ELSE IF call[c].i = Len(call[c].chain) THEN "complete" ELSE "mark"
           r == [call[c] EXCEPT !.pc = pc, !.goal = fetched']
<1>0. CallShape /\ BranchInv /\ CallInv(c) /\ call[c].pc = "fetch"
  BY DEF MergeInv, Fetch
<1>1. live' \subseteq Session /\ UNCHANGED <<holds, mergeHead, origin>> /\ fetched' \in {fetched, origin}
  BY DEF MergeInv, Fetch, topology
<1>2. Gains /\ BranchInv'
  BY <1>0, <1>1 DEF BranchInv, Branches, Gains, Contains
<1>3. call' = [call EXCEPT ![c] = r]
  BY DEF Fetch
<1>4. /\ Shaped(r) /\ r.kind = call[c].kind /\ r.chain = call[c].chain
      /\ r.i = call[c].i /\ r.goal = fetched' /\ r.pc = pc
  BY <1>0 DEF CallShape, Shaped
<1>5. CallShape' /\ Others(c) /\ call'[c] = r
  <2> HIDE DEF r
  <2>1. QED BY <1>0, <1>3, <1>4, OneCall
<1>6. CallInv(c)'
  <2>1. CascadeInv(c)'
    <3> SUFFICES ASSUME call[c].kind = "cascade" PROVE CascadeInv(c)'
      BY <1>4, <1>5 DEF CascadeInv
    <3>1. call[c].i = 0
      BY <1>0 DEF CallInv, CascadeInv
    <3>2. call'[c].i = 0 /\ call'[c].pc = "preflight"
      BY <3>1, <1>4, <1>5
    <3>3. QED BY <3>2 DEF CascadeInv, Done
  <2>2. ResumeInv(c)'
    BY <1>0, <1>4, <1>5 DEF CallInv, ResumeInv, Done
  <2>3. QED BY <1>2, <1>4, <1>5, <2>1, <2>2 DEF CallInv, BranchInv
<1>7. \A d \in Call \ {c} : CallInv(d)'
  BY <1>0, <1>2, <1>5, OtherCallKept DEF MergeInv, Others
<1>8. QED BY <1>1, <1>2, <1>5, <1>6, <1>7 DEF MergeInv

(* A resume starts at the place of the paused session in the new chain.    *)
LEMMA MergeRewalk == ASSUME MergeInv, NEW c \in Call, Rewalk(c) PROVE MergeInv'
<1> DEFINE s == call[c].at
           chain == ChainFrom(StackBase(s))
           found == {k \in 1..Len(chain) : chain[k] = s}
           r == [call[c] EXCEPT !.pc = "preflight", !.chain = chain, !.i = Min(found)]
<1>0. CallShape /\ BranchInv /\ CallInv(c) /\ call[c].kind = "resume"
  BY DEF MergeInv, Rewalk, At
<1>1. live' \subseteq Session /\ UNCHANGED <<holds, mergeHead, origin, fetched>>
  BY DEF MergeInv, Rewalk, topology
<1>2. CASE call' = [call EXCEPT ![c] = Idle]
  <2>1. CallShape' /\ Others(c) /\ call'[c] = Idle
    BY <1>0, <1>2, IdleShaped, OneCall
  <2>2. CallInv(c)'
    BY <1>0, <1>1, <2>1, NothingToShow DEF Idle, NewCall, BranchInv
  <2>3. QED BY <1>1, <2>1, <2>2, MergeCallStep
<1>3. CASE s \in live /\ found # {} /\ call' = [call EXCEPT ![c] = r]
  <2>1. Min(found) \in found /\ found \subseteq Nat \ {0}
    <3>1. found \subseteq Nat \ {0}
      <4> HIDE DEF chain
      <4>1. QED OBVIOUS
    <3> HIDE DEF found
    <3>2. QED BY <1>3, <3>1, WholeMin
  <2>2. /\ Shaped(r) /\ r.kind = "resume" /\ r.chain = chain /\ r.i = Min(found)
        /\ r.pc = "preflight" /\ r.goal = call[c].goal
    <3> HIDE DEF chain, found
    <3>1. QED BY <1>0 DEF CallShape, Shaped
  <2>3. CallShape' /\ Others(c) /\ call'[c] = r
    <3> HIDE DEF r
    <3>1. QED BY <1>0, <1>3, <2>2, OneCall
  <2>4. chain[Min(found)] \in Session
    <3> HIDE DEF chain
    <3>1. QED BY <1>3, <2>1 DEF MergeInv
  <2>5. CallInv(c)'
    <3> HIDE DEF r, chain, found
    <3>1. /\ call'[c].kind = "resume" /\ call'[c].pc = "preflight" /\ call'[c].goal = call[c].goal
          /\ call'[c].i \in Nat \ {0} /\ call'[c].chain[call'[c].i] \in Session
      BY <2>1, <2>2, <2>3, <2>4
    <3>2. QED BY <1>0, <1>1, <3>1 DEF CallInv, CascadeInv, ResumeInv, Done
  <2>6. QED BY <1>1, <2>3, <2>5, MergeCallStep
<1>4. QED BY <1>2, <1>3 DEF Rewalk

LEMMA MergePush == ASSUME MergeInv, NEW c \in Call, GitPush(c) PROVE MergeInv'
<1> DEFINE Kept(x) == /\ Shaped(x) /\ x.kind = "push" /\ x.pc = "settle"
                      /\ x.chain = call[c].chain /\ x.i = call[c].i /\ x.goal = call[c].goal
           error == [call[c] EXCEPT !.pc = "settle", !.outcome = "error"]
           pushed(e) == [call[c] EXCEPT !.pc = "settle", !.outcome = "clean", !.sent = e]
<1>0. CallShape /\ BranchInv /\ CallInv(c) /\ call[c].kind = "push"
  BY DEF MergeInv, GitPush, At
<1>1. live' \subseteq Session /\ UNCHANGED <<holds, mergeHead, origin, fetched>>
  BY DEF MergeInv, GitPush, topology
<1>2. Kept(error) /\ error.outcome = "error" /\ \A e : Kept(pushed(e))
  BY <1>0 DEF CallShape, Shaped
<1>3. PICK x : /\ Kept(x) /\ call' = [call EXCEPT ![c] = x]
               /\ x.outcome = "error" \/ Current(c) \in Session
  <2>1. \/ call' = [call EXCEPT ![c] = error]
        \/ Current(c) \in live /\ \E e : call' = [call EXCEPT ![c] = pushed(e)]
    BY DEF GitPush, After
  <2> HIDE DEF Kept, error, pushed
  <2>2. QED BY <1>2, <2>1 DEF MergeInv
<1>4. CallShape' /\ Others(c) /\ call'[c] = x
  BY <1>0, <1>3, OneCall
<1>5. CallInv(c)'
  BY <1>0, <1>1, <1>3, <1>4 DEF CallInv, CascadeInv, ResumeInv, Done, Current
<1>6. QED BY <1>1, <1>4, <1>5, MergeCallStep

LEMMA MergeOutside ==
  ASSUME MergeInv,
         \/ \E s \in Session : ConcludeMerge(s) \/ MarkBySession(s) \/ DeleteSession(s)
         \/ MainMoves \/ UNCHANGED cascadeVars
  PROVE  MergeInv'
<1>0. BranchInv /\ live \subseteq Session
  BY DEF MergeInv
<1>1. ASSUME NEW s \in Session, ConcludeMerge(s) PROVE MergeInv'
  <2> DEFINE more == Merged(holds[s], mergeHead[s])
  <2>1. more \in Branches /\ Contains(more, holds[s])
    BY <1>0, MergedGains DEF BranchInv
  <2>2. holds' = holds \/ holds' = [holds EXCEPT ![s] = more]
    BY <1>1 DEF ConcludeMerge
  <2>3. mergeHead' \in [Session -> Branches]
    BY <1>0, <1>1 DEF ConcludeMerge, BranchInv, NoMerge, Branches
  <2>4. UNCHANGED <<live, origin, fetched, call>>
    BY <1>1 DEF ConcludeMerge, topology
  <2> HIDE DEF more
  <2>5. /\ holds' \in [Session -> Branches]
        /\ \A t \in Session : Contains(holds'[t], holds[t])
    <3>1. \A t \in Session : Contains(holds[t], holds[t])
      BY <1>0 DEF BranchInv, Branches, Contains
    <3>2. QED BY <1>0, <2>1, <2>2, <3>1 DEF BranchInv
  <2>6. BranchInv' /\ Gains
    BY <1>0, <2>3, <2>4, <2>5 DEF BranchInv, Gains, Contains
  <2>7. QED BY <1>0, <2>4, <2>6, MergeOutsideStep
<1>2. ASSUME NEW s \in Session, MarkBySession(s) \/ DeleteSession(s) PROVE MergeInv'
  <2>1. UNCHANGED <<holds, origin, fetched, call>> /\ live' \subseteq live
    BY <1>2 DEF MarkBySession, DeleteSession, Delete, topology
  <2>2. mergeHead' \in [Session -> Branches]
    BY <1>0, <1>2 DEF MarkBySession, DeleteSession, BranchInv, NoMerge, Branches
  <2>3. BranchInv' /\ Gains
    BY <1>0, <2>1, <2>2 DEF BranchInv, Gains, Contains, Branches
  <2>4. QED BY <1>0, <2>1, <2>3, MergeOutsideStep
<1>3. CASE MainMoves \/ UNCHANGED cascadeVars
  <2>1. /\ UNCHANGED <<live, holds, mergeHead, fetched, call>>
        /\ origin' \in {origin, origin + 1}
    BY <1>3 DEF MainMoves, cascadeVars, cascade, topology
  <2>2. BranchInv' /\ Gains
    BY <1>0, <2>1 DEF BranchInv, Gains, Contains, Branches
  <2>3. QED BY <1>0, <2>1, <2>2, MergeOutsideStep
<1>4. QED BY <1>1, <1>2, <1>3

LEMMA MergeRestart == ASSUME MergeInv, Restart PROVE MergeInv'
<1>1. /\ live' \subseteq Session /\ UNCHANGED <<holds, mergeHead, origin, fetched>>
      /\ call' = [c \in Call |-> Idle]
  BY DEF MergeInv, Restart, topology
<1>2. CallShape' /\ BranchInv'
  BY <1>1, IdleShaped DEF CallShape, BranchInv, MergeInv
<1>3. \A c \in Call : CallInv(c)'
  BY <1>1, <1>2, NothingToShow DEF Idle, NewCall
<1>4. QED BY <1>1, <1>2, <1>3 DEF MergeInv

(* Whatever git says, branches only gain; on success the session has what  *)
(* its upstream had, and what the upstream had is all of the stack below.  *)
LEMMA MergeGit == ASSUME MergeInv, NEW c \in Call, GitMerge(c) PROVE MergeInv'
<1> DEFINE s == Current(c)
           up == Upstream(c)
           i == call[c].i
           r(e) == [call[c] EXCEPT !.pc = "settle", !.outcome = e]
<1>0. CallShape /\ BranchInv /\ CallInv(c) /\ At(c, {"cascade", "resume"}, "git")
  BY DEF MergeInv, GitMerge
<1>1. live' \subseteq Session /\ UNCHANGED <<origin, fetched>>
  BY DEF MergeInv, GitMerge, topology
<1>2. \A e : /\ Shaped(r(e)) /\ r(e).kind = call[c].kind /\ r(e).chain = call[c].chain
             /\ r(e).i = i /\ r(e).goal = call[c].goal /\ r(e).pc = "settle" /\ r(e).outcome = e
  BY <1>0 DEF CallShape, Shaped
<1>3. \/ /\ UNCHANGED <<holds, mergeHead>>
         /\ \E e \in {"error", "conflict"} : call' = [call EXCEPT ![c] = r(e)]
      \/ /\ s \in live /\ holds' = [holds EXCEPT ![s] = Merged(holds[s], up)]
         /\ UNCHANGED mergeHead /\ call' = [call EXCEPT ![c] = r("clean")]
      \/ /\ s \in live /\ mergeHead' = [mergeHead EXCEPT ![s] = up]
         /\ UNCHANGED holds /\ call' = [call EXCEPT ![c] = r("conflict")]
  BY DEF GitMerge, After
<1> HIDE DEF r
<1>4. up \in Branches
  BY <1>0, UpstreamHas
<1>5. /\ holds' \in [Session -> Branches] /\ mergeHead' \in [Session -> Branches]
      /\ \A t \in Session : Contains(holds'[t], holds[t])
  <2>1. \A t \in Session : Contains(holds[t], holds[t])
    BY <1>0 DEF BranchInv, Branches, Contains
  <2>2. CASE UNCHANGED holds
    BY <1>0, <1>3, <1>4, <2>1, <2>2 DEF BranchInv
  <2>3. CASE s \in live /\ holds' = [holds EXCEPT ![s] = Merged(holds[s], up)] /\ UNCHANGED mergeHead
    <3>1. s \in Session /\ holds[s] \in Branches
      BY <1>0, <2>3 DEF MergeInv, BranchInv
    <3>2. Merged(holds[s], up) \in Branches /\ Contains(Merged(holds[s], up), holds[s])
      BY <1>4, <3>1, MergedGains
    <3>3. QED BY <1>0, <2>1, <2>3, <3>1, <3>2 DEF BranchInv
  <2>4. QED BY <1>3, <2>2, <2>3
<1>6. BranchInv' /\ Gains
  BY <1>0, <1>1, <1>5 DEF BranchInv, Gains, Contains
<1>7. PICK e : /\ call' = [call EXCEPT ![c] = r(e)]
               /\ \/ e \in {"error", "conflict"}
                  \/ e = "clean" /\ s \in live /\ holds'[s] = Merged(holds[s], up)
  BY <1>0, <1>3 DEF MergeInv, BranchInv
<1>8. CallShape' /\ Others(c) /\ call'[c] = r(e)
  BY <1>0, <1>2, <1>7, OneCall
<1>9. \A d \in Call \ {c} : CallInv(d)'
  BY <1>0, <1>6, <1>8, OtherCallKept DEF MergeInv, Others
<1>10. CascadeInv(c)'
  <2> SUFFICES ASSUME call[c].kind = "cascade" PROVE CascadeInv(c)'
    BY <1>2, <1>8 DEF CascadeInv
  <2>1. i \in Nat /\ \A k \in 1..i : Reached(c, k)
    BY <1>0 DEF CallInv, CascadeInv
  <2>2. \A k \in 1..i : Reached(c, k)'
    BY <1>0, <1>2, <1>6, <1>8, <2>1, ReachedKept DEF CallInv
  <2>3. ASSUME e = "clean", s \in Session, holds'[s] = Merged(holds[s], up)
        PROVE  Reached(c, i + 1)'
    <3>1. /\ Contains(holds'[s], holds[s]) /\ Contains(holds'[s], up) /\ holds'[s].main \in Nat
          /\ up.main \in Nat
      BY <1>0, <1>4, <1>5, <2>3, MergedGains DEF BranchInv, Branches
    <3>2. /\ call[c].goal \in Nat /\ call[c].goal <= up.main
          /\ \A j \in 1..i : call[c].chain[j] \in up.work
      BY <1>0, UpstreamHas DEF CallInv
    <3>3. call[c].goal <= holds'[s].main
      BY <3>1, <3>2 DEF Contains
    <3>4. \A j \in 1..i + 1 : call[c].chain[j] \in holds'[s].work
      <4>1. call[c].chain[i + 1] \in holds[s].work
        BY <1>0, <2>3 DEF BranchInv, Current
      <4>2. \A j \in 1..i + 1 : j \in 1..i \/ j = i + 1
        BY <2>1
      <4>3. QED BY <3>1, <3>2, <4>1, <4>2 DEF Contains
    <3>5. /\ call'[c].goal = call[c].goal /\ call'[c].chain = call[c].chain
          /\ call'[c].i = i
      BY <1>2, <1>8, SMTT(30)
    <3>6. s = call'[c].chain[i + 1]
      BY <3>5, SMTT(30) DEF Current
    <3> HIDE DEF s, up
    <3>7. QED BY <2>3, <3>3, <3>4, <3>5, <3>6, ZenonT(40) DEF Reached
  <2>4. Done(c)' => e = "clean" /\ s \in Session /\ holds'[s] = Merged(holds[s], up)
    BY <1>2, <1>7, <1>8 DEF Done, MergeInv
  <2>5. QED BY <1>2, <1>8, <2>1, <2>2, <2>3, <2>4 DEF CascadeInv
<1>11. ResumeInv(c)'
  <2>1. Done(c)' => s \in Session
    BY <1>2, <1>7, <1>8 DEF Done, MergeInv
  <2>2. Current(c)' = s
    BY <1>2, <1>8 DEF Current
  <2>3. QED BY <1>0, <1>2, <1>8, <2>1, <2>2 DEF CallInv, ResumeInv, At
<1>12. CallInv(c)'
  BY <1>0, <1>1, <1>2, <1>8, <1>10, <1>11 DEF CallInv
<1>13. QED BY <1>1, <1>6, <1>8, <1>9, <1>12 DEF MergeInv

LEMMA MergeSettle == ASSUME MergeInv, NEW c \in Call, Settle(c) PROVE MergeInv'
<1> DEFINE pause == [call[c] EXCEPT !.pc = "pause", !.outcome = "clean"]
           i == call[c].i
<1>0. CallShape /\ BranchInv /\ CallInv(c) /\ call[c].pc = "settle"
  BY DEF MergeInv, Settle
<1>1. live' \subseteq Session /\ UNCHANGED <<holds, mergeHead, origin, fetched>>
  BY DEF MergeInv, Settle, topology
<1>2. BranchInv' /\ BranchInv
  BY <1>0, <1>1 DEF BranchInv
<1>3. CASE call' = [call EXCEPT ![c] = Idle]
  <2>1. CallShape' /\ Others(c) /\ call'[c] = Idle
    BY <1>0, <1>3, IdleShaped, OneCall
  <2>2. CallInv(c)'
    BY <1>2, <2>1, NothingToShow DEF Idle, NewCall
  <2>3. QED BY <1>1, <2>1, <2>2, MergeCallStep
<1>4. CASE call' = [call EXCEPT ![c] = pause]
  <2>1. /\ Shaped(pause) /\ pause.kind = call[c].kind /\ pause.chain = call[c].chain
        /\ pause.i = i /\ pause.goal = call[c].goal /\ pause.pc = "pause"
    BY <1>0 DEF CallShape, Shaped
  <2> HIDE DEF pause
  <2>2. CallShape' /\ Others(c) /\ call'[c] = pause
    BY <1>0, <1>4, <2>1, OneCall
  <2>3. CallInv(c)'
    BY <1>0, <1>1, <2>1, <2>2 DEF CallInv, CascadeInv, ResumeInv, Done, Reached
  <2>4. QED BY <1>1, <2>2, <2>3, MergeCallStep
<1>5. CASE Done(c) /\ call' = [call EXCEPT ![c] = Advance(c)]
  <2> DEFINE r == Advance(c)
  <2>1. /\ Shaped(r) /\ r.kind = call[c].kind /\ r.chain = call[c].chain
        /\ r.i = i + 1 /\ r.goal = call[c].goal
        /\ r.pc = IF i + 1 = Len(call[c].chain) THEN "complete" ELSE "mark"
    BY <1>0 DEF CallShape, Shaped, Advance
  <2> HIDE DEF r
  <2>2. CallShape' /\ Others(c) /\ call'[c] = r
    BY <1>0, <1>5, <2>1, OneCall DEF r
  <2>3. CascadeInv(c)'
    <3> SUFFICES ASSUME call[c].kind = "cascade" PROVE CascadeInv(c)'
      BY <2>1, <2>2 DEF CascadeInv
    <3>1. i \in Nat /\ (\A k \in 1..i : Reached(c, k)) /\ Reached(c, i + 1)
      BY <1>0, <1>5 DEF CallInv, CascadeInv
    <3>2. \A k \in 1..i + 1 : Reached(c, k)
      BY <3>1
    <3>3. \A k \in 1..i + 1 : Reached(c, k)'
      BY <1>1, <2>1, <2>2, <3>2 DEF Reached
    <3>4. call'[c].i \in Nat /\ ~Done(c)'
      BY <2>1, <2>2, <3>1 DEF Done
    <3>5. QED BY <2>1, <2>2, <3>3, <3>4 DEF CascadeInv
  <2>4. ResumeInv(c)'
    <3>1. Current(c) \in Session
      BY <1>0, <1>5 DEF CallInv, ResumeInv
    <3>2. call[c].kind = "resume" => i \in Nat
      BY <1>0 DEF CallInv, ResumeInv
    <3>3. QED BY <2>1, <2>2, <3>1, <3>2 DEF ResumeInv, Done, Current
  <2>5. CallInv(c)'
    BY <1>0, <1>1, <2>1, <2>2, <2>3, <2>4 DEF CallInv
  <2>6. QED BY <1>1, <2>2, <2>5, MergeCallStep
<1>6. QED BY <1>0, <1>3, <1>4, <1>5 DEF Settle, Done

LEMMA MergeStep == MergeInv /\ [CascadeNext]_cascadeVars => MergeInv'
BY MergeControl, MergeFetch, MergeRewalk, MergePush, MergeGit, MergeSettle, MergeOutside,
   MergeRestart DEF CascadeNext

(* Success means merged, whatever other calls, users, deletions and        *)
(* crashes come between the merges.                                        *)
THEOREM SuccessMeansMerged == CascadeSpec => []CascadePropagates
<1>1. MergeInv => CascadePropagates
  BY DEF MergeInv, CallInv, CascadeInv, Reached, CascadePropagates, At
<1>2. QED BY <1>1, MergeInit, MergeStep, PTL DEF CascadeSpec
-----------------------------------------------------------------------------
(* The order of pushes.  Creation stacks a session on an older one, and a  *)
(* deletion moves children up, to one older still: so the chain of a call  *)
(* ascends, even when the stack it was read from has changed since, and no *)
(* session comes twice in it.                                              *)
Downward == \A s \in Session : prBase[s] = None /\ (hint[s] # None => hint[s] < s)

StacksInv == TypeOK /\ Downward

Ascending(w) == /\ w \in Seq(Session) /\ Len(w) <= Cardinality(Session) + 1
                /\ \A j, k \in 1..Len(w) : j < k => w[j] < w[k]

(* How far up its chain a push has got.                                    *)
Pushed(r) == IF r.kind # "push" THEN 0
             ELSE IF r.pc = "settle" /\ r.outcome = "clean" THEN r.i + 1 ELSE r.i

Fits(r) ==
  /\ r.kind \in AllKinds \cup {"none"} /\ r.at \in Session \cup {None}
  /\ r.outcome \in {"clean", "error", "conflict"}
  /\ Ascending(r.chain) /\ r.i \in 0..Len(r.chain)
  /\ r.pc \in {"mark", "git", "settle", "pause"} => r.i < Len(r.chain)
  /\ r.pc \in {"fetch", "preflight"} /\ r.kind # "resume" => r.i < Len(r.chain)
  /\ r.sent = {r.chain[j] : j \in 1..Pushed(r)}

CallsFit == \A c \in Call : Fits(call[c])

LEMMA SessionsFinite ==
  /\ IsFiniteSet(Session) /\ Cardinality(Session) \in Nat /\ Session \subseteq Nat
  /\ None \notin Session
BY TopologyAssumption, FS_CardinalityType

LEMMA FitsBegin ==
  ASSUME NEW k \in AllKinds \cup {"none"}, NEW pc, NEW w, NEW at \in Session \cup {None},
         Ascending(w), pc \notin {"mark", "git", "settle", "pause"},
         pc \in {"fetch", "preflight"} /\ k # "resume" => Len(w) > 0
  PROVE  Fits(NewCall(k, pc, w, at))
<1>1. Len(w) \in Nat
  BY DEF Ascending
<1>2. {w[j] : j \in 1..0} = {}
  OBVIOUS
<1>3. Pushed(NewCall(k, pc, w, at)) = 0
  BY DEF Pushed, NewCall
<1>4. QED BY <1>1, <1>2, <1>3 DEF Fits, NewCall

LEMMA EmptyAscends == Ascending(<<>>)
BY SessionsFinite DEF Ascending

LEMMA FitsIdle == Fits(Idle)
BY EmptyAscends, FitsBegin DEF Idle

(* A call goes on to another place, with nothing pushed meanwhile.         *)
LEMMA FitsGoto ==
  ASSUME NEW r, Shaped(r), Fits(r), NEW pc, r.pc # "settle", pc # "settle",
         pc \in {"mark", "git", "pause"} => r.i < Len(r.chain),
         pc \in {"fetch", "preflight"} /\ r.kind # "resume" => r.i < Len(r.chain)
  PROVE  Fits([r EXCEPT !.pc = pc])
<1> DEFINE q == [r EXCEPT !.pc = pc]
<1>1. /\ q.kind = r.kind /\ q.pc = pc /\ q.chain = r.chain /\ q.i = r.i /\ q.at = r.at
      /\ q.outcome = r.outcome /\ q.sent = r.sent
  BY DEF Shaped
<1> HIDE DEF q
<1>2. Pushed(q) = Pushed(r)
  BY <1>1 DEF Pushed
<1>3. QED BY <1>1, <1>2 DEF Fits, q

(* In a stack that was built downward, stretches ascend.                   *)
LEMMA StretchAscends ==
  ASSUME StacksInv, NEW w, Stretch(w), Len(w) <= Bound + 1
  PROVE  Ascending(w)
<1>1. /\ live \subseteq Session /\ Bound \in Nat /\ Bound <= Cardinality(Session)
      /\ Len(w) \in Nat /\ w \in Seq(Session) /\ \A k \in 1..Len(w) : w[k] \in live
  <2>1. live \in SUBSET Session /\ Bound \in Nat
    BY ParentsLive DEF StacksInv
  <2>2. Bound <= Cardinality(Session)
    BY <2>1, SessionsFinite, FS_Subset DEF Bound
  <2>3. Len(w) \in Nat /\ w \in Seq(Session) /\ \A k \in 1..Len(w) : w[k] \in live
    BY <2>1 DEF Stretch
  <2>4. QED BY <2>1, <2>2, <2>3
<1>2. ASSUME NEW j \in 1..Len(w) - 1 PROVE w[j] < w[j+1]
  <2>1. Resolve(w[j+1]) = w[j]
    BY DEF Stretch
  <2>2. w[j+1] \in Session /\ w[j] \in live /\ w[j] # None
    BY <1>1, <1>2, SessionsFinite
  <2>3. hint[w[j+1]] = w[j]
    BY <2>1, <2>2 DEF Resolve, StacksInv, Downward
  <2>4. QED BY <2>2, <2>3 DEF StacksInv, Downward
<1>3. ASSUME NEW j \in 1..Len(w), NEW k \in 1..Len(w), j < k PROVE w[j] < w[k]
  <2> DEFINE G == {d \in 0..(k - j - 1) : w[j] < w[j + d + 1]}
  <2>1. 0 \in G
    <3>1. j \in 1..Len(w) - 1 /\ j + 0 + 1 = j + 1
      BY <1>1, <1>3
    <3>2. QED BY <1>1, <1>2, <1>3, <3>1
  <2>2. ASSUME NEW d \in 1..(k - j - 1), d - 1 \in G PROVE d \in G
    <3>1. /\ j + d \in 1..Len(w) - 1 /\ j + (d - 1) + 1 = j + d /\ j + d + 1 \in 1..Len(w)
          /\ j + d \in 1..Len(w)
      BY <1>1, <1>3, <2>2
    <3>2. w[j] < w[j+d] /\ w[j+d] < w[j+d+1]
      BY <1>2, <2>2, <3>1
    <3>3. w[j] \in Nat /\ w[j+d] \in Nat /\ w[j+d+1] \in Nat
      BY <1>1, <1>3, <3>1, SessionsFinite
    <3>4. w[j] < w[j+d+1]
      BY <3>2, <3>3
    <3>5. QED BY <2>2, <3>4
  <2>3. k - j - 1 \in G
    <3>1. k - j - 1 \in Nat
      BY <1>1, <1>3
    <3> HIDE DEF G
    <3>2. 0..(k - j - 1) \subseteq G
      BY <2>1, <2>2, <3>1, UpTo
    <3>3. QED BY <3>1, <3>2
  <2>4. j + (k - j - 1) + 1 = k
    BY <1>1, <1>3
  <2>5. QED BY <2>3, <2>4
<1>4. Len(w) <= Cardinality(Session) + 1
  BY <1>1, SessionsFinite
<1>5. QED BY <1>1, <1>3, <1>4 DEF Ascending

(* What a plan and a resume read.                                          *)
LEMMA ChainAscends ==
  ASSUME StacksInv, NEW s \in live
  PROVE  Ascending(ChainFrom(StackBase(s))) /\ Len(ChainFrom(StackBase(s))) > 0
<1> DEFINE w == ChainFrom(StackBase(s))
<1>1. TypeOK /\ Bound \in Nat
  BY ParentsLive DEF StacksInv
<1>2. StackBase(s) \in live
  <2>1. PICK f \in [0..Bound -> live] : StackBase(s) = f[Bound]
    BY <1>1, BaseWalk
  <2>2. QED BY <1>1, <2>1
<1>3. Stretch(w) /\ Len(w) <= Bound + 1
  BY <1>1, <1>2, ChainWalk
<1> HIDE DEF w
<1>4. Ascending(w)
  BY <1>3, StretchAscends
<1>5. Len(w) > 0
  BY <1>3 DEF Stretch
<1>6. QED BY <1>4, <1>5 DEF w

LEMMA StacksInit == CascadeInit => StacksInv
BY DEF CascadeInit, StacksInv, TypeOK, Downward

(* Only a deletion edits the stacks, and only a call's pause is recorded.  *)
LEMMA StacksMove ==
  ASSUME StacksInv, CallsFit, [CascadeNext]_cascadeVars PROVE StacksInv'
<1>1. TypeOK /\ Downward
  BY DEF StacksInv
<1>2. CASE UNCHANGED <<topology, pausedAt>>
  BY <1>1, <1>2 DEF StacksInv, TypeOK, Downward, topology
<1>3. ASSUME NEW c \in Call, MarkPaused(c) PROVE StacksInv'
  <2>1. Fits(call[c]) /\ call[c].pc = "pause" /\ pausedAt' = Current(c) /\ UNCHANGED topology
    BY <1>3 DEF CallsFit, MarkPaused
  <2>2. Current(c) \in Session
    <3>1. /\ call[c].i \in 0..Len(call[c].chain) /\ call[c].i < Len(call[c].chain)
          /\ call[c].chain \in Seq(Session)
      BY <2>1 DEF Fits, Ascending
    <3>2. QED BY <3>1 DEF Current
  <2>3. QED BY <1>1, <2>1, <2>2 DEF StacksInv, TypeOK, Downward, topology
<1>4. ASSUME NEW c \in Call, ClearPaused(c) PROVE StacksInv'
  BY <1>1, <1>4 DEF ClearPaused, StacksInv, TypeOK, Downward, topology
<1>5. ASSUME NEW d \in Session, DeleteSession(d) PROVE StacksInv'
  <2>1. Delete(d)
    BY <1>5 DEF DeleteSession
  <2>2. TypeOK'
    BY <1>1, <2>1, TopologyTyped DEF Next, Edits
  <2>3. ASSUME NEW s \in Session PROVE prBase'[s] = None /\ (hint'[s] # None => hint'[s] < s)
    <3>1. /\ prBase'[s] = IF s = d THEN None
                          ELSE IF s \in Children(d) /\ prBase[s] = d THEN BranchOf(Resolve(d))
                               ELSE prBase[s]
          /\ hint'[s] = IF s = d THEN None ELSE IF s \in Children(d) THEN Resolve(d) ELSE hint[s]
      BY <2>1 DEF Delete, Retarget
    <3>2. prBase[s] = None /\ prBase[d] = None /\ d # None
      BY <1>1, SessionsFinite DEF Downward
    <3>3. CASE s \in Children(d) /\ s # d
      <4>1. hint[s] = d /\ d < s
        BY <1>1, <3>2, <3>3 DEF Children, Resolve, Downward
      <4>2. Resolve(d) # None => Resolve(d) < d /\ Resolve(d) \in Session
        BY <1>1, <3>2 DEF Resolve, Downward, TypeOK
      <4>3. d \in Nat /\ s \in Nat /\ \A x \in Session : x \in Nat
        BY SessionsFinite
      <4>4. ASSUME Resolve(d) # None PROVE Resolve(d) < s
        <5>1. Resolve(d) \in Nat /\ Resolve(d) < d /\ d < s
          BY <4>1, <4>2, <4>3, <4>4
        <5>2. QED BY <4>3, <5>1
      <4>5. prBase'[s] = None /\ hint'[s] = Resolve(d)
        BY <3>1, <3>2, <3>3
      <4>6. QED BY <4>4, <4>5
    <3>4. CASE ~(s \in Children(d) /\ s # d)
      BY <1>1, <3>1, <3>2, <3>4 DEF Downward
    <3>5. QED BY <3>3, <3>4
  <2>4. QED BY <2>2, <2>3 DEF StacksInv, Downward
<1>6. ASSUME NEW c \in Call, Unpause(c) \/ Fetch(c) \/ Preflight(c) \/ Mark(c) \/ GitMerge(c)
             \/ GitPush(c) \/ Settle(c) \/ CheckMerge(c) \/ MarkUnpaused(c) \/ Rewalk(c)
             \/ Return(c) \/ \E s \in Session : Plan(c, s)
      PROVE  UNCHANGED <<topology, pausedAt>>
  BY <1>6 DEF Unpause, Fetch, Preflight, Mark, GitMerge, GitPush, Settle, CheckMerge,
              MarkUnpaused, Rewalk, Return, Plan
<1>7. ASSUME \/ \E s \in Session : ConcludeMerge(s) \/ MarkBySession(s)
             \/ MainMoves \/ Restart \/ UNCHANGED cascadeVars
      PROVE  UNCHANGED <<topology, pausedAt>>
  BY <1>7 DEF ConcludeMerge, MarkBySession, MainMoves, Restart, cascadeVars
<1>8. QED BY <1>2, <1>3, <1>4, <1>5, <1>6, <1>7 DEF CascadeNext

(* One call moves.                                                         *)
LEMMA OneFits ==
  ASSUME CallsFit, NEW c \in Call, Others(c), Fits(call'[c])
  PROVE  CallsFit'
<1>1. \A d \in Call : Fits(call'[d])
  BY DEF CallsFit, Others
<1>2. QED BY <1>1 DEF CallsFit

(* The call goes to another place, or ends.                                *)
LEMMA GotoFits ==
  ASSUME CallShape, CallsFit, NEW c \in Call, NEW pc, Goto(c, pc),
         pc # "idle" =>
           /\ call[c].pc # "settle" /\ pc # "settle"
           /\ pc \in {"mark", "git", "pause"} => call[c].i < Len(call[c].chain)
           /\ pc \in {"fetch", "preflight"} /\ call[c].kind # "resume"
              => call[c].i < Len(call[c].chain)
  PROVE  CallsFit'
<1>1. Shaped(call[c]) /\ Fits(call[c])
  BY DEF CallShape, CallsFit
<1>2. Others(c) /\ call'[c] = IF pc = "idle" THEN Idle ELSE [call[c] EXCEPT !.pc = pc]
  BY GotoOne
<1>3. CASE pc = "idle"
  BY <1>2, <1>3, FitsIdle, OneFits
<1>4. CASE pc # "idle"
  <2>1. Fits([call[c] EXCEPT !.pc = pc])
    BY <1>1, <1>4, FitsGoto
  <2>2. QED BY <1>2, <1>4, <2>1, OneFits
<1>5. QED BY <1>3, <1>4

LEMMA BeginFits ==
  ASSUME CallShape, CallsFit, NEW c \in Call, NEW k, NEW pc, NEW w, NEW at \in Session \cup {None},
         Begin(c, k, pc, w, at), Ascending(w), pc \notin {"mark", "git", "settle", "pause"},
         pc \in {"fetch", "preflight"} /\ k # "resume" => Len(w) > 0
  PROVE  CallsFit'
<1>1. Others(c) /\ k \in AllKinds /\ call'[c] = NewCall(k, pc, w, at)
  BY BeginOne, CascadeAssumption
<1>2. Fits(NewCall(k, pc, w, at))
  BY <1>1, FitsBegin
<1>3. QED BY <1>1, <1>2, OneFits

LEMMA ControlFits ==
  ASSUME StacksInv, CallShape, CallsFit, NEW c \in Call,
         \/ Unpause(c)     \/ \E s \in Session : Plan(c, s)
         \/ Preflight(c)   \/ Mark(c)         \/ MarkPaused(c) \/ Return(c)
         \/ CheckMerge(c)  \/ MarkUnpaused(c) \/ ClearPaused(c)
  PROVE  CallsFit'
<1>0. Fits(call[c])
  BY DEF CallsFit
<1>1. CASE Unpause(c)
  <2>1. pausedAt \in Session \cup {None}
    BY DEF StacksInv, TypeOK
  <2>2. QED BY <1>1, <2>1, BeginFits, EmptyAscends DEF Unpause
<1>2. ASSUME NEW s \in Session, Plan(c, s) PROVE CallsFit'
  <2> DEFINE w == ChainFrom(StackBase(s))
  <2>1. s \in live /\ \/ Len(w) >= 2 /\ Begin(c, "cascade", "fetch", w, None)
                      \/ Begin(c, "push", "preflight", w, None)
    BY <1>2 DEF Plan
  <2>2. Ascending(w) /\ Len(w) > 0
    BY <2>1, ChainAscends
  <2> HIDE DEF w
  <2>3. QED BY <2>1, <2>2, BeginFits
<1>3. CASE Preflight(c)
  <2>1. CASE Goto(c, "idle")
    BY <2>1, GotoFits
  <2>2. CASE Goto(c, IF call[c].kind = "resume" THEN "fetch" ELSE "mark")
    <3>1. call[c].pc = "preflight"
      BY <1>3 DEF Preflight
    <3>2. call[c].kind # "resume" => call[c].i < Len(call[c].chain)
      BY <1>0, <3>1 DEF Fits
    <3>3. CASE call[c].kind = "resume" /\ Goto(c, "fetch")
      BY <3>1, <3>3, GotoFits
    <3>4. CASE call[c].kind # "resume" /\ Goto(c, "mark")
      BY <3>1, <3>2, <3>4, GotoFits
    <3>5. QED BY <2>2, <3>3, <3>4
  <2>3. QED BY <1>3, <2>1, <2>2 DEF Preflight
<1>4. CASE Mark(c)
  <2>1. call[c].pc = "mark" /\ Goto(c, "git")
    BY <1>4 DEF Mark
  <2>2. QED BY <1>0, <2>1, GotoFits DEF Fits
<1>5. CASE MarkPaused(c) \/ Return(c)
  BY <1>5, GotoFits DEF MarkPaused, Return
<1>6. CASE CheckMerge(c)
  <2>1. call[c].pc = "check" /\ (Goto(c, "running") \/ Goto(c, "idle"))
    BY <1>6 DEF CheckMerge, At
  <2>2. QED BY <2>1, GotoFits
<1>7. CASE MarkUnpaused(c)
  BY <1>7, GotoFits DEF MarkUnpaused
<1>8. CASE ClearPaused(c)
  <2>1. call[c].pc = "clear" /\ (Goto(c, "walk") \/ Goto(c, "idle"))
    BY <1>8 DEF ClearPaused
  <2>2. QED BY <2>1, GotoFits
<1>9. QED BY <1>1, <1>2, <1>3, <1>4, <1>5, <1>6, <1>7, <1>8

LEMMA FetchFits ==
  ASSUME CallShape, CallsFit, NEW c \in Call, Fetch(c) PROVE CallsFit'
<1> DEFINE o == call[c]
           pc == IF o.kind = "cascade" THEN "preflight"
                 ELSE IF o.i = Len(o.chain) THEN "complete" ELSE "mark"
           r == [o EXCEPT !.pc = pc, !.goal = fetched']
<1>1. Fits(o) /\ Shaped(o) /\ o.pc = "fetch" /\ call' = [call EXCEPT ![c] = r]
  BY DEF CallsFit, CallShape, Fetch
<1>2. /\ Shaped(r) /\ r.kind = o.kind /\ r.pc = pc /\ r.chain = o.chain /\ r.i = o.i
      /\ r.at = o.at /\ r.outcome = o.outcome /\ r.sent = o.sent
  BY <1>1 DEF Shaped
<1> HIDE DEF r
<1>3. Pushed(r) = Pushed(o) /\ pc \in {"preflight", "complete", "mark"}
  BY <1>1, <1>2 DEF Pushed
<1>4. /\ o.i \in 0..Len(o.chain) /\ Len(o.chain) \in Nat
      /\ o.kind # "resume" => o.i < Len(o.chain)
  BY <1>1 DEF Fits, Ascending
<1>5. pc = "mark" => o.i < Len(o.chain)
  BY <1>4
<1>6. pc = "preflight" => o.i < Len(o.chain)
  BY <1>4
<1> HIDE DEF pc
<1>7. Fits(r)
  BY <1>1, <1>2, <1>3, <1>5, <1>6 DEF Fits
<1>8. Others(c) /\ call'[c] = r
  BY <1>1, <1>2, OneCall
<1>9. QED BY <1>7, <1>8, OneFits

LEMMA RewalkFits ==
  ASSUME StacksInv, CallShape, CallsFit, NEW c \in Call, Rewalk(c) PROVE CallsFit'
<1> DEFINE o == call[c]
           w == ChainFrom(StackBase(o.at))
           found == {k \in 1..Len(w) : w[k] = o.at}
           r == [o EXCEPT !.pc = "preflight", !.chain = w, !.i = Min(found)]
<1>1. /\ Fits(o) /\ Shaped(o) /\ o.pc = "walk" /\ o.kind = "resume"
      /\ call' = [call EXCEPT ![c] = IF o.at \notin live \/ found = {} THEN Idle ELSE r]
  BY DEF CallsFit, CallShape, Rewalk, At
<1>2. CASE o.at \notin live \/ found = {}
  <2>1. call' = [call EXCEPT ![c] = Idle]
    BY <1>1, <1>2
  <2>2. Others(c) /\ call'[c] = Idle
    BY <2>1, IdleShaped, OneCall
  <2>3. QED BY <2>2, FitsIdle, OneFits
<1>3. CASE o.at \in live /\ found # {}
  <2>1. Ascending(w) /\ Min(found) \in 1..Len(w)
    <3>1. Ascending(w)
      BY <1>3, ChainAscends
    <3>2. found \in SUBSET Nat
      OBVIOUS
    <3> HIDE DEF w
    <3>3. Min(found) \in found
      BY <1>3, <3>2, WholeMin
    <3>4. QED BY <3>1, <3>3
  <2> DEFINE m == Min(found)
  <2>2. call' = [call EXCEPT ![c] = r]
    BY <1>1, <1>3
  <2> HIDE DEF w, m
  <2>3. /\ Shaped(r) /\ r.kind = "resume" /\ r.pc = "preflight" /\ r.chain = w
        /\ r.i = Min(found) /\ r.at = o.at /\ r.outcome = o.outcome /\ r.sent = o.sent
    BY <1>1 DEF Shaped
  <2> HIDE DEF r
  <2>4. Pushed(r) = 0 /\ Pushed(o) = 0
    BY <1>1, <2>3 DEF Pushed
  <2>5. r.sent = {r.chain[j] : j \in 1..Pushed(r)}
    <3>1. r.sent = {o.chain[j] : j \in 1..0}
      BY <1>1, <2>3, <2>4 DEF Fits
    <3>2. QED BY <2>4, <3>1
  <2>6. Len(w) \in Nat
    BY <2>1 DEF Ascending
  <2>7. Fits(r)
    <3>1. r.i \in 0..Len(r.chain) /\ Ascending(r.chain)
      BY <2>1, <2>3, <2>6
    <3>2. /\ r.kind \in AllKinds \cup {"none"} /\ r.at \in Session \cup {None}
          /\ r.outcome \in {"clean", "error", "conflict"}
      BY <1>1, <2>3 DEF Fits
    <3>3. r.kind = "resume" /\ r.pc = "preflight"
      BY <2>3
    <3>4. QED BY <2>5, <3>1, <3>2, <3>3 DEF Fits
  <2>8. Others(c) /\ call'[c] = r
    BY <1>1, <2>2, <2>3, OneCall
  <2>9. QED BY <2>7, <2>8, OneFits
<1>4. QED BY <1>2, <1>3

LEMMA GitFits ==
  ASSUME CallShape, CallsFit, NEW c \in Call, GitMerge(c) \/ GitPush(c) PROVE CallsFit'
<1> DEFINE o == call[c]
           s == Current(c)
           r(e) == [o EXCEPT !.pc = "settle", !.outcome = e]
           q == [o EXCEPT !.pc = "settle", !.outcome = "clean", !.sent = o.sent \cup {s}]
<1>1. Fits(o) /\ Shaped(o) /\ o.pc = "git"
  BY DEF CallsFit, CallShape, GitMerge, GitPush, At
<1>2. /\ o.i \in 0..Len(o.chain) /\ o.i < Len(o.chain) /\ Len(o.chain) \in Nat
      /\ o.chain \in Seq(Session)
  BY <1>1 DEF Fits, Ascending
<1>3. \/ \E e \in {"error", "conflict", "clean"} :
           /\ call' = [call EXCEPT ![c] = r(e)]
           /\ e = "clean" => o.kind # "push"
      \/ o.kind = "push" /\ call' = [call EXCEPT ![c] = q]
  <2>1. CASE GitMerge(c)
    BY <2>1 DEF GitMerge, After, At
  <2>2. CASE GitPush(c)
    <3>1. o.kind = "push"
      BY <2>2 DEF GitPush, At
    <3>2. CASE After(c, "error")
      BY <3>2 DEF After
    <3>3. QED BY <2>2, <3>1, <3>2 DEF GitPush
  <2>3. QED BY <2>1, <2>2
<1>4. ASSUME NEW e \in {"error", "conflict", "clean"}, e = "clean" => o.kind # "push",
             call' = [call EXCEPT ![c] = r(e)]
      PROVE  CallsFit'
  <2> DEFINE t == r(e)
  <2>1. /\ Shaped(t) /\ t.kind = o.kind /\ t.pc = "settle" /\ t.chain = o.chain
        /\ t.i = o.i /\ t.at = o.at /\ t.outcome = e /\ t.sent = o.sent
    BY <1>1 DEF Shaped
  <2>2. call' = [call EXCEPT ![c] = t]
    BY <1>4
  <2> HIDE DEF t
  <2>3. Pushed(t) = Pushed(o)
    BY <1>1, <1>4, <2>1 DEF Pushed
  <2>4. Fits(t)
    BY <1>1, <1>2, <2>1, <2>3 DEF Fits
  <2>5. Others(c) /\ call'[c] = t
    BY <2>1, <2>2, OneCall
  <2>6. QED BY <2>4, <2>5, OneFits
<1>5. CASE o.kind = "push" /\ call' = [call EXCEPT ![c] = q]
  <2>1. /\ Shaped(q) /\ q.kind = "push" /\ q.pc = "settle" /\ q.chain = o.chain
        /\ q.i = o.i /\ q.at = o.at /\ q.outcome = "clean" /\ q.sent = o.sent \cup {s}
    BY <1>1, <1>5 DEF Shaped
  <2>2. call' = [call EXCEPT ![c] = q] /\ o.kind = "push"
    BY <1>5
  <2> HIDE DEF q
  <2>3. Pushed(q) = o.i + 1 /\ Pushed(o) = o.i
    BY <1>1, <2>1, <2>2 DEF Pushed
  <2>4. q.sent = {q.chain[j] : j \in 1..Pushed(q)}
    <3>1. o.sent = {o.chain[j] : j \in 1..o.i} /\ s = o.chain[o.i + 1]
      BY <1>1, <2>3 DEF Fits, Current
    <3>2. \A j : j \in 1..o.i + 1 <=> j \in 1..o.i \/ j = o.i + 1
      BY <1>2
    <3>3. q.sent = {o.chain[j] : j \in 1..o.i + 1}
      BY <2>1, <3>1, <3>2
    <3>4. QED BY <2>1, <2>3, <3>3
  <2>5. /\ q.kind \in AllKinds \cup {"none"} /\ q.at \in Session \cup {None}
        /\ Ascending(q.chain) /\ q.i \in 0..Len(q.chain) /\ q.i < Len(q.chain)
    BY <1>1, <1>2, <2>1, <2>2 DEF Fits
  <2>6. Fits(q)
    BY <2>1, <2>4, <2>5 DEF Fits
  <2>7. Others(c) /\ call'[c] = q
    BY <2>1, <2>2, OneCall
  <2>8. QED BY <2>6, <2>7, OneFits
<1>6. QED BY <1>3, <1>4, <1>5

LEMMA SettleFits ==
  ASSUME CallShape, CallsFit, NEW c \in Call, Settle(c) PROVE CallsFit'
<1> DEFINE o == call[c]
           p == [o EXCEPT !.pc = "pause", !.outcome = "clean"]
           q == Advance(c)
<1>1. Fits(o) /\ Shaped(o) /\ o.pc = "settle"
  BY DEF CallsFit, CallShape, Settle
<1>2. /\ o.i \in 0..Len(o.chain) /\ o.i < Len(o.chain) /\ Len(o.chain) \in Nat
      /\ o.outcome \in {"clean", "error", "conflict"}
  BY <1>1 DEF Fits, Ascending
<1>3. call' = [call EXCEPT ![c] = CASE o.outcome = "error" -> Idle
                                    [] o.outcome = "conflict" -> p
                                    [] OTHER -> q]
  BY DEF Settle
<1>4. CASE o.outcome = "error"
  <2>1. call' = [call EXCEPT ![c] = Idle]
    BY <1>3, <1>4
  <2>2. Others(c) /\ call'[c] = Idle
    BY <2>1, IdleShaped, OneCall
  <2>3. QED BY <2>2, FitsIdle, OneFits
<1>5. CASE o.outcome = "conflict"
  <2>1. call' = [call EXCEPT ![c] = p]
    BY <1>3, <1>5
  <2>2. /\ Shaped(p) /\ p.kind = o.kind /\ p.pc = "pause" /\ p.chain = o.chain
        /\ p.i = o.i /\ p.at = o.at /\ p.outcome = "clean" /\ p.sent = o.sent
    BY <1>1 DEF Shaped
  <2> HIDE DEF p
  <2>3. Pushed(p) = Pushed(o)
    BY <1>5, <2>2 DEF Pushed
  <2>4. Fits(p)
    BY <1>1, <1>2, <2>2, <2>3 DEF Fits
  <2>5. Others(c) /\ call'[c] = p
    BY <2>1, <2>2, OneCall
  <2>6. QED BY <2>4, <2>5, OneFits
<1>6. CASE o.outcome = "clean"
  <2> DEFINE pc == IF o.i + 1 = Len(o.chain) THEN "complete" ELSE "mark"
  <2>1. call' = [call EXCEPT ![c] = q]
    BY <1>3, <1>6
  <2>2. /\ Shaped(q) /\ q.kind = o.kind /\ q.pc = pc /\ q.chain = o.chain
        /\ q.i = o.i + 1 /\ q.at = o.at /\ q.outcome = "clean" /\ q.sent = o.sent
    BY <1>1 DEF Shaped, Advance
  <2> HIDE DEF q
  <2>3. /\ q.i \in 0..Len(q.chain) /\ q.pc \in {"complete", "mark"}
        /\ q.pc = "mark" => q.i < Len(q.chain)
    BY <1>2, <2>2
  <2>4. Pushed(q) = Pushed(o)
    BY <1>1, <1>6, <2>2, <2>3 DEF Pushed
  <2>5. /\ q.kind \in AllKinds \cup {"none"} /\ q.at \in Session \cup {None}
        /\ Ascending(q.chain) /\ q.sent = {q.chain[j] : j \in 1..Pushed(q)}
    BY <1>1, <2>2, <2>4 DEF Fits
  <2> HIDE DEF pc
  <2>6. Fits(q)
    BY <2>2, <2>3, <2>5 DEF Fits
  <2>7. Others(c) /\ call'[c] = q
    BY <2>1, <2>2, OneCall
  <2>8. QED BY <2>6, <2>7, OneFits
<1>7. QED BY <1>2, <1>4, <1>5, <1>6

LEMMA PushInit == CascadeInit => CallsFit
BY FitsIdle DEF CascadeInit, CallsFit

LEMMA PushStep ==
  StacksInv /\ CallShape /\ CallsFit /\ [CascadeNext]_cascadeVars => CallsFit'
<1>1. SUFFICES ASSUME StacksInv, CallShape, CallsFit, [CascadeNext]_cascadeVars PROVE CallsFit'
  OBVIOUS
<1>2. CASE UNCHANGED call
  BY <1>1, <1>2 DEF CallsFit
<1>3. ASSUME \/ \E s \in Session : ConcludeMerge(s) \/ MarkBySession(s) \/ DeleteSession(s)
             \/ MainMoves \/ UNCHANGED cascadeVars
      PROVE  UNCHANGED call
  BY <1>3 DEF ConcludeMerge, MarkBySession, DeleteSession, MainMoves, cascadeVars, cascade
<1>4. CASE Restart
  BY <1>4, FitsIdle DEF Restart, CallsFit
<1>5. ASSUME NEW c \in Call, GitMerge(c) \/ GitPush(c) PROVE CallsFit'
  BY <1>1, <1>5, GitFits
<1>6. QED BY <1>1, <1>2, <1>3, <1>4, <1>5, ControlFits, FetchFits, RewalkFits, SettleFits
          DEF CascadeNext

(* What a call has pushed is the lower end of its chain.                   *)
LEMMA PushedInOrder == CallsFit => PushedFromTheBase
<1>1. SUFFICES ASSUME CallsFit, NEW c \in Call, NEW k \in 2..Cardinality(Session),
                      k <= Len(call[c].chain), call[c].chain[k] \in call[c].sent
               PROVE  call[c].chain[k-1] \in call[c].sent
  BY DEF PushedFromTheBase
<1> DEFINE w == call[c].chain
           n == Pushed(call[c])
<1>2. /\ Fits(call[c]) /\ Ascending(w) /\ Len(w) \in Nat /\ w \in Seq(Session)
      /\ call[c].sent = {w[j] : j \in 1..n}
  BY <1>1 DEF CallsFit, Fits, Ascending
<1>3. n \in Nat /\ n <= Len(w)
  <2>1. call[c].i \in Nat /\ call[c].i <= Len(w)
        /\ (call[c].pc = "settle" => call[c].i + 1 <= Len(w))
    BY <1>2 DEF Fits
  <2>2. QED BY <1>2, <2>1 DEF Pushed
<1>4. PICK j \in 1..n : w[k] = w[j]
  BY <1>1, <1>2
<1> HIDE DEF w, n
<1>5. k \in 1..Len(w) /\ j \in 1..Len(w)
  BY <1>1, <1>2, <1>3 DEF w
<1>6. w[k] \in Nat /\ w[j] \in Nat
  <2>1. w[k] \in Session /\ w[j] \in Session
    BY <1>2, <1>5
  <2>2. QED BY <2>1, SessionsFinite
<1>7. ~(k < j) /\ ~(j < k)
  BY <1>2, <1>4, <1>5, <1>6 DEF Ascending
<1>8. k = j /\ k - 1 \in 1..n
  BY <1>1, <1>3, <1>5, <1>7
<1>9. QED BY <1>2, <1>8 DEF w

PushInv == StacksInv /\ MergeInv /\ CallsFit

LEMMA PushInvInit == CascadeInit => PushInv
BY StacksInit, MergeInit, PushInit DEF PushInv

LEMMA PushInvStep == PushInv /\ [CascadeNext]_cascadeVars => PushInv'
<1>1. MergeInv => CallShape
  BY DEF MergeInv
<1>2. QED BY <1>1, StacksMove, MergeStep, PushStep DEF PushInv

(* No branch is pushed before the one its review targets, whichever pushes *)
(* fail, whatever else deletes, merges, resumes or restarts meanwhile.     *)
THEOREM PushesGoUp == CascadeSpec => []PushedFromTheBase
<1>1. PushInv => PushedFromTheBase
  BY PushedInOrder DEF PushInv
<1>2. QED BY <1>1, PushInvInit, PushInvStep, PTL DEF CascadeSpec

-----------------------------------------------------------------------------
(* Types.  What branches contain is bounded by what main has.              *)
Stat == {"Running", "Merging", "Pushing", "CascadePaused", "gone"}

DataTyped == /\ status \in [Session -> Stat]
             /\ holds \in [Session -> Content] /\ mergeHead \in [Session -> Content]
             /\ origin \in 0..MaxMain /\ fetched \in 0..MaxMain

LEMMA MergedTyped ==
  ASSUME NEW a \in Content, NEW b \in Content PROVE Merged(a, b) \in Content
BY DEF Merged, Content

LEMMA NothingIsContent == NoMerge \in Content
BY CascadeAssumption DEF NoMerge, Content

LEMMA UpstreamTyped ==
  ASSUME MergeInv, CallsFit, DataTyped, NEW c \in Call, At(c, {"cascade", "resume"}, "git")
  PROVE  Upstream(c) \in Content
<1> DEFINE o == call[c]
           first == IF o.kind = "resume" THEN 1 ELSE 0
<1>1. CASE o.i = first
  BY <1>1, CascadeAssumption DEF Upstream, DataTyped, Content
<1>2. CASE o.i # first
  <2>1. /\ o.i \in 0..Len(o.chain) /\ o.chain \in Seq(Session) /\ Len(o.chain) \in Nat
        /\ o.kind = "resume" => o.i \in Nat \ {0}
    BY DEF CallsFit, Fits, Ascending, MergeInv, CallInv, ResumeInv, At
  <2>2. o.i \in 1..Len(o.chain)
    BY <1>2, <2>1
  <2>3. o.chain[o.i] \in Session
    BY <2>1, <2>2
  <2>4. QED BY <1>2, <2>3 DEF Upstream, DataTyped
<1>3. QED BY <1>1, <1>2

LEMMA DataInit == CascadeInit => DataTyped
<1>1. SUFFICES ASSUME CascadeInit PROVE DataTyped
  OBVIOUS
<1>2. \A s \in Session : [main |-> 0, work |-> {s}] \in Content
  BY CascadeAssumption DEF Content
<1>3. 0 \in 0..MaxMain
  BY CascadeAssumption
<1>4. QED BY <1>1, <1>2, <1>3, NothingIsContent DEF CascadeInit, DataTyped, Stat

LEMMA DataStep == PushInv /\ DataTyped /\ [CascadeNext]_cascadeVars => DataTyped'
<1>1. SUFFICES ASSUME PushInv, DataTyped, [CascadeNext]_cascadeVars PROVE DataTyped'
  OBVIOUS
<1>2. MergeInv /\ CallsFit
  BY <1>1 DEF PushInv
<1>3. ASSUME NEW s, NEW st \in Stat, Set(s, st) PROVE status' \in [Session -> Stat]
  BY <1>1, <1>3 DEF Set, DataTyped
<1>4. ASSUME NEW c \in Call,
             \/ Unpause(c) \/ Preflight(c) \/ MarkPaused(c) \/ GitPush(c) \/ CheckMerge(c)
             \/ ClearPaused(c) \/ Rewalk(c) \/ Return(c) \/ \E s \in Session : Plan(c, s)
      PROVE  UNCHANGED <<status, holds, mergeHead, origin, fetched>>
  BY <1>4 DEF Unpause, Preflight, MarkPaused, GitPush, CheckMerge, ClearPaused, Rewalk, Return, Plan
<1>5. CASE UNCHANGED <<status, holds, mergeHead, origin, fetched>>
  BY <1>1, <1>5 DEF DataTyped
<1>6. ASSUME NEW c \in Call, Fetch(c) PROVE DataTyped'
  BY <1>1, <1>6 DEF Fetch, DataTyped
<1>7. ASSUME NEW c \in Call, Mark(c) \/ MarkUnpaused(c) \/ Settle(c) PROVE DataTyped'
  <2>1. \E s : \E st \in Stat : Set(s, st)
    BY <1>7 DEF Mark, MarkUnpaused, Settle, Stat
  <2>2. status' \in [Session -> Stat]
    BY <1>3, <2>1
  <2>3. UNCHANGED <<holds, mergeHead, origin, fetched>>
    BY <1>7 DEF Mark, MarkUnpaused, Settle
  <2>4. QED BY <1>1, <2>2, <2>3 DEF DataTyped
<1>8. ASSUME NEW c \in Call, GitMerge(c) PROVE DataTyped'
  <2> DEFINE s == Current(c)
             up == Upstream(c)
  <2>1. up \in Content
    BY <1>1, <1>2, <1>8, UpstreamTyped DEF GitMerge
  <2>2. live \subseteq Session
    BY <1>2 DEF MergeInv
  <2>3. /\ UNCHANGED <<status, origin, fetched>>
        /\ \/ UNCHANGED <<holds, mergeHead>>
           \/ s \in live /\ holds' = [holds EXCEPT ![s] = Merged(@, up)] /\ UNCHANGED mergeHead
           \/ s \in live /\ mergeHead' = [mergeHead EXCEPT ![s] = up] /\ UNCHANGED holds
    BY <1>8 DEF GitMerge
  <2> HIDE DEF s, up
  <2>4. s \in live => Merged(holds[s], up) \in Content
    BY <1>1, <2>1, <2>2, MergedTyped DEF DataTyped
  <2>5. QED BY <1>1, <2>1, <2>2, <2>3, <2>4 DEF DataTyped
<1>9. ASSUME NEW s \in Session, ConcludeMerge(s) PROVE DataTyped'
  <2>1. Merged(holds[s], mergeHead[s]) \in Content
    BY <1>1, MergedTyped DEF DataTyped
  <2>2. QED BY <1>1, <1>9, <2>1, NothingIsContent DEF ConcludeMerge, DataTyped
<1>10. ASSUME NEW s \in Session, MarkBySession(s) PROVE DataTyped'
  <2>1. status' \in [Session -> Stat]
    BY <1>3, <1>10 DEF MarkBySession, Stat
  <2>2. QED BY <1>1, <1>10, <2>1 DEF MarkBySession, DataTyped
<1>11. ASSUME NEW s \in Session, DeleteSession(s) PROVE DataTyped'
  BY <1>1, <1>11, NothingIsContent DEF DeleteSession, DataTyped, Stat
<1>12. CASE MainMoves
  BY <1>1, <1>12, CascadeAssumption DEF MainMoves, DataTyped
<1>13. CASE Restart
  BY <1>1, <1>13 DEF Restart, DataTyped, Stat
<1>14. CASE UNCHANGED cascadeVars
  BY <1>5, <1>14 DEF cascadeVars, cascade
<1>15. QED BY <1>1, <1>4, <1>5, <1>6, <1>7, <1>8, <1>9, <1>10, <1>11, <1>12, <1>13, <1>14
           DEF CascadeNext

LEMMA TypedCalls == PushInv /\ DataTyped => CascadeTypeOK
<1>1. SUFFICES ASSUME PushInv, DataTyped PROVE CascadeTypeOK
  OBVIOUS
<1>2. ASSUME NEW c \in Call
      PROVE  /\ call[c].kind \in AllKinds \cup {"none"}
             /\ call[c].chain \in Chains /\ call[c].i \in 0..Len(call[c].chain)
             /\ call[c].at \in Session \cup {None} /\ call[c].sent \subseteq Session
             /\ call[c].pc \in {"mark", "git", "settle", "pause"} => call[c].i < Len(call[c].chain)
  <2> DEFINE o == call[c]
             w == o.chain
  <2>1. Fits(o) /\ w \in Seq(Session) /\ Len(w) \in Nat /\ Len(w) <= Cardinality(Session) + 1
    BY <1>1 DEF PushInv, CallsFit, Fits, Ascending
  <2>2. w \in Chains
    <3>1. w \in [1..Len(w) -> Session] /\ Len(w) \in 0..Cardinality(Session) + 1
      BY <2>1, SessionsFinite
    <3>2. QED BY <3>1 DEF Chains
  <2>3. Pushed(o) \in Nat /\ Pushed(o) <= Len(w)
    <3>1. o.i \in Nat /\ o.i <= Len(w) /\ (o.pc = "settle" => o.i + 1 <= Len(w))
      BY <2>1 DEF Fits
    <3>2. QED BY <2>1, <3>1 DEF Pushed
  <2>4. \A j \in 1..Pushed(o) : w[j] \in Session
    BY <2>1, <2>3
  <2>5. QED BY <2>1, <2>2, <2>4 DEF Fits
<1>3. QED BY <1>1, <1>2 DEF CascadeTypeOK, PushInv, StacksInv, DataTyped, Stat

(* The state of cascades, resumes, abandons and pushes keeps its types,    *)
(* and no call ever works on a session past the end of its chain.          *)
THEOREM CascadesTyped == CascadeSpec => []CascadeTypeOK
<1>1. PushInv /\ DataTyped => CascadeTypeOK
  BY TypedCalls
<1>2. QED BY <1>1, PushInvInit, PushInvStep, DataInit, DataStep, PTL DEF CascadeSpec
=============================================================================
