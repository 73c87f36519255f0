----------------------------- MODULE CascadeMerge -----------------------------
(***************************************************************************)
(* session/manager/cascade.rs: merging main up a PR stack session by       *)
(* session, pausing at a conflict until the user has resolved it, resuming *)
(* or abandoning, and pushing a stack.  A call reads the stack once and    *)
(* then awaits a git command per session, so another call, a deletion, an  *)
(* attach or a crash may come between any two of its steps; nothing keeps  *)
(* two cascades apart.                                                     *)
(*                                                                         *)
(* A branch is what it contains: the newest commit of main merged into it  *)
(* and the sessions whose work it has.  What only decides whether the      *)
(* pre-flight refuses or git fails (a busy agent, uncommitted changes, a   *)
(* lock) is a choice either may make.                                      *)
(***************************************************************************)
EXTENDS StackTopology

CONSTANTS Call,     \* concurrent calls
          Kinds,    \* what callers ask for: see AllKinds
          MaxMain   \* bound: commits main gains

AllKinds == {"cascade", "resume", "abandon", "push", "delete", "crash"}

ASSUME CascadeAssumption == Kinds \subseteq AllKinds /\ MaxMain \in Nat

VARIABLES status,     \* each record's status, or gone
          holds,      \* per session: what its branch contains
          mergeHead,  \* per session: what a merge in progress brings in, or NoMerge
          origin,     \* main at the remote
          fetched,    \* origin/main as last fetched
          call        \* per call: where it stands

cascade == <<status, holds, mergeHead, origin, fetched, call>>

NoMerge == [main |-> 0, work |-> {}]
Content == [main : 0..MaxMain, work : SUBSET Session]

Contains(a, b) == b.main <= a.main /\ b.work \subseteq a.work
Merged(a, b) == [main |-> IF a.main < b.main THEN b.main ELSE a.main,
                 work |-> {s \in Session : s \in a.work \/ s \in b.work}]

NewCall(k, pc, chain, at) ==
  [kind |-> k, pc |-> pc, chain |-> chain, i |-> 0, at |-> at,
   outcome |-> "clean", goal |-> 0, sent |-> {}]

Idle == NewCall("none", "idle", <<>>, None)
-----------------------------------------------------------------------------
Set(s, st) == status' = IF s \in live THEN [status EXCEPT ![s] = st] ELSE status

Goto(c, pc) == call' = [call EXCEPT ![c] = IF pc = "idle" THEN Idle ELSE [@ EXCEPT !.pc = pc]]

At(c, k, pc) == call[c].kind \in k /\ call[c].pc = pc

Begin(c, k, pc, chain, at) ==
  /\ call[c].pc = "idle" /\ k \in Kinds
  /\ call' = [call EXCEPT ![c] = NewCall(k, pc, chain, at)]

(* cascade_merge_stack and push_stack plan from one read of the state; a   *)
(* single session is no stack to cascade.                                  *)
Plan(c, s) ==
  LET chain == ChainFrom(StackBase(s))
  IN /\ s \in live
     /\ \/ Begin(c, "cascade", "fetch", chain, None) /\ Len(chain) >= 2
        \/ Begin(c, "push", "preflight", chain, None)
     /\ UNCHANGED <<topology, pausedAt, status, holds, mergeHead, origin, fetched>>

(* preflight_session over what is left of the chain: refused, or every     *)
(* worktree is there and clean.  (A merge resolved to what the branch had  *)
(* leaves nothing to commit: clean, though still in progress.)             *)
Preflight(c) ==
  LET left == {call[c].chain[k] : k \in call[c].i + 1 .. Len(call[c].chain)}
  IN /\ call[c].pc = "preflight"
     /\ \/ Goto(c, "idle")
        \/ left \subseteq live /\ Goto(c, IF call[c].kind = "resume" THEN "fetch" ELSE "mark")
     /\ UNCHANGED <<topology, pausedAt, status, holds, mergeHead, origin, fetched>>

(* fetch_origin, before a cascade's pre-flight and after a resume's: a     *)
(* failure is logged and the call goes on, with whatever main is known     *)
(* locally: that is its goal.                                              *)
Fetch(c) ==
  /\ call[c].pc = "fetch"
  /\ fetched' \in {fetched, origin}
  /\ call' = [call EXCEPT ![c] =
       [@ EXCEPT !.pc = IF call[c].kind = "cascade" THEN "preflight"
                        ELSE IF call[c].i = Len(call[c].chain) THEN "complete" ELSE "mark",
                 !.goal = fetched']]
  /\ UNCHANGED <<topology, pausedAt, status, holds, mergeHead, origin>>
-----------------------------------------------------------------------------
(* One session of the chain: mark it, run git, settle by the outcome.      *)
Current(c) == call[c].chain[call[c].i + 1]

Mark(c) == /\ call[c].pc = "mark"
           /\ Set(Current(c), IF call[c].kind = "push" THEN "Pushing" ELSE "Merging")
           /\ Goto(c, "git")
           /\ UNCHANGED <<topology, pausedAt, holds, mergeHead, origin, fetched>>

(* Wrong on purpose: each session merges its own branch.                   *)
UpstreamOwn(c) == IF call[c].i = 0 THEN [main |-> fetched, work |-> {}]
                  ELSE holds[call[c].chain[call[c].i + 1]]

(* The first session of the chain merges origin/main, the others the       *)
(* branch below theirs.  A resume from the base counts its first session   *)
(* as the chain's first.                                                   *)
Upstream(c) ==
  LET i == call[c].i
      first == IF call[c].kind = "resume" THEN 1 ELSE 0
  IN IF i = first THEN [main |-> fetched, work |-> {}] ELSE holds[call[c].chain[i]]

After(c, result) == call' = [call EXCEPT ![c] = [@ EXCEPT !.pc = "settle", !.outcome = result]]

(* run_git_merge.  A merge in progress makes git fail, which counts as a   *)
(* conflict.                                                               *)
GitMerge(c) ==
  LET s == Current(c)
  IN /\ At(c, {"cascade", "resume"}, "git")
     /\ \/ After(c, "error") /\ UNCHANGED <<holds, mergeHead>>
        \/ /\ s \in live /\ mergeHead[s] # NoMerge
           /\ After(c, "conflict") /\ UNCHANGED <<holds, mergeHead>>
        \/ /\ s \in live /\ mergeHead[s] = NoMerge
           /\ holds' = [holds EXCEPT ![s] = Merged(@, Upstream(c))]
           /\ After(c, "clean") /\ UNCHANGED mergeHead
        \/ /\ s \in live /\ mergeHead[s] = NoMerge /\ ~Contains(holds[s], Upstream(c))
           /\ mergeHead' = [mergeHead EXCEPT ![s] = Upstream(c)]
           /\ After(c, "conflict") /\ UNCHANGED holds
     /\ UNCHANGED <<topology, pausedAt, status, origin, fetched>>

(* run_git_push; sent is what this call has pushed.                        *)
GitPush(c) ==
  /\ At(c, {"push"}, "git")
  /\ \/ After(c, "error")
     \/ /\ Current(c) \in live
        /\ call' = [call EXCEPT ![c] = [@ EXCEPT !.pc = "settle", !.outcome = "clean",
                                      !.sent = call[c].sent \cup {Current(c)}]]
  /\ UNCHANGED <<topology, pausedAt, status, holds, mergeHead, origin, fetched>>

Advance(c) == [call[c] EXCEPT !.i = @ + 1, !.outcome = "clean",
                              !.pc = IF call[c].i + 1 = Len(call[c].chain) THEN "complete" ELSE "mark"]

(* Wrong on purpose: a failed step does not stop the call.                 *)
SettleGoesOn(c) ==
  LET conflict == call[c].outcome = "conflict"
  IN /\ call[c].pc = "settle"
     /\ Set(Current(c), IF conflict THEN "CascadePaused" ELSE "Running")
     /\ call' = [call EXCEPT ![c] = IF conflict THEN [@ EXCEPT !.pc = "pause", !.outcome = "clean"]
                                    ELSE Advance(c)]
     /\ UNCHANGED <<topology, pausedAt, holds, mergeHead, origin, fetched>>

(* An error ends the call, a conflict ends it once the pause is recorded.  *)
Settle(c) ==
  LET r == call[c].outcome
  IN /\ call[c].pc = "settle"
     /\ Set(Current(c), IF r = "conflict" THEN "CascadePaused" ELSE "Running")
     /\ call' = [call EXCEPT ![c] =
          CASE r = "error" -> Idle
            [] r = "conflict" -> [@ EXCEPT !.pc = "pause", !.outcome = "clean"]
            [] OTHER -> Advance(c)]
     /\ UNCHANGED <<topology, pausedAt, holds, mergeHead, origin, fetched>>

(* mark_cascade_paused, a mutation of its own.                             *)
MarkPaused(c) == /\ call[c].pc = "pause"
                 /\ pausedAt' = Current(c) /\ Goto(c, "idle")
                 /\ UNCHANGED <<topology, status, holds, mergeHead, origin, fetched>>

(* The call reports what it did.                                           *)
Return(c) == /\ call[c].pc = "complete" /\ Goto(c, "idle")
             /\ UNCHANGED <<topology, pausedAt, status, holds, mergeHead, origin, fetched>>
-----------------------------------------------------------------------------
(* cascade_resume and cascade_abandon start from the recorded pause.       *)
Unpause(c) ==
  /\ pausedAt # None
  /\ \/ Begin(c, "resume", "check", <<>>, pausedAt)
     \/ Begin(c, "abandon", "running", <<>>, pausedAt)
  /\ UNCHANGED <<topology, pausedAt, status, holds, mergeHead, origin, fetched>>

(* A resume needs the session, and its merge committed (or aborted).       *)
CheckMerge(c) ==
  LET s == call[c].at
  IN /\ At(c, {"resume"}, "check")
     /\ Goto(c, IF s \in live /\ mergeHead[s] = NoMerge THEN "running" ELSE "idle")
     /\ UNCHANGED <<topology, pausedAt, status, holds, mergeHead, origin, fetched>>

MarkUnpaused(c) == /\ call[c].pc = "running"
                   /\ Set(call[c].at, "Running") /\ Goto(c, "clear")
                   /\ UNCHANGED <<topology, pausedAt, holds, mergeHead, origin, fetched>>

ClearPaused(c) == /\ call[c].pc = "clear"
                  /\ pausedAt' = None
                  /\ Goto(c, IF call[c].kind = "resume" THEN "walk" ELSE "idle")
                  /\ UNCHANGED <<topology, status, holds, mergeHead, origin, fetched>>

(* Wrong on purpose: goes on with the second session above.                *)
RewalkPast(c) ==
  LET s == call[c].at
      chain == ChainFrom(StackBase(s))
      found == {k \in 1..Len(chain) : chain[k] = s}
  IN /\ At(c, {"resume"}, "walk")
     /\ call' = [call EXCEPT ![c] =
          IF s \notin live \/ found = {} THEN Idle
          ELSE [@ EXCEPT !.pc = "preflight", !.chain = chain, !.i = Min(found) + 1]]
     /\ UNCHANGED <<topology, pausedAt, status, holds, mergeHead, origin, fetched>>

(* A resume walks the stack again and goes on above the paused session.    *)
Rewalk(c) ==
  LET s == call[c].at
      chain == ChainFrom(StackBase(s))
      found == {k \in 1..Len(chain) : chain[k] = s}
  IN /\ At(c, {"resume"}, "walk")
     /\ call' = [call EXCEPT ![c] =
          IF s \notin live \/ found = {} THEN Idle
          ELSE [@ EXCEPT !.pc = "preflight", !.chain = chain, !.i = Min(found)]]
     /\ UNCHANGED <<topology, pausedAt, status, holds, mergeHead, origin, fetched>>
-----------------------------------------------------------------------------
(* The user in a paused worktree: commits the resolved merge, or aborts.   *)
ConcludeMerge(s) ==
  /\ s \in live /\ mergeHead[s] # NoMerge
  /\ holds' \in {holds, [holds EXCEPT ![s] = Merged(@, mergeHead[s])]}
  /\ mergeHead' = [mergeHead EXCEPT ![s] = NoMerge]
  /\ UNCHANGED <<topology, pausedAt, status, origin, fetched, call>>

(* The rest of the session manager: an attach or a restart of the agent    *)
(* marks any session Running.  (A kill marks it Stopped, which is Running  *)
(* to this module.)                                                        *)
MarkBySession(s) == /\ s \in live /\ Set(s, "Running")
                    /\ UNCHANGED <<topology, pausedAt, holds, mergeHead, origin, fetched, call>>

MainMoves == /\ origin < MaxMain /\ origin' = origin + 1
             /\ UNCHANGED <<topology, pausedAt, status, holds, mergeHead, fetched, call>>

(* A session is deleted between any two steps of a call.                   *)
DeleteSession(s) ==
  /\ "delete" \in Kinds /\ Delete(s)
  /\ status' = [status EXCEPT ![s] = "gone"]
  /\ mergeHead' = [mergeHead EXCEPT ![s] = NoMerge]
  /\ UNCHANGED <<holds, origin, fetched, call>>

(* Wrong on purpose: startup knows of stale merges only.                   *)
StaleMerging == {"Merging"}

Stale == {"Merging", "Pushing"}

(* The process dies and starts again; startup resets what it left busy.    *)
Restart == /\ "crash" \in Kinds
           /\ call' = [c \in Call |-> Idle]
           /\ status' = [s \in Session |-> IF status[s] \in Stale THEN "Running" ELSE status[s]]
           /\ UNCHANGED <<topology, pausedAt, holds, mergeHead, origin, fetched>>
-----------------------------------------------------------------------------
(* Sessions with work of their own, stacked as they were created.          *)
CascadeInit ==
  /\ ever = Session /\ live = Session
  /\ hint \in {h \in [Session -> Session \cup {None}] :
                 \A s \in Session : h[s] # None => h[s] < s}
  /\ prBase = [s \in Session |-> None] /\ settled = [s \in Session |-> FALSE]
  /\ pausedAt = None
  /\ status = [s \in Session |-> "Running"]
  /\ holds = [s \in Session |-> [main |-> 0, work |-> {s}]]
  /\ mergeHead = [s \in Session |-> NoMerge]
  /\ origin = 0 /\ fetched = 0
  /\ call = [c \in Call |-> Idle]

CascadeNext ==
  \/ \E c \in Call :
       \/ Unpause(c)    \/ Fetch(c)        \/ Preflight(c)   \/ Mark(c)
       \/ GitMerge(c)   \/ GitPush(c)      \/ Settle(c)      \/ MarkPaused(c)
       \/ CheckMerge(c) \/ MarkUnpaused(c) \/ ClearPaused(c) \/ Rewalk(c)
       \/ Return(c)     \/ \E s \in Session : Plan(c, s)
  \/ \E s \in Session : ConcludeMerge(s) \/ MarkBySession(s) \/ DeleteSession(s)
  \/ MainMoves \/ Restart

cascadeVars == <<topology, pausedAt, cascade>>

CascadeSpec == CascadeInit /\ [][CascadeNext]_cascadeVars
-----------------------------------------------------------------------------
Chains == UNION {[1..n -> Session] : n \in 0..Cardinality(Session) + 1}

CascadeTypeOK ==
  /\ TypeOK
  /\ status \in [Session -> {"Running", "Merging", "Pushing", "CascadePaused", "gone"}]
  /\ holds \in [Session -> Content] /\ mergeHead \in [Session -> Content]
  /\ origin \in 0..MaxMain /\ fetched \in 0..MaxMain
  /\ \A c \in Call :
       /\ call[c].kind \in AllKinds \cup {"none"}
       /\ call[c].chain \in Chains /\ call[c].i \in 0..Len(call[c].chain)
       /\ call[c].at \in Session \cup {None} /\ call[c].sent \subseteq Session
       /\ call[c].pc \in {"mark", "git", "settle", "pause"} => call[c].i < Len(call[c].chain)

(* A cascade that reports success has carried main, as fetched, and the    *)
(* work of every session below into each session of the stack it walked.   *)
CascadePropagates ==
  \A c \in Call : At(c, {"cascade"}, "complete") =>
    \A k \in 1..Len(call[c].chain) :
      /\ call[c].goal <= holds[call[c].chain[k]].main
      /\ \A j \in 1..k-1 : call[c].chain[j] \in holds[call[c].chain[k]].work

(* A resume goes on with what the paused session now has: on success its   *)
(* work and that of the sessions above it is in each session further up.   *)
ResumePropagates ==
  \A c \in Call : At(c, {"resume"}, "complete") =>
    \A p, j, k \in 1..Len(call[c].chain) :
      call[c].chain[p] = call[c].at /\ p <= j /\ j < k
      => call[c].chain[j] \in holds[call[c].chain[k]].work

(* A session shown as merging or pushing has a call working on it: an      *)
(* error, a conflict or a restart never leaves the spinner on.             *)
BusyIsOwned ==
  \A s \in Session : status[s] \in {"Merging", "Pushing"} =>
    \E c \in Call : call[c].pc \in {"git", "settle"} /\ Current(c) = s

(* A stack is pushed from its base: no branch goes out before the one it   *)
(* is stacked on, which its review targets, whichever pushes fail.         *)
PushedFromTheBase ==
  \A c \in Call, k \in 2..Cardinality(Session) :
    k <= Len(call[c].chain) /\ call[c].chain[k] \in call[c].sent
    => call[c].chain[k-1] \in call[c].sent
=============================================================================
