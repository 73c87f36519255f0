---------------------------- MODULE StackTopology ----------------------------
(***************************************************************************)
(* config/storage.rs and session/types.rs: PR stacks.  A session's parent  *)
(* is nowhere stored: it is resolved from the base branch the code host    *)
(* reports for its PR or, without a report, from a local hint.  Creation,  *)
(* set_session_base, deletion and PR polling each write some of these      *)
(* fields, and the walks over the resolved parents decide what a cascade   *)
(* touches and what the board lists.                                       *)
(*                                                                         *)
(* Sessions are numbered in the order they were created, and a session's   *)
(* branch goes by its number: git checks a branch out in one worktree, and *)
(* branch reconciliation refuses to adopt a sibling's.  base_branch, which *)
(* edits set along with the hint, only decides whether an edit that would  *)
(* change nothing is reported as one.                                      *)
(***************************************************************************)
EXTENDS Naturals, FiniteSets, FiniteSetsExt, Sequences

CONSTANTS Session, None, Main  \* Main: the project's main branch

ASSUME TopologyAssumption ==
  /\ Session \subseteq Nat \ {0} /\ IsFiniteSet(Session)
  /\ None \notin Session /\ Main \notin Session /\ Main # None

VARIABLES ever,     \* sessions created so far
          live,     \* sessions with a record
          hint,     \* stack_parent_session_id
          prBase,   \* pr_base_branch: the host's base for the PR, if it said
          settled,  \* the PR is merged or closed
          pausedAt  \* cascade_paused_at

topology == <<ever, live, hint, prBase, settled>>

Branch == Session \cup {Main}
-----------------------------------------------------------------------------
(* resolve_stack_parent: the host's word, if any, hides the hint.          *)
Resolve(s) ==
  IF prBase[s] # None
  THEN IF prBase[s] \in live \ {s} THEN prBase[s] ELSE None
  ELSE IF hint[s] \in live THEN hint[s] ELSE None

Children(s) == {c \in live : Resolve(c) = s}

(* Every walk is bounded by the number of sessions.                        *)
Bound == Cardinality(live)

(* is_descendant_of: climb from c, and stop at the first root.             *)
IsDescendant(c, a) ==
  LET climb[n \in 0..Bound] ==
        IF n = 0 THEN c
        ELSE LET at == climb[n-1] IN IF at \in live THEN Resolve(at) ELSE None
  IN \E n \in 1..Bound : climb[n] = a

(* walk_to_stack_base, stack_root.                                         *)
StackBase(s) ==
  LET climb[n \in 0..Bound] ==
        IF n = 0 THEN s
        ELSE LET at == climb[n-1]
                 above == Resolve(at)
             IN IF above = None THEN at ELSE above
  IN climb[Bound]

(* Wrong on purpose: whoever was created on it counts as a child.          *)
ChainByHint(b) ==
  LET walk[n \in 0..Bound] ==
        IF n = 0 THEN <<b>>
        ELSE LET chain == walk[n-1]
                 next == {c \in live : hint[c] = chain[Len(chain)]}
             IN IF Len(chain) < n \/ next = {} THEN chain ELSE Append(chain, Max(next))
  IN walk[Bound]

(* stack_chain_from_base: where a stack forks, the newest child.           *)
ChainFrom(b) ==
  LET walk[n \in 0..Bound] ==
        IF n = 0 THEN <<b>>
        ELSE LET chain == walk[n-1]
                 next == Children(chain[Len(chain)])
             IN IF Len(chain) < n \/ next = {} THEN chain ELSE Append(chain, Max(next))
  IN walk[Bound]

(* build_session_order lists a session when its stack has a root.          *)
Listed == {s \in live : Resolve(StackBase(s)) = None}
-----------------------------------------------------------------------------
(* Creation links a stacked session, whose branch is new, to its parent by *)
(* id; an unstacked one may check out a branch that PRs already target.    *)
Create(s, p) == /\ s \in Session \ ever /\ \A t \in ever : t < s
                /\ p \in live \cup {None}
                /\ p # None => \A t \in live : prBase[t] # s
                /\ ever' = ever \cup {s}
                /\ live' = live \cup {s}
                /\ hint' = [hint EXCEPT ![s] = p]
                /\ UNCHANGED <<prBase, settled, pausedAt>>

(* Wrong on purpose: the cycle check is forgotten.                         *)
MayRebaseAnywhere(s, p) == /\ s \in live /\ p \in (live \ {s}) \cup {None}
                           /\ ~settled[s] /\ pausedAt \notin live

(* Wrong on purpose: a paused cascade is no reason to refuse.              *)
MayRebaseWhilePaused(s, p) == /\ s \in live /\ p \in (live \ {s}) \cup {None}
                              /\ ~settled[s] /\ ~IsDescendant(p, s)

(* plan_set_base refuses: the session's PR is settled, a cascade is paused *)
(* over the project, or the parent is the session or below it.             *)
MayRebase(s, p) == /\ s \in live /\ p \in (live \ {s}) \cup {None}
                   /\ ~settled[s]
                   /\ pausedAt \notin live
                   /\ ~IsDescendant(p, s)

BranchOf(p) == IF p = None THEN Main ELSE p

(* apply_set_base: the hint, and the host's mirror where it hides it.      *)
Rebase(s, p) ==
  /\ hint' = [hint EXCEPT ![s] = p]
  /\ prBase' = [prBase EXCEPT ![s] = IF @ = None THEN None ELSE BranchOf(p)]

SetBase(s, p) == /\ Rebase(s, p) /\ MayRebase(s, p)
                 /\ UNCHANGED <<ever, live, settled, pausedAt>>

(* Wrong on purpose: only children linked by their hint are moved up.      *)
RetargetLinked(d) ==
  /\ hint' = [c \in Session |-> IF c = d THEN None
                                ELSE IF c \in Children(d) THEN Resolve(d) ELSE hint[c]]
  /\ prBase' = [prBase EXCEPT ![d] = None]

(* plan_ and apply_stack_retarget: d's children move up to d's parent.     *)
Retarget(d) ==
  LET above == Children(d)
      below == Resolve(d)
  IN /\ hint' = [c \in Session |-> IF c = d THEN None ELSE IF c \in above THEN below ELSE hint[c]]
     /\ prBase' = [c \in Session |-> IF c = d THEN None
                                    ELSE IF c \in above /\ prBase[c] = d THEN BranchOf(below)
                                    ELSE prBase[c]]

(* remove_session_retargeting_children, as one mutation.                   *)
Delete(d) == /\ d \in live
             /\ live' = live \ {d} /\ settled' = [settled EXCEPT ![d] = FALSE]
             /\ Retarget(d)
             /\ UNCHANGED <<ever, pausedAt>>

(* remove_session, for a creation that failed or was left behind.          *)
Drop(d) == /\ d \in live
           /\ live' = live \ {d} /\ settled' = [settled EXCEPT ![d] = FALSE]
           /\ hint' = [hint EXCEPT ![d] = None]
           /\ prBase' = [prBase EXCEPT ![d] = None]
           /\ UNCHANGED <<ever, pausedAt>>

(* apply_pr_results_at_epoch writes what the host said: a base branch, or  *)
(* none (no PR, or no base in the answer), open or settled.                *)
PrSync(s, b, closed) == /\ s \in live /\ b \in (Branch \ {s}) \cup {None}
                        /\ prBase' = [prBase EXCEPT ![s] = b]
                        /\ settled' = [settled EXCEPT ![s] = closed]
                        /\ UNCHANGED <<ever, live, hint, pausedAt>>

(* invalidate_review_metadata, when the code host is changed.              *)
ForgetReviews == /\ prBase' = [s \in Session |-> None]
                 /\ settled' = [s \in Session |-> FALSE]
                 /\ UNCHANGED <<ever, live, hint, pausedAt>>

(* A cascade somewhere in the project pauses, resumes or is abandoned.     *)
PauseElsewhere == /\ pausedAt' \in IF pausedAt = None THEN live ELSE {None}
                  /\ UNCHANGED topology
-----------------------------------------------------------------------------
Init == /\ ever = {} /\ live = {}
        /\ hint = [s \in Session |-> None]
        /\ prBase = [s \in Session |-> None]
        /\ settled = [s \in Session |-> FALSE]
        /\ pausedAt = None

Edits == \E s \in Session : \/ Delete(s) \/ Drop(s)
                            \/ \E p \in Session \cup {None} : Create(s, p) \/ SetBase(s, p)

Polls == \/ \E s \in Session, b \in Branch \cup {None}, closed \in BOOLEAN : PrSync(s, b, closed)
         \/ ForgetReviews

Next == Edits \/ Polls \/ PauseElsewhere

vars == <<topology, pausedAt>>

Spec == Init /\ [][Next]_vars
-----------------------------------------------------------------------------
TypeOK == /\ ever \subseteq Session /\ live \subseteq ever
          /\ hint \in [Session -> Session \cup {None}]
          /\ prBase \in [Session -> Branch \cup {None}]
          /\ settled \in [Session -> BOOLEAN]
          /\ pausedAt \in Session \cup {None}

(* The stacks the fields encode behave as a forest of sessions: creation,  *)
(* rebasing, deletion and drops move exactly the sessions they name, and   *)
(* the bounded climb of the cycle check finds every descendant.            *)
Parent == [s \in Session |-> IF s \in live THEN Resolve(s) ELSE None]
Forest == INSTANCE StackForest WITH members <- live, parent <- Parent
MovesTheForest ==
  \A s \in Session :
    /\ Delete(s) => Forest!Splice(s)
    /\ Drop(s) => Forest!Prune(s)
    /\ \A p \in Session \cup {None} :
         /\ SetBase(s, p) => Forest!Move(s, p)
         /\ Create(s, p) => \E adopted \in SUBSET live : Forest!Join(s, p, adopted)

EditsMoveTheForest == [][UNCHANGED topology \/ MovesTheForest]_vars

(* No edit closes a loop: from stacks in which every session is listed,    *)
(* set_session_base, creation and deletion lead to such stacks again.      *)
HidesNobody == Edits /\ Listed = live => Listed' = live'

EditsHideNobody == [][UNCHANGED topology \/ HidesNobody]_vars

(* A cascade started anywhere in a stack goes from its base to a leaf,     *)
(* each session stacked on the one before it.                              *)
ChainCoversStack ==
  Listed = live =>
    \A s \in live :
      LET chain == ChainFrom(StackBase(s))
      IN /\ Resolve(chain[1]) = None
         /\ \A i \in 1..Len(chain) - 1 : Resolve(chain[i+1]) = chain[i]
         /\ Children(chain[Len(chain)]) = {}

(* While a cascade is paused the stack it will resume in stays as it is,   *)
(* but for sessions that come or go: the children of a removed one move up *)
(* (or become roots), and roots may turn out to be stacked on a new one.   *)
KeepsPausedStack ==
  pausedAt \in live /\ Edits
  => \A s \in live \cap live' :
       \/ Parent'[s] = Parent[s]
       \/ Parent[s] \in live \ live' /\ Parent'[s] \in {None, Parent[Parent[s]]}
       \/ Parent[s] = None /\ Parent'[s] \in live' \ live

StackFrozenWhilePaused == [][UNCHANGED topology \/ KeepsPausedStack]_vars
=============================================================================
