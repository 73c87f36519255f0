----------------------------- MODULE StackForest -----------------------------
(***************************************************************************)
(* What the PR stacks of a project promise: each session has at most one   *)
(* parent, and no edit of a stack makes a session its own ancestor, so     *)
(* every session stays below a root and the board can list it.  The code   *)
(* host may report any base branch at any time (Drift), so a cycle can     *)
(* come from there; the edits themselves never close one.                  *)
(***************************************************************************)
CONSTANTS Session, None

VARIABLES members,  \* sessions with a record
          parent    \* per session: what it is stacked on, or None

fvars == <<members, parent>>

ForestTypeOK == /\ members \subseteq Session
                /\ parent \in [Session -> Session \cup {None}]

(* No loop: every group of sessions has one whose parent is outside it.    *)
Acyclic == \A D \in SUBSET members :
             D # {} => \E s \in D : parent[s] \notin D

(* x is in every group that holds a's children and their children in turn. *)
Below(x, a) ==
  \A D \in SUBSET members :
    (\A m \in members : parent[m] = a \/ parent[m] \in D => m \in D) => x \in D

ForestInit == /\ members = {}
              /\ parent = [s \in Session |-> None]

(* A new session is stacked on p, or (a checkout of a branch that reviews  *)
(* already target) becomes the parent of some roots.                       *)
Join(s, p, adopted) ==
  /\ s \notin members /\ p \in members \cup {None}
  /\ adopted \subseteq {m \in members : parent[m] = None}
  /\ adopted = {} \/ p = None
  /\ \A m \in members : parent[m] # s
  /\ members' = members \cup {s}
  /\ parent' = [m \in Session |-> IF m = s THEN p ELSE IF m \in adopted THEN s ELSE parent[m]]

(* Only the named session moves, and never below itself.                   *)
Move(s, p) == /\ s \in members /\ p \in (members \ {s}) \cup {None}
              /\ ~Below(p, s)
              /\ members' = members
              /\ parent' = [parent EXCEPT ![s] = p]

(* A deleted session's children move up to its parent (on a forest).       *)
Splice(s) == /\ s \in members
             /\ members' = members \ {s}
             /\ parent' \in [Session -> Session \cup {None}]
             /\ Acyclic => \A m \in members \ {s} :
                  parent'[m] = IF parent[m] = s THEN parent[s] ELSE parent[m]

(* A record dropped by startup leaves its children as roots.               *)
Prune(s) == /\ s \in members
            /\ members' = members \ {s}
            /\ parent' = [m \in Session |-> IF m = s \/ parent[m] = s THEN None ELSE parent[m]]

(* The host reports bases, or its answers are forgotten.                   *)
Drift == /\ members' = members
         /\ parent' \in [Session -> Session \cup {None}]

Edit == \E s \in Session :
          \/ Splice(s) \/ Prune(s)
          \/ \E p \in Session \cup {None} :
               \/ Move(s, p) \/ \E adopted \in SUBSET members : Join(s, p, adopted)

ForestNext == Edit \/ Drift

ForestSpec == ForestInit /\ [][ForestNext]_fvars
=============================================================================
