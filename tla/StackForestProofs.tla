-------------------------- MODULE StackForestProofs --------------------------
(***************************************************************************)
(* The edits of a stack never close a loop, for any set of sessions.  A    *)
(* loop is a group of sessions whose parents are all in the group.  Each   *)
(* lemma takes such a group after an edit and finds one before it.         *)
(***************************************************************************)
EXTENDS StackForest, TLAPS

Loop(D, up) == D # {} /\ \A x \in D : up[x] \in D

LEMMA AcyclicMeansNoLoop ==
  Acyclic <=> \A D \in SUBSET members : ~Loop(D, parent)
BY DEF Acyclic, Loop

(* Deletion: a child of the deleted s in the group had s and then s's      *)
(* parent above it, so the group with s added was a loop.                  *)
LEMMA SpliceKeepsAcyclic ==
  ASSUME ForestTypeOK, Acyclic, NEW s \in Session, Splice(s)
  PROVE  Acyclic'
<1>1. SUFFICES ASSUME NEW D \in SUBSET members', Loop(D, parent')
               PROVE  FALSE
  BY DEF Acyclic, Loop
<1>2. \A x \in D : x \in members /\ parent'[x] \in D
                   /\ parent'[x] = IF parent[x] = s THEN parent[s] ELSE parent[x]
  BY <1>1 DEF Splice, Loop
<1>3. CASE \E x \in D : parent[x] = s
  <2>1. parent[s] \in D
    BY <1>2, <1>3
  <2>2. Loop(D \cup {s}, parent)
    BY <1>2, <2>1 DEF Loop
  <2>3. D \cup {s} \in SUBSET members
    BY <1>2 DEF Splice
  <2>4. QED BY <2>2, <2>3, AcyclicMeansNoLoop
<1>4. CASE \A x \in D : parent[x] # s
  <2>1. Loop(D, parent)
    BY <1>1, <1>2, <1>4 DEF Loop
  <2>2. D \in SUBSET members
    BY <1>2
  <2>3. QED BY <2>1, <2>2, AcyclicMeansNoLoop
<1>5. QED BY <1>3, <1>4

(* A dropped record only turns children into roots.                        *)
LEMMA PruneKeepsAcyclic ==
  ASSUME None \notin Session, ForestTypeOK, Acyclic, NEW s \in Session, Prune(s)
  PROVE  Acyclic'
<1>1. SUFFICES ASSUME NEW D \in SUBSET members', Loop(D, parent')
               PROVE  FALSE
  BY DEF Acyclic, Loop
<1>2. D \in SUBSET members /\ None \notin D
  BY DEF Prune, ForestTypeOK
<1>3. Loop(D, parent)
  BY <1>1, <1>2 DEF Prune, Loop, ForestTypeOK
<1>4. QED BY <1>2, <1>3, AcyclicMeansNoLoop

(* A new session has either a parent or children, never both.              *)
LEMMA JoinKeepsAcyclic ==
  ASSUME None \notin Session, ForestTypeOK, Acyclic, NEW s \in Session,
         NEW p \in Session \cup {None}, NEW adopted \in SUBSET members, Join(s, p, adopted)
  PROVE  Acyclic'
<1>1. SUFFICES ASSUME NEW D \in SUBSET members', Loop(D, parent')
               PROVE  FALSE
  BY DEF Acyclic, Loop
<1>2. /\ D \subseteq members \cup {s} /\ s \notin members
      /\ \A x \in D : x \in Session
                      /\ parent'[x] = IF x = s THEN p ELSE IF x \in adopted THEN s ELSE parent[x]
  BY DEF Join, ForestTypeOK
<1>3. CASE s \notin D
  <2>1. Loop(D, parent)
    BY <1>1, <1>2, <1>3 DEF Loop
  <2>2. QED BY <1>2, <1>3, <2>1, AcyclicMeansNoLoop
<1>4. CASE s \in D
  <2>1. p \in D /\ p # s /\ p # None /\ adopted = {}
    BY <1>1, <1>2, <1>4 DEF Loop, Join
  <2>2. \A x \in D \ {s} : parent[x] \in D /\ parent[x] # s
    BY <1>1, <1>2, <2>1 DEF Loop, Join
  <2>3. Loop(D \ {s}, parent)
    BY <2>1, <2>2 DEF Loop
  <2>4. QED BY <1>2, <2>3, AcyclicMeansNoLoop
<1>5. QED BY <1>3, <1>4

(* Rebasing: were s in a loop with its new parent p, then the group        *)
(* without s and all that is below s would have been a loop already: p is  *)
(* not below s, and what has a parent below s is below s itself.           *)
LEMMA MoveKeepsAcyclic ==
  ASSUME None \notin Session, ForestTypeOK, Acyclic, NEW s \in Session,
         NEW p \in Session \cup {None}, Move(s, p)
  PROVE  Acyclic'
<1>1. SUFFICES ASSUME NEW D \in SUBSET members', Loop(D, parent')
               PROVE  FALSE
  BY DEF Acyclic, Loop
<1>2. D \in SUBSET members
      /\ \A x \in D : x \in Session /\ parent'[x] = IF x = s THEN p ELSE parent[x]
  BY DEF Move, ForestTypeOK
<1>3. CASE s \notin D
  <2>1. Loop(D, parent)
    BY <1>1, <1>2, <1>3 DEF Loop
  <2>2. QED BY <1>2, <2>1, AcyclicMeansNoLoop
<1>4. CASE s \in D
  <2>1. p \in D /\ p # s
    BY <1>1, <1>2, <1>4 DEF Loop, Move, ForestTypeOK
  <2> DEFINE E == {x \in D : x # s /\ ~Below(x, s)}
  <2>2. \A x \in E : parent[x] \in D /\ parent[x] # s /\ ~Below(parent[x], s)
    <3>1. TAKE x \in E
    <3>2. parent[x] \in D /\ x \in members
      BY <1>1, <1>2 DEF Loop
    <3>3. parent[x] # s
      BY <3>2 DEF Below
    <3>4. ASSUME Below(parent[x], s) PROVE FALSE
      <4>1. PICK S \in SUBSET members :
              /\ \A m \in members : parent[m] = s \/ parent[m] \in S => m \in S
              /\ x \notin S
        BY DEF Below
      <4>2. parent[x] \in S
        BY <3>4, <4>1 DEF Below
      <4>3. QED BY <3>2, <4>1, <4>2
    <3>5. QED BY <3>2, <3>3, <3>4
  <2>3. p \in E
    BY <2>1 DEF Move
  <2>4. Loop(E, parent)
    BY <2>2, <2>3 DEF Loop
  <2>5. QED BY <1>2, <2>4, AcyclicMeansNoLoop
<1>5. QED BY <1>3, <1>4

(* The variables keep their types.                                         *)
LEMMA ForestTyped == ForestSpec => []ForestTypeOK
<1>1. ForestInit => ForestTypeOK
  BY DEF ForestInit, ForestTypeOK
<1>2. ForestTypeOK /\ [ForestNext]_fvars => ForestTypeOK'
  <2>1. SUFFICES ASSUME ForestTypeOK, [ForestNext]_fvars PROVE ForestTypeOK'
    OBVIOUS
  <2>2. CASE Edit
    BY <2>1, <2>2 DEF ForestTypeOK, Edit, Splice, Prune, Join, Move
  <2>3. CASE Drift
    BY <2>1, <2>3 DEF ForestTypeOK, Drift
  <2>4. CASE UNCHANGED fvars
    BY <2>1, <2>4 DEF ForestTypeOK, fvars
  <2>5. QED BY <2>1, <2>2, <2>3, <2>4 DEF ForestNext
<1>3. QED BY <1>1, <1>2, PTL DEF ForestSpec

(* Creating, rebasing, deleting and dropping sessions keeps the stacks     *)
(* free of loops, whatever the code host reported before: if every session *)
(* was below a root (and so on the board) then every session still is.     *)
THEOREM EditsKeepAcyclic ==
  ASSUME None \notin Session
  PROVE  ForestSpec => [][Edit /\ Acyclic => Acyclic']_fvars
<1>1. ForestTypeOK /\ [ForestNext]_fvars => [Edit /\ Acyclic => Acyclic']_fvars
  <2>1. SUFFICES ASSUME ForestTypeOK, Edit, Acyclic PROVE Acyclic'
    OBVIOUS
  <2>2. PICK s \in Session :
          \/ Splice(s) \/ Prune(s)
          \/ \E p \in Session \cup {None} :
               \/ Move(s, p) \/ \E adopted \in SUBSET members : Join(s, p, adopted)
    BY <2>1 DEF Edit
  <2>3. CASE Splice(s)
    BY <2>1, <2>3, SpliceKeepsAcyclic
  <2>4. CASE Prune(s)
    BY <2>1, <2>4, PruneKeepsAcyclic
  <2>5. ASSUME NEW p \in Session \cup {None}, Move(s, p) PROVE Acyclic'
    BY <2>1, <2>5, MoveKeepsAcyclic
  <2>6. ASSUME NEW p \in Session \cup {None}, NEW adopted \in SUBSET members,
               Join(s, p, adopted)
        PROVE  Acyclic'
    BY <2>1, <2>6, JoinKeepsAcyclic
  <2>7. QED BY <2>2, <2>3, <2>4, <2>5, <2>6
<1>2. QED BY <1>1, ForestTyped, PTL DEF ForestSpec
=============================================================================
