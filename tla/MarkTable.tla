------------------------------ MODULE MarkTable ------------------------------
(***************************************************************************)
(* What ReviewedStore promises (reviewed.rs): although several programs    *)
(* set, toggle and prune the reviewed marks of a session at the same time, *)
(* each request is carried out in one step and on the marks as they are    *)
(* then, or not at all; and what is pruned is no mark of a file which is   *)
(* still as it was when it was marked.                                     *)
(***************************************************************************)
CONSTANTS Caller, File,
          Version,  \* the contents each file takes in the diff
          Absent,   \* a file that is not in it
          Unset     \* a file that is not marked

VARIABLES tree,   \* the diff
          marks,  \* per file: the content that was reviewed
          kept,   \* files whose mark has matched the diff ever since
          asked   \* per caller: the request that is to be carried out

tableVars == <<tree, marks, kept, asked>>

NoRequest == [op |-> "none", on |-> FALSE, pin |-> [f \in File |-> Unset]]

Trees == {d \in [File -> UNION {Version[f] : f \in File}] :
            \A f \in File : d[f] \in Version[f]}

TableInit == /\ tree \in Trees /\ kept = {}
             /\ marks = [f \in File |-> Unset]
             /\ asked = [c \in Caller |-> NoRequest]

(* Files are asked for as they are in the diff.                            *)
Ask(c) ==
  /\ asked[c] = NoRequest
  /\ \E op \in {"set", "toggle"}, on \in BOOLEAN, S \in SUBSET {f \in File : tree[f] # Absent} :
       asked' = [asked EXCEPT ![c] = [op |-> op, on |-> on,
                                      pin |-> [f \in File |-> IF f \in S THEN tree[f] ELSE Unset]]]
  /\ UNCHANGED <<tree, marks, kept>>

(* The caller has failed, and is told so if it still runs.                 *)
Drop(c) == /\ asked' = [asked EXCEPT ![c] = NoRequest]
           /\ UNCHANGED <<tree, marks, kept>>

Wanted(r, f) == IF r.op = "toggle" THEN marks[f] # r.pin[f] ELSE r.on

Mark(c) ==
  LET r == asked[c]
      new == [f \in File |-> IF r.pin[f] = Unset THEN marks[f]
                             ELSE IF Wanted(r, f) THEN r.pin[f] ELSE Unset]
  IN /\ r # NoRequest
     /\ marks' = new
     /\ kept' = {f \in File : /\ new[f] # Unset
                              /\ IF new[f] = marks[f] THEN f \in kept ELSE new[f] = tree[f]}
     /\ asked' = [asked EXCEPT ![c] = NoRequest]
     /\ UNCHANGED tree

Prune(F) == /\ F \cap kept = {}
            /\ marks' = [f \in File |-> IF f \in F THEN Unset ELSE marks[f]]
            /\ UNCHANGED <<tree, kept, asked>>

(* The file is edited, or comes into the diff or out of it.                *)
Edited(f) == /\ \E v \in Version[f] : tree' = [tree EXCEPT ![f] = v]
             /\ kept' = kept \ {f}
             /\ UNCHANGED <<marks, asked>>

TableNext == \/ \E c \in Caller : Drop(c) \/ Mark(c) \/ Ask(c)
             \/ \E F \in SUBSET File : Prune(F)
             \/ \E f \in File : Edited(f)

TableSpec == TableInit /\ [][TableNext]_tableVars
=============================================================================
