------------------------------- MODULE MCStacks -------------------------------
(***************************************************************************)
(* Three sessions are enough for a stack with a fork and for every order   *)
(* of edits over it.  A behaviour is of one of two parts:                  *)
(*   edits: StackTopology, from an empty project.                          *)
(*   cascade: CascadeMerge, from every stack of the sessions, of which one *)
(*     may be deleted.                                                     *)
(* Sessions are numbers (creation order), so there is no symmetry to use.  *)
(***************************************************************************)
EXTENDS MCCascadeMerge

VARIABLE part

StacksInit == \/ part = "cascade" /\ CascadeInit
              \/ /\ part = "edits" /\ Init
                 /\ status = [s \in Session |-> "Running"]
                 /\ holds = [s \in Session |-> NoMerge]
                 /\ mergeHead = [s \in Session |-> NoMerge]
                 /\ origin = 0 /\ fetched = 0
                 /\ call = [c \in Call |-> Idle]

StacksNext == /\ UNCHANGED part
              /\ \/ part = "cascade" /\ CascadeNext /\ Cardinality(live') > 1
                 \/ part = "edits" /\ UNCHANGED cascade /\ Next

StacksSpec == StacksInit /\ [][StacksNext]_<<cascadeVars, part>>
=============================================================================
