---------------------------- MODULE MCStateStore ----------------------------
(***************************************************************************)
(* Small instances of StateStore.  Process a hosts a mutator a1 and a      *)
(* state-sync loop a2, process b a task that does both in turn.            *)
(***************************************************************************)
EXTENDS StateStore

CONSTANTS a, b, a1, a2, b1, title, checked, install, v1, v2

MCField == {title, checked, install}

MCHost == [t \in Task |-> IF t \in {a1, a2} THEN a ELSE b]

Put(f, v) == [field |-> f, value |-> v]

(* Two instances minting an install id while one of them edits.            *)
MixedJobs == {Put(install, v1), Put(install, v2), Put(title, v1)}

(* Values that overwrite each other, so that the cache can go back, and a  *)
(* stamp no client sees.                                                   *)
RewriteJobs == {Put(title, v1), Put(title, v2), Put(checked, v1)}
=============================================================================
